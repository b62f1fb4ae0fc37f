------------------------------- MODULE Contacts -------------------------------
(***************************************************************************)
(* The contact bookkeeping of src/src/mrcontact.c: mr_add_or_lookup_contact_ *)
(* and mr_add_or_lookup_contact2_, called for every address of a received *)
(* or sent message, and mr_normalize_name, applied to the display name    *)
(* before it is stored.  The functions end in an underscore: the caller   *)
(* holds the database lock, so a call is one atomic step.                  *)
(*                                                                         *)
(* A display name reaches the call already decoded by                     *)
(* mr_decode_header_string (not part of the source tree).  It is NULL,    *)
(* the empty string, or a text "before" optionally followed by a comma and *)
(* a text "after"; a word "" stands for text that is whitespace only.  A   *)
(* stored name is a sequence of words and spaces, <<>> the empty name.     *)
(***************************************************************************)
EXTENDS Naturals, Sequences, FiniteSets

CONSTANTS
    Addrs,        \* e-mail addresses
    Words,        \* non-blank words of display names
    MaxVerified,  \* the largest mark_as_verified a caller passes
    MaxIds,       \* bound of the ids array of one message
    NULL,         \* display_name_enc == NULL
    EmptyRaw,     \* display_name_enc == ""
    NoComma,      \* the display name contains no comma
    Absent        \* no contacts row for an address

ASSUME MaxVerified \in Nat /\ MaxIds \in Nat

VARIABLES
    contacts,  \* contacts[a]: the row [id, name, verified] of address a, or Absent
    nextId,    \* the rowid sqlite3 gives the next inserted row
    rowId,     \* the value the last mr_add_or_lookup_contact_ returned
    ids,       \* the carray of contact ids collected for one message
    msgAddrs,  \* auxiliary: the addresses passed for the message so far
    contact    \* a caller's mrcontact_t object: [id, addr]

vars == <<contacts, nextId, rowId, ids, msgAddrs, contact>>

Verified == 0..MaxVerified

RawNames ==
    {NULL, EmptyRaw} \cup [before : Words \cup {""}, after : Words \cup {"", NoComma}]

Space == " "

Row == [id : Nat \ {0}, name : Seq(Words \cup {Space}), verified : Verified]

\* mr_trim: a text without its surrounding whitespace.
Trim(w) == IF w = "" THEN <<>> ELSE <<w>>

\* mr_normalize_name (lines 148-173): "Last, First" becomes the trimmed
\* first name, a space and the trimmed last name, the result itself not
\* trimmed; a name without comma is trimmed.
NormalizeName(dn) ==
    CASE dn = EmptyRaw         -> <<>>
      [] dn.after = NoComma    -> Trim(dn.before)
      [] OTHER                 -> Trim(dn.after) \o <<Space>> \o Trim(dn.before)

\* The name the update and the insert store for a non-NULL display name.
StoredName(dn) == NormalizeName(dn)

-----------------------------------------------------------------------------
(* mr_add_or_lookup_contact_, lines 195-261                                *)

\* Lines 215-216: the row is updated when a display name is given and the
\* row has none, or when the call marks it more verified than it is.
UpdateWanted(row, dn, mark) ==
    \/ dn \notin {NULL, EmptyRaw} /\ row.name = <<>>
    \/ mark > row.verified

\* Lines 217-234: with a decoded name, name and verified are both set;
\* without one (display_name_enc == NULL), only verified.
UpdateRow(row, dn, mark) ==
    IF dn = NULL THEN [row EXCEPT !.verified = mark]
    ELSE [row EXCEPT !.name = StoredName(dn), !.verified = mark]

\* One call.  An existing row is returned, updated as above; otherwise a
\* row is inserted (lines 237-258), and if sqlite3_step fails (insertOk
\* FALSE) nothing is inserted and 0 is returned.
AddOrLookup(dn, a, mark, insertOk) ==
    LET row == contacts[a] IN
    IF row # Absent
    THEN /\ contacts' = IF UpdateWanted(row, dn, mark)
                        THEN [contacts EXCEPT ![a] = UpdateRow(row, dn, mark)]
                        ELSE contacts
         /\ rowId' = row.id
         /\ UNCHANGED nextId
    ELSE IF insertOk
    THEN /\ contacts' = [contacts EXCEPT ![a] =
                [id |-> nextId,
                 name |-> IF dn = NULL THEN <<>> ELSE StoredName(dn),
                 verified |-> mark]]
         /\ rowId' = nextId
         /\ nextId' = nextId + 1
    ELSE /\ rowId' = 0
         /\ UNCHANGED <<contacts, nextId>>

\* Mutant: the id is appended without carray_search.
AddToIdsNoSearch(list, id) ==
    IF id # 0 THEN Append(list, id) ELSE list

\* Lines 272-276: a non-zero id is appended unless the array has it.
AddToIds(list, id) ==
    IF id # 0 /\ \A i \in 1..Len(list) : list[i] # id
    THEN Append(list, id) ELSE list

\* mr_add_or_lookup_contact2_ (lines 264-278).
AddOrLookup2(dn, a, mark, insertOk) ==
    /\ Len(ids) < MaxIds
    /\ AddOrLookup(dn, a, mark, insertOk)
    /\ ids' = AddToIds(ids, rowId')
    /\ msgAddrs' = msgAddrs \cup {a}
    /\ UNCHANGED contact

\* The caller starts collecting the ids of another message.
NewMessage ==
    /\ ids' = <<>>
    /\ msgAddrs' = {}
    /\ UNCHANGED <<contacts, nextId, rowId, contact>>

-----------------------------------------------------------------------------
(* The mrcontact_t object, lines 37-123.  Its id is uint32_t; the ids a    *)
(* caller may pass, and the values malloc may leave in m_id, are the ids   *)
(* the table can hold and one past them.  The object's name and verified  *)
(* are copies of the row and are left out; NULL-ness of the strings is     *)
(* carried by addr, which the code sets and frees with name.  No property  *)
(* reads the object: what it holds after a load is the assignment itself, *)
(* and its stale id after a failed load is recorded as a hazard.           *)

IdValues == 0..(Cardinality(Addrs) + 1)

\* mrcontact_new (lines 37-53): addr NULL; m_id is left as malloc
\* returned it.
FreshContact == {[id |-> i, addr |-> NULL] : i \in IdValues}

\* mrcontact_empty (lines 71-82): addr freed and NULL; id kept.
ContactEmpty(c) == [c EXCEPT !.addr = NULL]

\* mrcontact_load_from_db_ (lines 85-119): the object is emptied; if the
\* statement is prepared (predefOk) and a row has the id, its id and addr
\* are copied in.  A failed load leaves the id the object held before.
LoadFromDb(c, id, predefOk) ==
    LET e    == ContactEmpty(c)
        rows == {a \in Addrs : contacts[a] # Absent /\ contacts[a].id = id}
    IN  IF ~predefOk \/ rows = {} THEN e
        ELSE LET a == CHOOSE r \in rows : TRUE
             IN  [e EXCEPT !.id = id, !.addr = a]

\* A caller loads contact id into its object, empties it, or replaces it
\* by a new one.
UseContact ==
    /\ \/ \E id \in IdValues, ok \in BOOLEAN : contact' = LoadFromDb(contact, id, ok)
       \/ contact' = ContactEmpty(contact)
       \/ contact' \in FreshContact
    /\ UNCHANGED <<contacts, nextId, rowId, ids, msgAddrs>>

Init ==
    /\ contacts = [a \in Addrs |-> Absent]
    /\ nextId = 1
    /\ rowId = 0
    /\ ids = <<>>
    /\ msgAddrs = {}
    /\ contact \in FreshContact

Next ==
    \/ \E dn \in RawNames, a \in Addrs, mark \in Verified, ok \in BOOLEAN :
           AddOrLookup2(dn, a, mark, ok)
    \/ NewMessage
    \/ UseContact

Spec == Init /\ [][Next]_vars

\* mr_is_known_contact_ (lines 281-303): a verified contact is known
\* without asking the user interface (emailKnown is the callback's answer).
IsKnownContact(id, emailKnown) ==
    \E a \in Addrs :
        /\ contacts[a] # Absent /\ contacts[a].id = id
        /\ contacts[a].verified # 0 \/ emailKnown

-----------------------------------------------------------------------------
(* Properties                                                              *)

\* The ids collected for a message are exactly the contacts of the
\* addresses it named, each once: however the same address recurs in
\* From:, To: and Cc:, whatever display names and marks it comes with and
\* whichever inserts fail (mr_add_or_lookup_contact2_ appending the id
\* mr_add_or_lookup_contact_ returned, unless 0 or already there).
MessageContactIds ==
    /\ \A i, j \in 1..Len(ids) : i # j => ids[i] # ids[j]
    /\ {ids[i] : i \in 1..Len(ids)} =
           {contacts[a].id : a \in {b \in msgAddrs : contacts[b] # Absent}}

\* Every stored name is trimmed (the comment of mr_normalize_name, line
\* 151: "trims the resulting string"): it neither starts nor ends with a
\* space, whatever display names the contact was seen with.
NameTrimmed ==
    \A a \in Addrs :
        LET n == IF contacts[a] = Absent THEN <<>> ELSE contacts[a].name
        IN  n # <<>> => n[1] # Space /\ n[Len(n)] # Space

\* A name, once set, is kept (the comment at line 218: the name is updated
\* only if it was unset, it may have been edited by the user).
NameKeptOnceSet ==
    [][\A a \in Addrs :
         contacts[a] # Absent /\ contacts[a].name # <<>> =>
             contacts'[a].name = contacts[a].name]_contacts

\* A contact known by its verified flag stays known: once
\* mr_is_known_contact_ answers 1 without asking the user interface, no
\* later message naming the contact with a lower mark makes it unknown.
KnownStaysKnown ==
    [][\A a \in Addrs :
         contacts[a] # Absent /\ contacts[a].verified # 0 =>
             IsKnownContact(contacts[a].id, FALSE)']_contacts

=============================================================================
