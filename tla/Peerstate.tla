------------------------------ MODULE Peerstate ------------------------------
(***************************************************************************)
(* The Autocrypt peerstate engine and the part of mre2ee_decrypt() that    *)
(* feeds it (src/src/mre2ee.c, lines 503-581).                             *)
(*                                                                         *)
(* Every incoming message passes through mre2ee_decrypt(), which extracts  *)
(* the From: address and the Date:, clamps a future date to the current   *)
(* time, parses the Autocrypt: header, checks it against From: and the     *)
(* key validity, and then, holding the database lock, loads the peerstate  *)
(* of the sender and applies the header, degrades the encryption           *)
(* preference, or creates the peerstate.  Holding the lock makes the      *)
(* read-modify-write of the peerstate one atomic step, so one action per   *)
(* received message is exact.                                              *)
(*                                                                         *)
(* The peerstate operations themselves (mrapeerstate_apply_header,         *)
(* _degrade_encryption, _init_from_header, _save_to_db__) live in          *)
(* mrapeerstate.c, which is not part of the source tree; they are         *)
(* modelled from section 4.1 of the specification.                         *)
(*                                                                         *)
(* The network is hostile: any message of the Message set may arrive, in  *)
(* any order, any number of times (re-fetch, replay), with any Date:, a    *)
(* forged or missing From:, and a header speaking for another address.    *)
(***************************************************************************)
EXTENDS Naturals

CONSTANTS
    Addrs,      \* e-mail addresses of correspondents
    Keys,       \* public keys, as model values
    MaxTime,    \* bound of the clock and of message dates
    Senders,    \* the From: values a message may carry (Addrs, maybe NoFrom)
    NoFrom,     \* a message without a usable From: header
    NoDate,     \* a message without a parsable Date: header
    NoHeader,   \* no (or an unparsable, or a duplicated) Autocrypt: header
    Absent      \* no peerstate row for an address

ASSUME MaxTime \in Nat \ {0}

VARIABLES
    peerstate,     \* peerstate[a]: the acpeerstates row of address a, or Absent
    now,           \* time(NULL)
    e2ee_enabled,  \* the "e2ee_enabled" config value
    newest         \* auxiliary: per address, the newest authentic header seen

vars == <<peerstate, now, e2ee_enabled, newest>>

Times == 1..MaxTime

\* Stored preference: the wire's "no preference" is kept as a neutral value.
Prefs == {"mutual", "nopreference", "no"}
WirePrefs == {"mutual", "nopreference"}

\* A parsed Autocrypt: header; keyValid is mre2ee_driver_is_valid_key().
Header == [to : Addrs, key : Keys, prefer : WirePrefs, keyValid : BOOLEAN]

Message == [from : Senders, date : Times \cup {NoDate},
            aheader : Header \cup {NoHeader}]

PeerState == [public_key : Keys, prefer_encrypted : Prefs,
              last_seen : Times, last_seen_autocrypt : Times]

-----------------------------------------------------------------------------
(* Peerstate operations (mrapeerstate.c, from the specification).          *)

\* Mutant: the age of the header is not compared.
ApplyHeaderNoStaleCheck(ps, h, t) ==
    [public_key |-> h.key, prefer_encrypted |-> h.prefer,
     last_seen |-> t, last_seen_autocrypt |-> t]

\* mrapeerstate_apply_header: a header older than the last one applied is
\* ignored; otherwise it replaces key and preference and both timestamps.
ApplyHeader(ps, h, t) ==
    IF t < ps.last_seen_autocrypt THEN ps
    ELSE [public_key |-> h.key, prefer_encrypted |-> h.prefer,
          last_seen |-> t, last_seen_autocrypt |-> t]

\* mrapeerstate_degrade_encryption: stop preferring encryption, keep the key.
DegradeEncryption(ps, t) ==
    IF t > ps.last_seen
    THEN [ps EXCEPT !.prefer_encrypted = "no", !.last_seen = t]
    ELSE ps

\* mrapeerstate_init_from_header: a new row seeded from a first header.
InitFromHeader(h, t) ==
    [public_key |-> h.key, prefer_encrypted |-> h.prefer,
     last_seen |-> t, last_seen_autocrypt |-> t]

-----------------------------------------------------------------------------
(* What mre2ee_decrypt derives from the message before taking the lock.   *)

\* Mutant: a date in the future is used as it is.
MessageTimeUnclamped(m) ==
    IF m.date = NoDate THEN 0 ELSE m.date

\* message_time: 0 without a date, a future date is clamped to time(NULL).
MessageTime(m) ==
    IF m.date = NoDate THEN 0
    ELSE IF m.date > now THEN now ELSE m.date

\* The header parsed (mraheader_set_from_imffields returned 1).
HeaderParsed(m) == m.aheader # NoHeader

\* from: the first From: address, or, without one, the header's to=.
EffectiveFrom(m) ==
    IF m.from # NoFrom THEN m.from
    ELSE IF HeaderParsed(m) THEN m.aheader.to ELSE NoFrom

\* Mutant: the header's to= is not compared with From:.
HeaderFineNoAddrCheck(m) ==
    /\ HeaderParsed(m)
    /\ m.aheader.keyValid

\* autocryptheader_fine after the to=/From: comparison and the key check.
HeaderFine(m) ==
    /\ HeaderParsed(m)
    /\ m.from = NoFrom \/ m.aheader.to = m.from
    /\ m.aheader.keyValid

-----------------------------------------------------------------------------
(* Auxiliary bookkeeping: for every address, the newest time of an        *)
(* authentic header (From: = to= = the address, valid key, dated, e2ee    *)
(* on) and the keys such headers carried at that time.                     *)

Authentic(m) ==
    /\ m.from \in Addrs /\ HeaderParsed(m) /\ m.aheader.to = m.from
    /\ m.aheader.keyValid /\ m.date # NoDate /\ e2ee_enabled

NoteHeader(m) ==
    LET a == m.from
        t == MessageTime(m)
    IN newest' = IF ~Authentic(m) \/ t < newest[a].time THEN newest
                 ELSE IF t = newest[a].time
                      THEN [newest EXCEPT ![a].keys = @ \cup {m.aheader.key}]
                      ELSE [newest EXCEPT ![a] = [time |-> t, keys |-> {m.aheader.key}]]

-----------------------------------------------------------------------------
(* mre2ee_decrypt, lines 503-581: one received message.  The branches     *)
(* below are the branches of the locked block, each ending with           *)
(* mrapeerstate_save_to_db__.                                             *)

\* Mutant: the message_time > 0 test is missing.
GateNoTimeCheck(m) == e2ee_enabled /\ EffectiveFrom(m) # NoFrom

\* The condition of line 561: e2ee enabled, a message time, a sender.
Gate(m) == e2ee_enabled /\ MessageTime(m) > 0 /\ EffectiveFrom(m) # NoFrom

\* A known peer and a fine header: apply it, save without create.
ApplyToKnownPeer(m) ==
    LET a == EffectiveFrom(m) IN
    /\ Gate(m) /\ peerstate[a] # Absent /\ HeaderFine(m)
    /\ peerstate' = [peerstate EXCEPT ![a] = ApplyHeader(@, m.aheader, MessageTime(m))]

\* A known peer, no fine header and a newer message: degrade, save.
DegradeKnownPeer(m) ==
    LET a == EffectiveFrom(m) IN
    /\ Gate(m) /\ peerstate[a] # Absent /\ ~HeaderFine(m)
    /\ MessageTime(m) > peerstate[a].last_seen
    /\ peerstate' = [peerstate EXCEPT ![a] = DegradeEncryption(@, MessageTime(m))]

\* An unknown peer with a fine header: create the row.
CreatePeer(m) ==
    LET a == EffectiveFrom(m) IN
    /\ Gate(m) /\ peerstate[a] = Absent /\ HeaderFine(m)
    /\ peerstate' = [peerstate EXCEPT ![a] = InitFromHeader(m.aheader, MessageTime(m))]

\* Every other path leaves the peerstates alone.
LeavePeerstate(m) ==
    LET a == EffectiveFrom(m) IN
    /\ \/ ~Gate(m)
       \/ Gate(m) /\ peerstate[a] = Absent /\ ~HeaderFine(m)
       \/ /\ Gate(m) /\ peerstate[a] # Absent /\ ~HeaderFine(m)
          /\ MessageTime(m) <= peerstate[a].last_seen
    /\ UNCHANGED peerstate

Receive(m) ==
    /\ \/ ApplyToKnownPeer(m)
       \/ DegradeKnownPeer(m)
       \/ CreatePeer(m)
       \/ LeavePeerstate(m)
    /\ NoteHeader(m)
    /\ UNCHANGED <<now, e2ee_enabled>>

\* The environment: the clock advances, the user switches e2ee on or off.
Tick ==
    /\ now < MaxTime
    /\ now' = now + 1
    /\ UNCHANGED <<peerstate, e2ee_enabled, newest>>

SetE2EE(b) ==
    /\ e2ee_enabled # b
    /\ e2ee_enabled' = b
    /\ UNCHANGED <<peerstate, now, newest>>

Init ==
    /\ peerstate = [a \in Addrs |-> Absent]
    /\ now = 1
    /\ e2ee_enabled \in BOOLEAN
    /\ newest = [a \in Addrs |-> [time |-> 0, keys |-> {}]]

Next ==
    \/ \E m \in Message : Receive(m)
    \/ Tick
    \/ \E b \in BOOLEAN : SetE2EE(b)

Spec == Init /\ [][Next]_vars

-----------------------------------------------------------------------------
(* The refinement mapping: the abstract store sees key, preference and the *)
(* time of the header they came from; last_seen is the code's own detail.  *)

Trust == [a \in Addrs |->
            IF peerstate[a] = Absent THEN Absent
            ELSE [key |-> peerstate[a].public_key,
                  prefer |-> peerstate[a].prefer_encrypted,
                  time |-> peerstate[a].last_seen_autocrypt]]

PA == INSTANCE PeerstateAbstract WITH trust <- Trust, clock <- now, Times <- Times

-----------------------------------------------------------------------------
(* Properties                                                              *)

TypeOK ==
    /\ peerstate \in [Addrs -> PeerState \cup {Absent}]
    /\ now \in Times
    /\ e2ee_enabled \in BOOLEAN

\* Reordering, replay and spoofing cannot roll a peer back or hijack it
\* (spec 4.1, 4.4, 8; mre2ee_decrypt lines 542-581): whatever order the
\* messages arrive in, the stored key and last_seen_autocrypt of address a
\* are those of the newest authentic header of a, one whose From: and to=
\* are both a.
LatestHeaderWins ==
    \A a \in Addrs :
        peerstate[a] # Absent =>
            /\ peerstate[a].last_seen_autocrypt = newest[a].time
            /\ peerstate[a].public_key \in newest[a].keys

\* A message dated in the future cannot pin a peerstate ahead of the clock
\* (the clamp of lines 535-537): no peerstate time exceeds time(NULL).
PeerstateNotInFuture ==
    \A a \in Addrs :
        peerstate[a] # Absent => peerstate[a].last_seen <= now

\* mre2ee_decrypt with the peerstate operations implements the promise of
\* spec 4.1: every received message, in whatever order, replayed or
\* spoofed, either leaves a peer's key, preference and header time alone,
\* replaces them by a header no older than the stored one and not after
\* time(NULL), creates an absent row, or only degrades the preference.
PeerstateRefined == PA!Spec

\* No old message resurrects or downgrades a newer state (spec 3): the
\* last_seen of a peer never moves backward.
LastSeenMonotone ==
    [][\A a \in Addrs :
         peerstate[a] # Absent =>
             peerstate'[a].last_seen >= peerstate[a].last_seen]_peerstate

=============================================================================
