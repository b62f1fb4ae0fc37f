# TLA+ models of the deltachat-core end-to-end encryption layer

These modules model `src/src/mre2ee.c`, the Autocrypt end-to-end encryption layer of
deltachat-core. They also model the state it shares with the rest of the library.
TLC checks them. Every definition is translated from the source. The file `PROJECT.json`
maps each definition to the lines it models.

## The system

All parts but the crypto provider and the header-only files are modelled, Contacts in part. The rest are in the list "Not modelled".

- **Encrypt pipeline.** `mre2ee_encrypt` (lines 250-364) runs under the mailbox's
  database lock. It:
  1. reads `e2ee_enabled`, `configured_addr`, the own public key and, for a single
     recipient, that recipient's peerstate;
  2. releases the lock, encrypts (or not), and adds the `Autocrypt:` header.

  When there is no own key, `load_or_generate_public_key__` (155-217) generates one.
  It tests and sets the function-static `s_in_key_creation` flag while holding the lock.
  It then unlocks, creates the keypair, relocks, saves the keypair and clears the flag.
  The encrypted message is an envelope built with `new_data_part` (40-147):
  multipart/encrypted holding a version part and the ciphertext part (324-338).
- **Decrypt pipeline.** `mre2ee_decrypt` (503-605) reads From:, Date: and the
  Autocrypt: header. Under the lock it updates the sender's peerstate by applying the
  header, degrading the encryption preference, or creating the row. It then loads the
  own private key, unlocks, and walks the MIME tree (`decrypt_recursive`, 471-500).
  The walk hands every child of a multipart/encrypted part to `decrypt_part`
  (400-468), which transfer-decodes the body, checks it for PGP armor
  (`has_decrypted_pgp_armor`, 383-397) and calls the driver.
- **Peerstate engine.** The functions `mrapeerstate_apply_header`,
  `_degrade_encryption`, `_init_from_header` and `_save_to_db__` are in
  `mrapeerstate.c`, which is not under src/. They are modelled from section 4.1 of
  the specification.
- **Contacts** (`mrcontact.c`). Adding or looking up a contact, and normalising names.
- **Stock strings** (`mrstock.c`). A string id is looked up through the UI callback or
  `default_string`, and `%1$s`/`%2$s` are replaced with `strstr`.
- **The netpgp OpenSSL glue** (`openssl_crypto.c`): the `pgp_hash_t` digests, and the
  RSA, DSA and ElGamal wrappers over OpenSSL big numbers.
- Three headers that hold only declarations.

The parts interact in three ways:
- The encrypt and decrypt pipelines of one mailbox share one database lock.
- All mailboxes of the process share the static key-creation flag.
- The decrypt pipeline writes the peerstates, and the encrypt pipeline reads them to
  decide whether to encrypt.

### Hard behaviours

- Messages arrive reordered, duplicated (a re-fetch) or spoofed, and their Date:
  values can be in the future.
- Threads race for the missing own key, and the lock is released during generation.
- Key creation, encryption or decryption can fail halfway.
- The MIME tree comes from the sender: any nesting, encoding or garbage is possible.

## Modules

| Module | Models | State | Actions |
|---|---|---|---|
| `Peerstate` | mre2ee_decrypt 503-581, and mrapeerstate (spec §4.1) | `peerstate[a]`, `now`, `e2ee_enabled`, auxiliary `newest[a]` | `Receive(m)` = `ApplyToKnownPeer` ∨ `DegradeKnownPeer` ∨ `CreatePeer` ∨ `LeavePeerstate`; environment `Tick`, `SetE2EE` |
| `Encrypt` | mre2ee_encrypt 250-364, load_or_generate_public_key__ 155-217 | per-thread `pc`, per-mailbox lock `holder`, `s_in_key_creation`, `selfKeys[mb]`, `peerstate[mb][a]`, results | `Call`, `LockDisabled`, `LockHaveKey`, `LockNoKey`, `TestFlagStep`, `SetFlag`, `Generate`, `Relock`, `Encrypt`, `PeerstateChanged` |
| `Contacts` | mr_add_or_lookup_contact_, _contact2_, mr_normalize_name, mr_is_known_contact_, the mrcontact_t object (new, empty, load_from_db_) | `contacts[a]`, `nextId`, `rowId`, `ids`, the object `contact` | `AddOrLookup2(dn, a, mark, ok)`, `UseContact` (`LoadFromDb`, `ContactEmpty`, a fresh object), environment `NewMessage` |
| `DecryptTree` | decrypt_part, decrypt_recursive, mre2ee_decrypt 583-605 | `tree`, `ownKey`, `phase`, `tried`, `decrypted`, `crashed` | `DecryptNoKey`, `DecryptWalk` |
| `E2EE` | one mailbox's encrypt and decrypt pipelines over one lock | `Encrypt`'s thread state, `Peerstate`'s `ps`, `now`, `e2ee`, `newest`, auxiliary `authentic[a]` | `Receive(m)` (`Peerstate!Receive` seen by `Encrypt` as `PeerstateChanged`), `Send`, `Environment` |
| `PeerstateAbstract` | the abstract promise of the peerstate store (spec §4.1): time-monotonic trust | `trust[a]`, `clock` | `Adopt(a, k, p, t)`, `Degrade(a)`, `Advance` |
| `KeyCreation` | the abstract promise of key creation (spec §4.3 step 1, §5) | `generating`, `ownKeys[mb]` | `Begin(t)`, `Finish(t, ok)` |
| `Envelope` | new_data_part 40-147, the envelope of mre2ee_encrypt 324-338 | none: operators building `DecryptTree` nodes | none |
| `Armor` | has_decrypted_pgp_armor 383-397, byte by byte | none: RECURSIVE operators | none |
| `Stock` | mrstock.c 45-136 | none: operators over character strings | none |
| `Hash` | openssl_crypto.c 100-417, the six digests | a record: the `pgp_hash_t` copy `h`, the live contexts `heap`, `next`, `fault`, `outs` | operators `PgpHash`, `HashInit(m, ok)`, `HashAdd`, `HashFinish`, folded over callers |
| `CryptoWrappers` | openssl_crypto.c 419-1110, the RSA, DSA and ElGamal wrappers and RSA key generation | none: operators from the outcomes of the OpenSSL calls to the return value | none |

Each module has an `MC` module that defines the model values and the small sets the
`.cfg` files use.

### How the models correspond to the code

**Peerstate.**
- Each received message is one atomic step. The peerstate read-modify-write is done
  under `mrsqlite3_lock`.
- A message is a record. From: is an address or `NoFrom`; Date: is a time or `NoDate`;
  the header is a parsed record or `NoHeader`.
- The parsing and the date clamp (`MessageTime`) and the to=/From: comparison
  (`HeaderFine`) are operators. The condition at line 561 is `Gate`.
- The four branches of the locked block are the four sub-actions.
- `newest` records, for each address, the newest header that really came from it:
  From: and to= are both that address, the key is valid, and the message is dated.
  Properties are stated against `newest`.
- The refinement mapping `Trust` shows each peerstate as key, preference and
  `last_seen_autocrypt`, and `now` as the abstract clock. Applying a header is `Adopt`,
  creating a row is `Adopt` on an absent row, degrading is `Degrade`, and a tick is
  `Advance`. A stale header and every other path are stutters. `last_seen` is the
  code's own bookkeeping and is hidden.

**Encrypt.**
- `pc` follows the code positions that matter for interleaving:
  - taking the lock;
  - the flag test at 168 and the flag set at 169 (two steps, because across mailboxes
    the flag is not protected);
  - generation outside the lock;
  - relocking, clearing the flag and saving;
  - loading the recipient's peerstate and unlocking;
  - encrypting.
- `Generate(t, ok)` and `Encrypt(t, ok)` choose success or failure nondeterministically,
  which covers every failure path of the code.
- `PeerstateChanged` is a concurrent `mre2ee_decrypt` rewriting a peerstate while the
  lock is free.
- The auxiliary `offered[t]` records every key the single recipient offered (a row whose
  preference is not "no") from the call until the lock is taken, including rows a
  concurrent decrypt writes. `EncryptedToOfferedKey` is stated against it.
- `Call` clears the result, as the helper's `memset` at line 265 does. The dead locals
  `genOk`, `doEncrypt` and `encKey` are reset when the code leaves their scope.
- The refinement mapping sends the threads at `generate` or `relock` to
  `KeyCreation`'s `generating`, and `selfKeys` to `ownKeys`. Taking the lock and
  setting the flag is `Begin`. Saving (or failing) and clearing the flag is `Finish`.
  Every other step is a stutter of `KeyCreation`.

**E2EE.**
- `P == INSTANCE Peerstate` and `E == INSTANCE Encrypt` share the lock and the
  e2ee setting. `Encrypt`'s peerstate row of an address is `EncRow` of `Peerstate`'s
  row: key and preference, as `mrapeerstate_load_from_db__` gives them to
  `mre2ee_encrypt` (lines 292-293). The timestamps are hidden.
- A received message is `P!Receive`, taken only while the lock is free, together with
  `E!PeerstateChanged` for the row it wrote, which keeps `Encrypt`'s `offered`
  bookkeeping.
- `authentic[a]` collects the keys of headers whose From: and to= are both `a` with a
  valid key. `EncryptedToAuthenticKey` is stated against it.
- One thread, one correspondent, two keys and times 1..2 are enough for the spoofed
  header to reach an outgoing message. With From: always present the same model passes
  (3,160 states). Checking every `Peerstate` property on the composition with two
  correspondents and times 1..3 takes longer than ten minutes, so those stay on
  `Peerstate` alone.

**Envelope.**
- A content type is a type and a subtype. `NewDataPart` gives a multipart no transfer
  encoding and no body; a single part gets the given encoding (base64 for -1) and the
  data.
- `EncryptedMessage(c)` is the message part whose body is multipart/encrypted with the
  version part and the ciphertext part. `SentMessages` are these envelopes for
  ciphertext armored to us or to someone else. They are added to the trees the decrypt
  walk receives.

**Armor.**
- A buffer is a sequence of bytes 0..255 that is not NUL-terminated. `SkipSpace` is the
  `while` loop; it returns the pointer and the remaining `str_bytes`.
- `Mismatches` and `StrncmpReads` model `strncmp` by what it reads: up to the first
  difference, else all of the marker's bytes.
- The reference is the specification's test: after the leading bytes <= ' ', the marker
  is a strict prefix of the rest.
- The model's marker is two bytes ("-B"); 27 in the code is the marker's length.

**Stock.**
- Text around a placeholder is the character "x". A placeholder is its two characters
  that matter: the shared '%' and the digit. So inserted characters can still form or
  break a placeholder.
- `Strstr` is a RECURSIVE search. `ReplString` splices as `repl_string` does.
  `mr_mprintf("%i")` is `IntToStr`, the decimal digits.
- The reference is `ReplaceFirstSubSeq` of the community module SequencesExt, and a
  one-pass substitution of both placeholders.

**DecryptTree.**
- A MIME tree is a record. Data are abstracted to the kinds the walk tells apart:
  empty, text, garbled, armor for us, armor for another recipient.
- `DecryptRecursive` is a RECURSIVE operator that returns the set of `decrypt_part`
  calls.
- `DecryptPart` models the union read `mime->mm_data.mm_single`:
  - for a multipart it reads the preamble;
  - for a message part it is undefined behaviour, a nondeterministic `ub` that either
    faults or finds nothing.
- The reference `Candidates` is stated by paths and needs no recursion over the walk.
  It is the set of armored single parts whose parent is the outermost
  multipart/encrypted on their path.

**Contacts.**
- Callers hold the lock, so one call of `mr_add_or_lookup_contact2_` is one step.
- A display name is NULL, the empty string, or a text with an optional comma. A blank
  word stands for whitespace.
- `NormalizeName` turns "Last, First" into the trimmed first half, a space and the
  trimmed last half, as `mr_normalize_name` does with `mr_trim`, `strcpy` and
  `strcat`. A stored name is a sequence of words and spaces, so a space left over by a
  blank half stays visible. A name without comma is trimmed.
- The auxiliary `msgAddrs` collects the addresses passed for the current message.
  `NewMessage` resets it together with `ids`.
- `contact` is a caller's `mrcontact_t`, reduced to its `m_id` and `m_addr`. Name and
  verified are copies that no property reads. `FreshContact` leaves `m_id` as malloc
  left it: any id the table can hold, 0, or one past the last.
- `LoadFromDb(c, id, ok)` empties the object first. `ok` says whether the statement was
  prepared. Id and addr are copied only when a row has the id, so a failed load keeps
  the old id.
- No property reads `contact`. After a successful load, the object holds what the
  assignment at lines 107-109 copies, so a property about it would only restate that
  assignment. The stale id after a failed load is a hazard. A property against it
  would be violated by the code and would need a violation run, and the callers that
  read `m_id` are not in the repository. The object is modelled so that its steps
  interleave with the other contact operations in the checked runs.
- An insert may fail (`ok`), in which case 0 is returned.

**Hash.**
- A `pgp_hash_t` is a record of what the six static structs differ in: the context type
  `init` callocs (`ctx`), the OpenSSL family `add` and `finish` call (`family`), the
  length `finish` returns (`ret`), and the struct's `size`. `data` is 0 for NULL.
- The selectors copy the whole struct, `data` included (`*hash = md5`).
- `HashInit(m, ok)`: `ok` is whether calloc succeeds. A live `data` is only reported, as
  in the code. On failure `data` becomes NULL.
- `HashAdd` and `HashFinish` set `fault` when `data` is not a live context of the type
  the family takes. `HashFinish` records what it returned and what Final wrote, frees the
  context and sets `data` to NULL.
- The shared operators map to md5's lines. Each struct record maps to its algorithm's
  block.
- OpenSSL's digest lengths and context types (`DigestLength`, `ContextOf`) are the
  reference the structs are checked against.
- The callers are not in the repository. They are modelled from the protocol the
  struct defines: select, init, and after a successful init some adds and one finish.
  `RunHash` folds a caller's calls over the memory with `FoldLeft`.

**CryptoWrappers.**
- Each wrapper is an operator whose arguments are the results of the OpenSSL calls it
  tests, with the values OpenSSL documents: `DSA_do_verify` and `RSA_check_key` return
  1, 0 or -1; an `RSA_*crypt` call returns a length or -1; `RSA_generate_key_ex`
  returns 1 or 0.
- The numbers themselves are not modelled. A length is 1 or 2.
- Every early return is kept: `RsaPrivateEncrypt` and `RsaPrivateDecrypt` return 0 when
  the key check fails, before the operation.
- `RsaGenerateKeypair(gen, inv, mpi)` has one case per `return` of the function.
  `pgp_write_mpi` is called for d, p, q and u, and the `||` stops at the first failure.
- For ElGamal, the `goto done` chain is `FirstFailure` over the steps in code order.
  The nine allocations are one step, because the code tests them in one `if`.
- `DsaVerify` converts to unsigned modulo `UnsignedRange`. That is 2^16, the least
  width C allows, because TLC's integers stop at 2^31. The conversion of -1 is
  nonzero at any width.
- `DsaPrivateCheck` and `ElgamalPrivateCheck` always reject the key, as the code
  does.
- No property is checked on this module. Each return convention is a single guard,
  so a property comparing success with "every call succeeded" would only restate that
  guard. The module records what the pipelines' success and failure outcomes stand
  for. The wrappers' real defects concern ownership, and they are listed under
  "Not modelled".

## Runs

| Run | Expect | Checks |
|---|---|---|
| `peerstate_safety` | pass | `TypeOK`, `LatestHeaderWins` (reordering, replay and spoofing never leave a peer with anything but the newest authentic header), `PeerstateNotInFuture`, `PeerstateRefined` (the decrypt side implements `PeerstateAbstract`: a key changes only to a header no older than the stored one and not after the clock, and degrading keeps key and header time) |
| `e2ee_no_from` | violation | `EncryptedToAuthenticKey` in the composed `E2EE`, when messages may lack From: |
| `peerstate_last_seen` | violation | `LastSeenMonotone`: last_seen never goes back |
| `encrypt_one_mailbox` | pass | `SingleSelfKey` (at most one own keypair per mailbox), `FlagOwned` (the flag is set only while a generation is under way), `EncryptedToOfferedKey` (a message is encrypted only to a key the recipient offered during the call), `KeyCreationRefined` (the threads implement `KeyCreation`), `CallsReturn` (every call returns, under the fairness below), `HashLifecycleChecked` (the digests free every context, hand OpenSSL only live contexts of the right type, and return the size their struct declares), and deadlock freedom |
| `encrypt_header_on_failure` | violation | `HeaderWhenKey`: the Autocrypt header is sent whenever the own key was loaded |
| `encrypt_two_mailboxes` | violation | `SingleSelfKey` with two mailboxes in one process |
| `decrypt_walk` | pass | `TriesExactlyCandidates` (the walk tries exactly the reference candidates), `SentEnvelopeDecrypted` (on an envelope mre2ee_encrypt built, a receiver with a key tries exactly the ciphertext part), `ArmorScanChecked` (the byte-level armor test agrees with the reference and reads only inside the buffer) |
| `contacts_safety` | pass | `MessageContactIds` (the id list of a message is exactly the contacts of the addresses it named, each once, whatever inserts fail), `StockReplChecked` (the stock-string substitution agrees with the reference) |
| `contacts_name_kept` | violation | `NameKeptOnceSet` (the comment at mrcontact.c:218) |
| `contacts_known` | violation | `KnownStaysKnown`: a contact known by its verified flag stays known |
| `decrypt_in_place` | violation | `DecryptedInPlace` |
| `decrypt_nested` | violation | `OnlyLeavesRead`: no crash, and only single parts are read |

### Findings

The violation runs show these disagreements:
1. A replayed older header re-enables encryption after a degrade, and moves last_seen
   backwards. apply_header compares only against last_seen_autocrypt (line 567).
2. Without From:, a header is accepted for the address it names (line 544). In the
   composition the next message to that address is encrypted to the named key, one the
   address never published (9 steps: the spoofed message, then one send).
3. When encryption fails, the header is skipped (line 318), although spec §4.3 says it is
   attached unconditionally.
4. The static `s_in_key_creation` flag races between mailboxes, so one mailbox can get
   two keypairs (line 157).
5. The decrypted plaintext is discarded (line 460).
6. `decrypt_part` reads the wrong union member of non-leaf children. A NULL preamble
   faults (line 411).
7. In mrcontact.c, raising the verified mark also overwrites an existing name (line 222).
8. In mrcontact.c, a display name given for an unnamed contact writes the caller's lower
   mark over verified, so a verified contact becomes unknown (line 216).

Two more disagreements are recorded as hazards, not as runs.

The first: `mrstock_str_repl_string2`
(mrstock.c:121) searches `%2$s` after inserting the first text. A group name holding
`%2$s` is therefore substituted. `StockReplChecked` states the substitution only for
inserted texts without '%'. Without that restriction the same formula is violated at
once.

The second: `mr_normalize_name` (mrcontact.c:168) trims the two halves of "Last, First"
but not the result, although its comment (line 151) says it does. "Petersen," is stored
as " Petersen", and "," as " ". A blank name counts as set, so a later real display
name never replaces it. `Contacts` states the comment as `NameTrimmed`, and TLC violates
it in one step on `MCContacts`.

`ArmorScanChecked` and `StockReplChecked` are formulas of constants. They are stated on
the initial states (`phase = "received"`, `Init`), so they are evaluated once per
initial state and reported as invariants.

### Bounds

**Peerstate.**
- Two addresses, two keys and times 1..3.
- Three times are the fewest that let a message be older, equal to or newer than a
  stored value, and let a Date: lie in the future.
- Two addresses let a header for one be sent from the other.

**Encrypt.**
- Two threads of one mailbox are enough for the test-then-set race and the
  unlock-during-generation window.
- The cross-mailbox run needs three threads: two mailboxes race, and a third thread
  enters after the first clears the flag.
- Recipient sets are one or two addresses. The peerstate rows range over every key and
  preference in the one-mailbox run.

**DecryptTree.**
- The well-formed trees cover:
  - plain leaves;
  - multipart/encrypted with one or two children of every encoding and data kind;
  - multipart/mixed wrapping these;
  - a message part.
- The nested run adds multiparts and message parts as children of multipart/encrypted.
- The walk run adds the two envelopes of `SentMessages`.
- The armor test runs over every buffer of up to 4 bytes of {' ', '-', 'B', 0xC8} with
  the marker "-B". This covers leading space, a marker that exactly fills the rest (the
  `str_bytes > 27` edge), a marker followed by data, and a marker cut short.

**Stock.**
- Templates are every string of up to 4 characters of {'%', '1', '2', 'x'}: both
  placeholders in either order, a stray '%' or digit, or a split placeholder.
- Inserted texts are up to 2 characters.

**Hash.**
- Two rounds on one `pgp_hash_t`, of every algorithm, with calloc failing or not and 0
  to 2 adds: 576 callers. Two rounds are the fewest in which a context left from the
  first round, or a stale `data`, could be used or leaked by the second.
- The check is about constants only. It is stated as `Init => ...` in `MCEncrypt`, so
  it is evaluated once per initial state.

**Contacts.**
- Two addresses, two words and marks 0..2.
- Ids are capped at 3 per message, which is more than the two addresses need.
- Three marks let a call be lower than, equal to or higher than the stored value.
- A contact object may be loaded with ids 0 to 3. That covers the two rows, an id with
  no row, and the id the next insert will take.

### Fairness

`encrypt_one_mailbox` uses `FairSpec`, which adds `Fairness`:
- **Strong fairness** on taking the lock (`LockDisabled`, `LockHaveKey`, `LockNoKey`)
  and on `Relock`. `mrsqlite3_lock` is a blocking mutex: a waiter gets it unless it is
  taken again each time it is released. The lock is only intermittently free, so weak
  fairness would not do.
- **Weak fairness** on every other step of a running thread (the flag test and set,
  generation, encryption). A thread that can continue without waiting does continue.
- **No fairness** for `Call` and `PeerstateChanged`. Callers need not send, and a
  concurrent decrypt need not happen.

`KeyCreation`'s `Spec` asks that a creation under way finishes (weak fairness on
`Finish`). `KeyCreationRefined` checks this as well.

`CallsReturn` holds under this fairness. When the flag is set, a thread without a key
returns without one (line 168); it does not wait for the flag.
`PeerRows <- DecryptPeerRows` limits the rows concurrent decrypts write to the ones
`mre2ee_decrypt` can leave: a decrypt never deletes a row. This keeps the liveness run
small.

## Not modelled

- The Autocrypt header text codec (`mraheader.c`, not under src/). Its result is the
  input of `Receive`.
- The NULL returns of `new_data_part`: `mre2ee_encrypt` dereferences the result
  unchecked.
- `mre2ee_thanks`, `mre2ee_init` and `mre2ee_exit`: they free the ciphertext buffer or
  call the driver, and change no modelled state.
- Of Contacts: `mr_get_first_name` and the count query, which change no state. Also
  `mrcontact_ref` and `mrcontact_unref`, whose reference counting is done by macros of a
  header that is not in the repository.
- Of stock strings: the wording of the texts. Text is abstracted to "x".
- The OpenSSL crypto primitives (arithmetic, out of TLC's reach).
- The memory ownership of the RSA, DSA and ElGamal wrappers. `CryptoWrappers` models
  only what they return. Their ownership defects can be seen by reading the code and
  are listed as hazards. Showing them in TLC would take violation runs, and every
  violation run already holds a finding about the pipelines:
  - the RSA object leaks when `RSA_check_key` fails (lines 533, 619);
  - `pgp_dsa_verify` leaks on an error (line 455);
  - the ElGamal functions free numbers borrowed from the caller's keys (lines 1033,
    1098, 1101);
  - `pgp_rsa_generate_keypair` leaks `ctx` on its failure returns (lines 757, 781).
- `pgp_dsa_sign`: it does not test `DSA_do_sign`, and dereferences NULL on failure
  (line 922, a hazard). `decide_k_bits` only sizes a random number, which has no
  effect on any modelled result.
- A digest `init` on a live context leaks it (the code only warns). This is listed as a
  hazard; the modelled callers keep to the protocol.
- The declaration-only headers.

## Plan

1. `mr_get_first_name`, once display names are modelled with spaces inside words.
2. The ownership of the crypto wrappers, if a violation run becomes free.
