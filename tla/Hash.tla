--------------------------------- MODULE Hash ---------------------------------
(***************************************************************************)
(* The message digests of src/libs/netpgp/src/openssl_crypto.c.  A         *)
(* pgp_hash_t is a copy of one of six static structs (md5, sha1, sha256,   *)
(* sha384, sha512, sha224): its algorithm, its size, its name, the three   *)
(* functions init, add and finish, and the data pointer, NULL in the       *)
(* struct.  init callocs an OpenSSL context into data, add updates it,     *)
(* finish writes the digest, frees the context and returns its length.     *)
(*                                                                         *)
(* The six algorithms differ only in the context type init allocates, the *)
(* OpenSSL digest family add and finish call, and the length finish       *)
(* returns; a struct is a record of those.  The heap is the set of live    *)
(* contexts, each an id with the type it was allocated as; ids come from a *)
(* counter.  A digest's bytes are abstracted to their number.              *)
(***************************************************************************)
EXTENDS Integers, Sequences, FiniteSets
LOCAL INSTANCE SequencesExt

NoCtx == 0    \* data == NULL; contexts are 1, 2, ...

(* OpenSSL's <openssl/md5.h> and <openssl/sha.h>: the length each digest  *)
(* family's Final writes, and the context type its Init, Update and Final *)
(* take.                                                                  *)
DigestLength == [MD5 |-> 16, SHA1 |-> 20, SHA224 |-> 28, SHA256 |-> 32,
                 SHA384 |-> 48, SHA512 |-> 64]
ContextOf == [MD5 |-> "MD5_CTX", SHA1 |-> "SHA_CTX", SHA224 |-> "SHA256_CTX",
              SHA256 |-> "SHA256_CTX", SHA384 |-> "SHA512_CTX",
              SHA512 |-> "SHA512_CTX"]

\* A struct: size and name from its initialiser, ctx from the sizeof in its
\* init, family from the OpenSSL calls of init, add and finish, ret from
\* finish's return.
Struct(alg, size, name, ctx, family, ret) ==
    [alg |-> alg, size |-> size, name |-> name, ctx |-> ctx,
     family |-> family, ret |-> ret, data |-> NoCtx]

Md5    == Struct("MD5", DigestLength.MD5, "MD5", "MD5_CTX", "MD5", 16)
Sha1   == Struct("SHA1", 20, "SHA1", "SHA_CTX", "SHA1", 20)  \* PGP_SHA1_HASH_SIZE
Sha256 == Struct("SHA256", DigestLength.SHA256, "SHA256", "SHA256_CTX", "SHA256",
                 DigestLength.SHA256)
Sha384 == Struct("SHA384", DigestLength.SHA384, "SHA384", "SHA512_CTX", "SHA384",
                 DigestLength.SHA384)
Sha512 == Struct("SHA512", DigestLength.SHA512, "SHA512", "SHA512_CTX", "SHA512",
                 DigestLength.SHA512)

Sha224 == Struct("SHA224", DigestLength.SHA224, "SHA224", "SHA256_CTX", "SHA224",
                 DigestLength.SHA224)

Structs == {Md5, Sha1, Sha256, Sha384, Sha512, Sha224}

(* The memory a caller's pgp_hash_t lives in: the struct copy h, the live *)
(* contexts, the next context id, whether an OpenSSL call was handed a    *)
(* pointer that is not a live context of its type, and what each finish *)
(* returned and wrote.                                                    *)
Memory0 == [h |-> Md5, heap |-> {}, next |-> 1, fault |-> FALSE, outs |-> <<>>]

\* An OpenSSL call of h's family on data: a live context of the type the
\* family takes.
ValidContext(m) ==
    \E c \in m.heap : c.id = m.h.data /\ c.type = ContextOf[m.h.family]

\* pgp_hash_md5 and its siblings (lines 144-147): *hash = md5, data NULL
\* included.
PgpHash(m, s) == [m EXCEPT !.h = s]

\* md5_init (lines 100-111): a live data is only reported; calloc either
\* fails (data NULL, return 0) or gives a fresh context of the struct's type.
HashInit(m, ok) ==
    IF ok
    THEN [m EXCEPT !.h.data = m.next,
                   !.heap = @ \cup {[id |-> m.next, type |-> m.h.ctx]},
                   !.next = @ + 1]
    ELSE [m EXCEPT !.h.data = NoCtx]

\* md5_add (lines 114-117): Update on data.
HashAdd(m) == [m EXCEPT !.fault = @ \/ ~ValidContext(m)]

\* Mutant: the context is not freed.
HashFinishNoFree(m) ==
    [m EXCEPT !.fault = @ \/ ~ValidContext(m),
              !.outs = Append(@, [ret |-> m.h.ret, size |-> m.h.size,
                                  written |-> DigestLength[m.h.family]]),
              !.h.data = NoCtx]

\* md5_finish (lines 120-126): Final writes the family's digest into out,
\* the context is freed, data is NULL and the length is returned.
HashFinish(m) ==
    [m EXCEPT !.fault = @ \/ ~ValidContext(m),
              !.outs = Append(@, [ret |-> m.h.ret, size |-> m.h.size,
                                  written |-> DigestLength[m.h.family]]),
              !.heap = {c \in @ : c.id # m.h.data},
              !.h.data = NoCtx]

-----------------------------------------------------------------------------
(* The callers' protocol of pgp_hash_t: select a struct, init, and when    *)
(* init returned 1, any number of adds and one finish.  A call is a record *)
(* of its operation and argument; a caller is a sequence of calls.         *)

HashRound(s, ok, adds) ==
    <<[op |-> "select", s |-> s], [op |-> "init", ok |-> ok]>>
    \o (IF ok THEN [i \in 1..adds |-> [op |-> "add"]] \o <<[op |-> "finish"]>>
        ELSE <<>>)

HashRounds(maxAdds) ==
    {HashRound(s, ok, k) : s \in Structs, ok \in BOOLEAN, k \in 0..maxAdds}

\* One call applied to the memory.
CallHash(m, c) ==
    CASE c.op = "select" -> PgpHash(m, c.s)
      [] c.op = "init"   -> HashInit(m, c.ok)
      [] c.op = "add"    -> HashAdd(m)
      [] c.op = "finish" -> HashFinish(m)

RunHash(calls) == FoldLeft(CallHash, Memory0, calls)

\* Every caller that keeps to the protocol, with any algorithms, any
\* failing callocs and up to maxAdds updates a round, for n rounds on one
\* pgp_hash_t, hands OpenSSL only live contexts of the type its digest
\* family takes, leaves no context allocated, and every finish returns the
\* struct's size, which is the number of bytes Final wrote into out.
HashLifecycleCorrect(n, maxAdds) ==
    \A rs \in [1..n -> HashRounds(maxAdds)] :
        LET m == RunHash(FoldLeft(LAMBDA acc, r : acc \o r, <<>>, rs))
        IN  /\ ~m.fault
            /\ m.heap = {}
            /\ \A i \in 1..Len(m.outs) :
                   m.outs[i].ret = m.outs[i].size /\ m.outs[i].written = m.outs[i].size

=============================================================================
