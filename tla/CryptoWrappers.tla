---------------------------- MODULE CryptoWrappers ----------------------------
(***************************************************************************)
(* The public-key wrappers of src/libs/netpgp/src/openssl_crypto.c: each   *)
(* copies a netpgp key into an OpenSSL object, makes one or more OpenSSL   *)
(* calls and translates their results into its own return value.  The     *)
(* numbers themselves are abstracted away; what is kept is every call that *)
(* can fail, with the values OpenSSL's documentation gives it, and every   *)
(* branch, early return and goto of the wrapper.  A wrapper is an operator *)
(* from the outcomes of its OpenSSL calls to what it returns.              *)
(*                                                                         *)
(* Each wrapper's return convention is a single guard, so no property is  *)
(* checked on this module: it records the conventions the pipelines'      *)
(* success/failure outcomes stand for.  Their ownership defects are        *)
(* hazards of the project.                                                 *)
(***************************************************************************)
EXTENDS Integers, Sequences

\* The values of C's unsigned int.  Its width is 32 bits where the library
\* is built, beyond TLC's integers; the conversion from int is taken modulo
\* 2^16, the least width C allows, which keeps what the properties tell
\* apart: -1 becomes the largest value, nonzero, as it does at any width.
UnsignedRange == 2^16

\* The byte counts a successful call can produce (the size of the modulus
\* for RSA with RSA_NO_PADDING, BN_num_bytes of a nonzero number otherwise).
Lengths == 1..2

\* DSA_do_verify: 1 valid, 0 invalid, -1 error.  RSA_check_key: 1 valid,
\* 0 invalid, -1 error.  The RSA_*crypt calls: a length, or -1.
Tristate == {-1, 0, 1}
RsaResults == Lengths \cup {-1}

-----------------------------------------------------------------------------
(* DSA                                                                     *)

\* pgp_dsa_verify (lines 419-465): an error of DSA_do_verify returns 0,
\* otherwise its result is returned as unsigned.
DsaVerify(verify) ==
    IF verify < 0 THEN 0 ELSE verify % UnsignedRange

\* pgp_dsa_private_check and pgp_elgamal_private_check (lines 572-585):
\* without an OpenSSL check the key is always rejected.
DsaPrivateCheck == 0
ElgamalPrivateCheck == 0

-----------------------------------------------------------------------------
(* RSA                                                                     *)

\* pgp_rsa_public_decrypt and pgp_rsa_public_encrypt (lines 476-497,
\* 651-682): the result of the OpenSSL call, returned after RSA_free.
RsaPublicDecrypt(n) == n
RsaPublicEncrypt(n) == n

\* pgp_rsa_private_encrypt and pgp_rsa_private_decrypt (lines 509-544,
\* 597-641): a key RSA_check_key does not find valid returns 0 before the
\* operation; otherwise its result.
RsaPrivateEncrypt(check, n) == IF check # 1 THEN 0 ELSE n
RsaPrivateDecrypt(check, n) == IF check # 1 THEN 0 ELSE n

\* pgp_rsa_private_check (lines 548-570): 1 unless RSA_check_key is not 1.
RsaPrivateCheck(check) == IF check # 1 THEN 0 ELSE 1

\* pgp_rsa_generate_keypair (lines 718-866).  gen: RSA_generate_key_ex
\* returned 1; inv: BN_mod_inverse gave u; mpi: pgp_write_mpi's results for
\* d, p, q and u, in that order.  The algorithm is PGP_PKA_RSA, set in the
\* function, so the switch takes the RSA case, whose || stops at the first
\* failing write.
RsaGenerateKeypair(gen, inv, mpi) ==
    CASE gen = 0                      -> 0
      [] ~inv                         -> 0
      [] \E i \in 1..4 : ~mpi[i]      -> 0
      [] OTHER                        -> 1

-----------------------------------------------------------------------------
(* ElGamal                                                                 *)

\* The steps of pgp_elgamal_public_encrypt that jump to done on failure:
\* the nine allocations (one check), BN_rand of k, c1 = g^k, y^k, c2 = m*y^k.
EncryptSteps == <<"alloc", "rand", "c1", "yk", "c2">>
\* Those of pgp_elgamal_private_decrypt: allocations, c1^x, its inverse,
\* m = c2 / c1^x.
DecryptSteps == <<"alloc", "c1x", "inverse", "m">>

\* The index of the first step that failed, or one past the last.
FirstFailure(steps, ok) ==
    LET failed == {i \in 1..Len(steps) : ~ok[steps[i]]}
    IN  IF failed = {} THEN Len(steps) + 1
        ELSE CHOOSE i \in failed : \A j \in failed : i <= j

\* pgp_elgamal_public_encrypt (lines 962-1036): ret stays 0 unless every
\* step passes; then it is the bytes of c1 plus the bytes of c2.
ElgamalPublicEncrypt(ok, c1Bytes, c2Bytes) ==
    IF FirstFailure(EncryptSteps, ok) <= Len(EncryptSteps) THEN 0
    ELSE c1Bytes + c2Bytes

\* pgp_elgamal_private_decrypt (lines 1038-1110): ret is BN_bn2bin of m
\* once every step has passed, 0 otherwise.
ElgamalPrivateDecrypt(ok, mBytes) ==
    IF FirstFailure(DecryptSteps, ok) <= Len(DecryptSteps) THEN 0 ELSE mBytes

=============================================================================
