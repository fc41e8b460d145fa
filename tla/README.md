# TLA+ models of the LibreSSL OAEP padding and SM2 signature code

This directory holds TLA+ models of three source files of the repository:

| file | what it is |
|---|---|
| `src/src/lib/libcrypto/rsa/rsa_oaep.c` | RSA-OAEP padding (encode, decode) and the MGF1 mask generator |
| `src/src/lib/libcrypto/sm2/sm2_sign.c` | SM2 signature generation and verification |
| `src/src/lib/libcrypto/pkcs7/enc.c` | a demo `main()` that writes a PKCS#7 envelope |

The checks run with `tlc -workers 2 -config <cfg> <module>` from this directory. `PROJECT.json` lists every run, its expected outcome, the mutants that show each property can fail, the source lines each definition models, the findings, and the hazards.

## 1. Inventory

### Parts of the system and how they interact

* **MGF1** (`PKCS1_MGF1`, rsa_oaep.c:221-260). State: the output `mask`, the counter `i`, the bytes written `outlen`, the return value. One operation: a loop that hashes `seed || I2OSP(i, 4)`. Each iteration appends the whole digest, or, on the last one, only the part that fits. Any digest call can fail.
* **OAEP encoder** (`RSA_padding_add_PKCS1_OAEP_mgf1`, 43-104). This is straight-line code with early returns:
  * two size checks;
  * builds `DB = lHash || PS || 0x01 || M` in the caller's buffer;
  * draws a random seed;
  * masks DB and the seed with two MGF1 calls;
  * the digest, malloc and MGF1 calls can each fail.
* **OAEP decoder** (`RSA_padding_check_PKCS1_OAEP_mgf1`, 116-219).
  * State: the heap block `db` of `dblen + num` bytes, whose tail is `padded_from`; the stack arrays `seed` and `phash`; the flag `bad`; the scan index `i`.
  * Steps in order:
    * modulus check;
    * the `lzero` normalisation of over-long input;
    * allocation and the zero-padding copy;
    * unmasking the seed and DB (two MGF1 calls);
    * hashing the label;
    * comparing the label hash;
    * scanning for the 0x01 separator;
    * the copy out;
    * `freezero` and return.
  * The error exits are `decoding_err` and `err`.
* **SM2 signer** (`SM2_sign`, 361-393, and `SM2_sig_gen`, 82-219).
  * `e = BN_bin2bn(dgst)`.
  * Then a rejection loop:
    * draw `k`;
    * compute `x1` of `[k]G`;
    * `r = (e + x1) mod n`;
    * retry on `r = 0` or `r + k = n`;
    * `s = (1 + dA)^-1 (k - r·dA) mod n`;
    * build the signature.
  * Then DER-encode it.
  * Any allocation, BN, EC or RNG call can fail.
* **SM2 verifier** (`SM2_verify`, 395-434, and `SM2_sig_verify`, 221-318):
  * parse the DER signature;
  * re-encode it and reject a non-canonical input;
  * range checks on `r` and `s`;
  * `t = (r + s) mod n` must not be 0;
  * `[s]G + [t]PA` must not be infinity;
  * accept iff `r = (e + x1) mod n`.
* **SM2 message hashing** (`SM2_compute_msg_hash`, `SM2_do_sign`, `SM2_do_verify`, 26-80 and 320-359). These compute `e = H(ZA || M)` with digest calls and pass `e` to the signer or verifier above.
* **PKCS#7 demo** (enc.c, `main`, 63-143):
  * parses its arguments, where any number of `-nd` flags come before an optional file name;
  * opens the data BIO, reading from the file or from stdin;
  * reads the certificate and key from `server.pem`;
  * builds a signed-and-enveloped PKCS7 with a signer, a cipher, a recipient and a certificate;
  * streams the data through `p7bio` in `buf`-sized chunks, signs it and writes it out as PEM.
  * Checked calls `goto err` (exit 1). The results of `BIO_new`, `PKCS7_new`, `PKCS7_add_certificate`, `BIO_write` and `PEM_write_PKCS7` are ignored.

How the parts interact:
* The encoder and the decoder call MGF1.
* The RSA private-key operation, outside src/, connects the encoder's output to the decoder's input. It turns the block into an integer and writes it with `BN_bn2bin`, which strips leading zero bytes.
* The SM2 signer's output is the SM2 verifier's input.
* The collaborators are outside src/ and are taken from spec.md: the EC group, big numbers, DER and the digests.

### What is hard about them

* **Constant-time policy of the decoder.** spec.md 4.3 and 5 require that the step sequence does not depend on secret bytes.
* **Zero-padding of stripped leading zeros.** The decoder must restore the leading zeros of the RSA output, which happen for 1 in 256 seeds.
* **Over-long inputs.** `lzero < 0` must fail without branching.
* **Off-by-one points:** at the separator (`mlen = dblen - ++i`), in the output-size check, and in MGF1's last-block truncation.
* **Error ordering in the encoder.**
* **Release of buffers that held the seed and DB.**
* **Ownership in SM2_sig_gen.** `r` and `s` pass to the `ECDSA_SIG` once it exists. Every exit frees each object once, and a partly completed setup frees only what it allocated.
* **The identity binding of SM2 messages.** ZA must enter the digest before the message on both paths.
* **The encoder's length checks against a C `int` flen.**
* **The demo's loop and exit status.** A read error or a failed write is not reported.
* **SM2's unbounded rejection loop:** its termination, its degenerate nonces (`k = 0`) and its degenerate outputs (`s = 0`).
* **The verifier's degenerate-case checks:** ranges, `t = 0`, the point at infinity and canonical DER. These are what make verification sound.

### Properties per part

| part | properties |
|---|---|
| MGF1 | refines a one-step MGF1 returning the reference mask (spec.md 4.1, 8.4); returns |
| OAEP encoder | error kinds (spec.md 4.2); writes stay inside the output buffer for any `int` flen |
| OAEP decoder | refines a one-step decoder (`OAEPDecodeAbstract`) that returns the RFC 8017 decoding of the input, DATA_TOO_LARGE or the single decoding error, and always returns; zeroisation of released buffers (spec.md 3, 5); constant-time trace (spec.md 4.3, 5, 8.3) |
| encoder + decoder | round trip (8.1); label binding (8.2) |
| SM2 | refines a one-step signer and verifier (`SM2Abstract`, spec.md 4.5, 4.6, 8.6, 8.8): a signature solves the signing equation for an accepted nonce, verification accepts exactly the signer's in-range pairs, every call returns; digest binding; every object released exactly once (spec.md 5, 9); round trip (8.5, 8.9); signing fails only for a cause (4.5) |
| SM2 messages | wrong identity rejects (8.7); `SM2_do_sign` hands over exactly the signature |
| PKCS#7 demo | without a failed BIO call on the data, the signed data is the whole input, in order; exit 0 only with a complete signed envelope; the program exits |

## 2. Modules

| module | models | state (VARIABLES) and actions |
|---|---|---|
| `Octets` | byte strings, `I2OSP`, XOR, and the reference definitions `Mgf1`, `EmeOaep` and `EmeOaepDecode` from RFC 8017 / spec.md 4.1-4.3 | constants `ByteBits`, `MdLen`, `Hash(_)` for the label digest `md`, and `MgfLen`, `MgfHash(_)` for the mask digest `mgf1md`; `Mgf1` uses the latter. The wrappers at rsa_oaep.c:36-40 and 106-113 pass `mgf1md = NULL`, which lines 55-56 and 133-134 turn into `md`; an instance with `MgfHash <- MCHash` models them. |
| `MGF1` | `PKCS1_MGF1` | `pc, seed, len, i, outlen, mask, rv`; `Cnt` is the big-endian counter of lines 237-240; `FullBlock`, `PartialBlock`, `DigestFail`, `Return` |
| `MGF1Abstract` | what MGF1 promises: one step to `Mgf1(seed, len)` or a failure | `pc, seed, len, mask, rv` |
| `OAEPEncode` | the encoder | `pc, from, flen, label, tlen, to, ret, err`. There is one `Encode(seed, fault)` action, and `OaepEncode` is the function body. Its CASE arms are the early returns in code order, each returning the buffer `to` as the code leaves it. `WriteRanges` gives the byte ranges lines 70-96 write for a given `flen`, and the guards `TooLarge` and `KeyTooSmall` are shared with the action. |
| `OAEPDecode` | the decoder | one action per basic block (section 1); `buf` is the heap block `db`, with views `DB`, `PaddedFrom`, `MaskedDB` |
| `OAEPDecodeAbstract` | what the decoder promises: one step to the message of `EmeOaepDecode`, DATA_TOO_LARGE, the decoding error, or a library failure | `pc, from, k, tlen, label, ret, err, to`, and `failed`, set only by `LibFail`, which `Decode` requires to be false. `OAEPDecode` maps its `pc` to call/done, `k` to `num` before the decrement of line 138, and shows `err` once the call has returned. |
| `OAEP` | encoder, `BN_bn2bin`, decoder composed | `Encrypt`, `Decrypt` (the caller hands the stripped block to the decoder), `Decode` |
| `OAEPDecodeCT` | two decoder calls in lock step (self-composition) | same public arguments, different ciphertext bytes |
| `ECGroup` | the EC group (collaborator) | textbook affine group law; points named by discrete logarithm, checked against the law by an ASSUME |
| `SM2` | `SM2_sign` + `SM2_sig_gen` as a step machine; `SM2_verify` + `SM2_sig_verify` as one action | `call, pc, dA, dgst, insig, e, k, r, s, sig, ret, err, libFailed, heap`. `heap` maps each object of the signing path (`e`, `order`, `kG`, `ctx`, `r`, `s`, the `ECDSA_SIG`) to none / live / freed / twice. `SetupPartial` lists what a failing setup has allocated. `SigGenCleanup` and `SignCleanup` are the two done labels. |
| `SM2Abstract` | what `SM2_sign` and `SM2_verify` promise: one step to a signature of the signing equation, to the verdict of spec.md 4.6, or to a failure | `call, pc, dA, dgst, insig, ret, sig, failed`. `SM2` maps its `pc` to call/done, shows `sig` only when `SM2_sign` returned 1, and maps `failed` to the ghost `libFailed`. |
| `SM2Message` | `SM2_compute_msg_hash`, `SM2_do_sign`, `SM2_do_verify` | the variables of `SM2` plus `uid, vid, msg`. A behaviour is a caller that signs as `uid` and, on success, verifies as `vid`. The signing steps are `SM2`'s, through `INSTANCE`. `DoSignHash` is the hash with its failure exits, then come `SigGen`, `DoSignReturn` and `DoVerify`. `ZA` is taken from the SM2 standard, because `SM2_compute_userid_digest` is not under src/. |
| `PKCS7Enc` | enc.c `main` | `pc, argv, nodetach, data, input, pos, buf, written, p7, content, out, exit`, and the history variable `ioFailed`, which only the failures of `BIO_new`, `BIO_read` and `BIO_write` set. There is one action per step. `Step` holds the steps with no failure, and `Fail` holds each failing call. |
| `MC*` | instances for TLC | a 2-bit byte, toy hashes `MCHash` and `MCMgfHash` (two different folds, not the identity), labels, messages, the toy curve |

Abstractions:
* A byte has 2 bits (`ByteBits = 2`) and the digest length is 1 or 2 bytes. `Hash` is a deterministic function of the whole input, and the two labels hash differently (an ASSUME checks this).
* The curve is y² = x³ + 2x + 2 over F_17 with G = (5, 1) of prime order 19. Every property of the loop and of the checks holds in any prime-order group, and at this size every nonce and every signature pair can be enumerated.
* A DER signature is abstracted to the pair it parses to and whether its encoding is canonical (`der`), parsable but not canonical (`ber`), or not parsable at all.
* Library failures are nondeterministic when `LibMayFail` is TRUE. The history variables `libFailed` (SM2 and the OAEP decoder) and `ioFailed` (the demo) record that a call failed. Only the failing actions set them, and no guard reads them, so they only let the properties and refinement mappings tell a failure apart from a return value that looks like one.
* Each behaviour is one call, one encode/decode exchange, one sign-then-verify caller, or one run of the demo. After it returns or exits nothing else happens, so the cfgs say `CHECK_DEADLOCK FALSE`.
* `SM2Message` uses a one-byte polynomial digest in place of SM3. The `MCSM2Message` ASSUME checks that it separates the three identities modulo n for every key and message, as a collision-resistant hash would.
* The demo's data is a sequence of chunk model values (`c1`, `c2`, `c3`). `buf` holds `Garbage` before the first read, and the PKCS7 object is the set of parts added to it.
* A C `int` is kept where it matters: `flen` can be negative, and `(unsigned int)flen` is taken modulo `2^UIntBits`. The instance uses 16 bits, because TLC's integers are 32-bit and signed.

## 3. Runs and what they show

| run | cfg | expect | shows |
|---|---|---|---|
| oaep_decode | MCOAEPDecode.cfg | pass | The decoder refines `OAEPDecodeAbstract` (`PROPERTY Implements`) for every input of up to 6 bytes, both labels and both moduli: it accepts every valid encoding and nothing else, answers DATA_TOO_LARGE only for a valid message that does not fit, returns -1 without the decoding error only after a malloc or digest failure (the abstract `failed` flag is the decoder's `libFailed`), and always returns. `TypeOK` bounds the heap block to `dblen + num` bytes, which the `flen` clamp of line 156 keeps. This holds for over-long inputs, short moduli and library failures. It runs on the wrappers' path, with `mgf1md = md`. (218,862 states) |
| oaep_zeroize | MCOAEPDecodeZeroize.cfg | violation | `freezero(db, dblen)` leaves `padded_from` unzeroed, and `seed[]` is never cleansed. |
| oaep_roundtrip | MCOAEP.cfg | pass | Decoding what the encoder made returns the message, or DATA_TOO_LARGE for a small buffer, even when `BN_bn2bin` strips zeros. A wrong label always gives the one decoding error. With a 2-byte `mgf1md` beside a 1-byte `md`. (11,268 states) |
| oaep_encode_errors | MCOAEPEncodeErrors.cfg | violation | KEY_SIZE_TOO_SMALL is unreachable: the length check comes first. |
| oaep_decode_ct | MCOAEPDecodeCT.cfg | violation | The early exit on the label hash and the separator scan make the step sequence depend on the ciphertext. |
| mgf1 | MCMGF1.cfg | pass | The loop refines MGF1Abstract (`PROPERTY Implements`), for lengths 0-5 with a 2-byte digest: whole blocks, a partial last block, and failures. The abstract spec computes blocks with `Cnt`, the big-endian counter the loop uses, so the refinement catches a wrong limit or a missed failure; a byte-order error in `Cnt` itself is caught only by reading `Cnt` against lines 237-240. |
| oaep_encode_bounds | MCOAEPEncodeBounds.cfg | violation | A negative `flen` passes both length checks, and lines 76-78 then write past the end of `to`. |
| sm2 | MCSM2.cfg | pass | `SM2` refines `SM2Abstract` (`PROPERTY Implements`): every call returns, a returned signature solves the signing equation for a nonce the loop accepts, and verification with a good key accepts exactly the signer's pairs with halves in [1, n-1] and rejects non-DER input. Signatures bind the digest. Every exit of `SM2_sign`, including those of a failed setup, an `ECDSA_SIG_new` failure and an `i2d` failure, frees each object exactly once. Keys {1, 2, 7, 18} (18 = n-1 is the malformed key), 4 digests, all 21 × 21 × 2 signature inputs. (61,028 states) |
| sm2_message | MCSM2Message.cfg | pass | A signature from `SM2_do_sign` verifies with `SM2_do_verify` only under the signer's identity. After `SM2_do_sign` returns, only the returned signature is live. Three identities, two messages, four keys, all nonces, hash and library failures. (21,585 states) |
| pkcs7_enc | MCPKCS7Enc.cfg | pass | When `BIO_new` and every read and write of the data succeed, exit 0 means the envelope signs exactly the input, every chunk once and in order (`SignsAllData`). Lost or truncated data therefore comes only from a failed call. It exits 0 only with a signer, a cipher and a recipient in a signed envelope, and it always exits. Argument vectors with repeated `-nd`, data of 0, 1 and 3 chunks, every call failing. (1,330 states) |
| sm2_roundtrip | MCSM2RoundTrip.cfg | violation | SM2_sign returns (r, 0) when k = r·dA mod n (e.g. dA = 1, e = 5, k = 14), and verification rejects it. |
| sm2_spurious_fail | MCSM2SpuriousFail.cfg | violation | The draw k = 0 makes signing fail with ERR_R_EC_LIB for a good key with no library failure. |

Each property of a passing run has a mutant in `PROJECT.json`: a plausible bug in the mapped definition that TLC then catches. Examples: taking a full-length input for an over-long one, an off-by-one at the separator, a counter starting at 1, dropping the `t = 0` check, freeing `r` and `s` after the signature owns them.

### Bounds

* **OAEP.** With a 1-byte digest:
  * a 3-byte modulus is too short and takes the exit of line 138;
  * a 6-byte modulus holds blocks with an empty PS (2-byte messages) and with a PS.

  Inputs of up to 6 bytes cover both too-long and short inputs. The decoder's one-byte output buffer fits messages of 0 and 1 bytes and not those of 2, so both outcomes of the size check at line 199 occur. With 2-bit bytes, a masked seed starts with 0 for 1 in 4 seeds, so the `lzero` path is reached.
* **Two digests.** The round-trip and MGF1 runs use a 2-byte mask digest `MCMgfHash` beside the 1-byte label digest `MCHash`. Passing `md` where `mgf1md` belongs is then visible: a mask of the wrong digest differs from the right one, and its blocks have the wrong length. An encoder masking DB with `md`, or a decoder unmasking the seed with `md`, breaks `RoundTrip`. The other OAEP runs model the wrappers' path, with `mgf1md = md`. The decoder refinement stays on that path: with the 2-byte mask digest, its 21,844 initial states make the run and its mutant too slow for the time limit. With a 2-byte `mgf1md` and a 1-byte seed, the seed mask is a cut block.
* **MGF1.** Lengths 0-5 with a 2-byte digest cover: no block, an exact block, a partial block, and two and three blocks.
* **SM2.** The group has 19 elements. Every k in 0..18 is drawn. Among them are the degenerate k = 0, k giving r = 0 or r + k = n, and k giving s = 0.

### Fairness

* Each call runs to completion on the calling thread (spec.md 5), which justifies `WF_vars(Next)`. The abstract specifications `MGF1Abstract`, `SM2Abstract` and `OAEPDecodeAbstract` ask the same of their one-step call, so their `Spec`, checked as `Implements`, includes that every call returns.
* The demo is one thread, and its data is finite. Fairness is weak fairness of `Step`, the steps with no failure. Failures are never forced.
* SM2's termination also needs the RNG. `BN_rand_range` returns each value of [0, n) with probability 1/n, and at most three of them are not acceptable nonces. The spec therefore asks strong fairness of drawing an acceptable nonce (`AcceptableNonce`): with probability 1 one is eventually drawn while the loop keeps drawing. No property depends on a library call failing or not failing.

## 4. What is not modelled

* **The PKCS7 and BIO library work behind the demo** (outside src/). It is abstracted to the parts of the envelope and the chunks streamed.
* **Ignored results in the demo, as requirements.** These are the unchecked `BIO_new`, which makes the stdin path sign empty data and exit 0, and the unchecked `PEM_write_PKCS7`, which exits 0 with nothing written. Both are modelled and reachable, but no statement of the demo's intent exists to check them against: spec.md puts PEM I/O and command-line plumbing out of scope. A property "exit 0 only after the envelope was written" would be a requirement made up for the demo, and a violation run for it would also have to displace one of the spec-backed findings. They are listed as hazards.
* **`mdlen = 0` in MGF1.** `PKCS1_MGF1` rejects only a negative `mdlen`, so a zero-length digest loops forever, and LibreSSL's `EVP_md_null` has that length. The instances use lengths 1 and 2. A run showing the endless loop would be a violation run, and the project has no run left for it; the hazard is listed without a property.
* **The encoder's output buffer after a failure.** `OaepEncode` returns what the code leaves in `to`. After a malloc or MGF1 failure, the seed and the data block are there in clear. Wiping them is the caller's concern (`RSA_eay`, outside src/), and no property claims it.
* **Lengths beyond 2^32.** The MGF1 counter's wrap beyond 2^32 blocks is out of reach.
* **Memory contents after release in SM2.** LibreSSL's `BN_free` clears, so `k` and the intermediate values in the `BN_CTX` are wiped when it is freed.
* **Error queue contents of `SM2_sig_verify`.**

## 5. Plan

Done so far:
* **First sitting:** Octets, MGF1 with its refinement, OAEPEncode, OAEPDecode, the OAEP composition, the constant-time self-composition, ECGroup and SM2.
* **Second sitting:**
  * SM2 heap ownership;
  * SM2Message;
  * the encoder's buffer contents on failure, and its bounds for an `int` flen;
  * the PKCS#7 demo.

* **Third sitting:**
  * `SM2Abstract` and the refinement of `SM2` into it, which replaces the separate verification-soundness and termination properties;
  * `OAEPDecodeAbstract` and the refinement of `OAEPDecode` into it, which adds completeness and error kinds to the former soundness property and proves that the decoder returns;
  * the hazards of the encoder's partial failure (rsa_oaep.c:88) and the demo's NULL data BIO (enc.c:81) are tied to the properties that bound them.

* **Fourth sitting:** the mask digest `mgf1md` as a collaborator of its own, so that a mix-up of the two digests is caught by the round trip.

* **Review round.** Changes made:
  * A `libFailed` history now ties the decoder's failures to the abstract `LibFail`, and `TypeOK` bounds `buf`.
  * `SignsAllData` replaces the PKCS#7 ordering invariant.
  * The OAEP bounds text and the `EVP_md_null` hazard are corrected.

Next:
1. **Extended OAEP bounds**: a 2-byte label digest in the decoder.
2. **SM2Message against the abstract signer**: the message-level calls mapped to `SM2Abstract` with `e = H(ZA || M)`.
