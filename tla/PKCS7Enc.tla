------------------------------ MODULE PKCS7Enc -------------------------------
(***************************************************************************)
(* The PKCS#7 demo program (src/.../pkcs7/enc.c): main() parses its        *)
(* arguments, opens the data to sign, reads the certificate and key of     *)
(* server.pem, builds a signed-and-enveloped PKCS7, streams the data into *)
(* it through p7bio, signs it and writes it out as PEM.                    *)
(*                                                                         *)
(* One action per step of main(); every library call whose result is      *)
(* checked has a failing action of its own that ends at err (exit 1), and *)
(* calls whose result is ignored fail without changing the control flow.  *)
(* The data is a finite sequence of chunks, the buf-sized pieces BIO_read  *)
(* returns; the PKCS7 object is the set of parts added to it.             *)
(***************************************************************************)
EXTENDS Integers, Sequences, SequencesExt

CONSTANTS
  Args,        \* argument vectors after argv[0]: sequences of "-nd" / "file"
  Inputs,      \* the data the program reads, as sequences of chunks
  Garbage,     \* the contents of buf before the first read
  LibMayFail

ASSUME LibMayFail \in BOOLEAN

VARIABLES
  pc,        \* the point of main() reached
  argv,      \* the arguments not yet consumed
  nodetach,  \* the -nd flag
  data,      \* the data BIO: "null", "new", "file" or "stdin"
  input,     \* the contents of the data stream
  pos,       \* the index of the next chunk BIO_read returns
  buf,       \* buf
  written,   \* the chunks BIO_write accepted into p7bio
  p7,        \* the parts of the PKCS7 added so far
  content,   \* the data PKCS7_dataSign signed
  out,       \* what PEM_write_PKCS7 wrote to stdout
  exit,      \* Running, or the exit status: 0, 1 or Crashed
  ioFailed   \* history: BIO_new, a BIO_read or a BIO_write of the data failed

vars == <<pc, argv, nodetach, data, input, pos, buf, written, p7, content,
          out, exit, ioFailed>>

Parts == {"signer", "cipher", "recipient", "cert", "signed"}

(* No exit status yet; the status of a process killed by SIGSEGV. *)
Running == -1
Crashed == 128 + 11

(* err (lines 139-142), or exit(0) at line 138. *)
Exit(code) == exit' = code /\ pc' = "exit"

-----------------------------------------------------------------------------
(* Lines 78-81: data = BIO_new(BIO_s_file()), not checked for NULL. *)
NewData ==
  /\ pc = "start" /\ data' = "new" /\ pc' = "again"
  /\ UNCHANGED <<argv, nodetach, input, pos, buf, written, p7, content, out,
                 exit, ioFailed>>

NewDataFail ==
  /\ pc = "start" /\ LibMayFail /\ ioFailed' = TRUE
  /\ data' = "null" /\ pc' = "again"
  /\ UNCHANGED <<argv, nodetach, input, pos, buf, written, p7, content, out,
                 exit>>

(* Mutant of NoDetach: nodetach counts the flags. *)
NoDetachCounting ==
  /\ pc = "again" /\ argv /= <<>> /\ Head(argv) = "-nd"
  /\ nodetach' = nodetach + 1 /\ argv' = Tail(argv)
  /\ UNCHANGED <<pc, data, input, pos, buf, written, p7, content, out, exit,
                 ioFailed>>

(* Lines 85-90: "-nd" sets nodetach and the arguments are parsed again. *)
NoDetach ==
  /\ pc = "again" /\ argv /= <<>> /\ Head(argv) = "-nd"
  /\ nodetach' = 1 /\ argv' = Tail(argv)
  /\ UNCHANGED <<pc, data, input, pos, buf, written, p7, content, out, exit,
                 ioFailed>>

(* Lines 91-92: BIO_read_filename(data, argv[1]), which fails on a NULL BIO. *)
ReadFilename ==
  /\ pc = "again" /\ argv /= <<>> /\ Head(argv) /= "-nd" /\ data /= "null"
  /\ data' = "file" /\ pc' = "open_in"
  /\ UNCHANGED <<argv, nodetach, input, pos, buf, written, p7, content, out,
                 exit, ioFailed>>

ReadFilenameNull ==
  /\ pc = "again" /\ argv /= <<>> /\ Head(argv) /= "-nd" /\ data = "null"
  /\ Exit(1)
  /\ UNCHANGED <<argv, nodetach, data, input, pos, buf, written, p7, content,
                 out, ioFailed>>

ReadFilenameFail ==
  /\ pc = "again" /\ argv /= <<>> /\ Head(argv) /= "-nd" /\ LibMayFail
  /\ Exit(1)
  /\ UNCHANGED <<argv, nodetach, data, input, pos, buf, written, p7, content,
                 out, ioFailed>>

(* Lines 94-95: BIO_set_fp(data, stdin), its result ignored. *)
SetFp ==
  /\ pc = "again" /\ argv = <<>>
  /\ data' = IF data = "null" THEN "null" ELSE "stdin"
  /\ pc' = "open_in"
  /\ UNCHANGED <<argv, nodetach, input, pos, buf, written, p7, content, out,
                 exit, ioFailed>>

(* Lines 97-101: server.pem opened, certificate and key read, in freed. *)
ReadCredentials ==
  /\ pc = "open_in" /\ pc' = "build"
  /\ UNCHANGED <<argv, nodetach, data, input, pos, buf, written, p7, content,
                 out, exit, ioFailed>>

ReadCredentialsFail ==
  /\ pc = "open_in" /\ LibMayFail /\ Exit(1)
  /\ UNCHANGED <<argv, nodetach, data, input, pos, buf, written, p7, content,
                 out, ioFailed>>

(***************************************************************************)
(* Lines 103-112: PKCS7_new and PKCS7_set_type, then the signer, the      *)
(* cipher and the recipient (checked) and the certificate (not checked).  *)
(* A failure of the unchecked PKCS7_set_type leaves p7 without a type, so *)
(* PKCS7_add_signature fails next: the outcome of BuildFail("signature"). *)
(***************************************************************************)
BuildEnvelope ==
  /\ pc = "build" /\ pc' = "data_init"
  /\ \/ p7' = {"signer", "cipher", "recipient", "cert"}
     \/ LibMayFail /\ p7' = {"signer", "cipher", "recipient"}
  /\ UNCHANGED <<argv, nodetach, data, input, pos, buf, written, content, out,
                 exit, ioFailed>>

(* PKCS7_new returns NULL, unchecked, and PKCS7_set_type dereferences it. *)
NewP7Crash ==
  /\ pc = "build" /\ LibMayFail /\ Exit(Crashed)
  /\ UNCHANGED <<argv, nodetach, data, input, pos, buf, written, p7, content,
                 out, ioFailed>>

(* Mutant of BuildFail: the goto err after PKCS7_add_recipient is missing. *)
BuildFailNoRecipientCheck(step) ==
  /\ pc = "build" /\ LibMayFail
  /\ CASE step = "signature" -> p7' = {} /\ Exit(1)
       [] step = "cipher"    -> p7' = {"signer"} /\ Exit(1)
       [] step = "recipient" -> p7' = {"signer", "cipher", "cert"}
                                /\ pc' = "data_init" /\ UNCHANGED exit
  /\ UNCHANGED <<argv, nodetach, data, input, pos, buf, written, content, out,
                 ioFailed>>

(* PKCS7_add_signature (106), PKCS7_set_cipher (108) or                   *)
(* PKCS7_add_recipient (109) fails: err.                                   *)
BuildFail(step) ==
  /\ pc = "build" /\ LibMayFail
  /\ p7' = CASE step = "signature" -> {}
             [] step = "cipher"    -> {"signer"}
             [] step = "recipient" -> {"signer", "cipher"}
  /\ Exit(1)
  /\ UNCHANGED <<argv, nodetach, data, input, pos, buf, written, content, out,
                 ioFailed>>

(* Line 122: p7bio = PKCS7_dataInit(p7, NULL). *)
DataInit ==
  /\ pc = "data_init" /\ pc' = "loop"
  /\ UNCHANGED <<argv, nodetach, data, input, pos, buf, written, p7, content,
                 out, exit, ioFailed>>

DataInitFail ==
  /\ pc = "data_init" /\ LibMayFail /\ Exit(1)
  /\ UNCHANGED <<argv, nodetach, data, input, pos, buf, written, p7, content,
                 out, ioFailed>>

(* Mutant of ReadWrite: buf is written before it is read into. *)
ReadWriteBeforeRead ==
  /\ pc = "loop" /\ data /= "null" /\ pos <= Len(input)
  /\ buf' = input[pos] /\ pos' = pos + 1
  /\ written' = Append(written, buf)
  /\ UNCHANGED <<pc, argv, nodetach, data, input, p7, content, out, exit,
                 ioFailed>>

(* Lines 126-128: BIO_read returns the next chunk, BIO_write copies it. *)
ReadWrite ==
  /\ pc = "loop" /\ data /= "null" /\ pos <= Len(input)
  /\ buf' = input[pos] /\ pos' = pos + 1
  /\ written' = Append(written, input[pos])
  /\ UNCHANGED <<pc, argv, nodetach, data, input, p7, content, out, exit,
                 ioFailed>>

(* BIO_write fails; its result is ignored and the chunk is lost. *)
ReadWriteLost ==
  /\ pc = "loop" /\ data /= "null" /\ pos <= Len(input) /\ LibMayFail
  /\ ioFailed' = TRUE
  /\ buf' = input[pos] /\ pos' = pos + 1
  /\ UNCHANGED <<pc, argv, nodetach, data, input, written, p7, content, out,
                 exit>>

(* Mutant of ReadEnd: only a read error (i < 0) leaves the loop. *)
ReadEndOnErrorOnly ==
  /\ pc = "loop" /\ data = "null"
  /\ pc' = "sign"
  /\ UNCHANGED <<argv, nodetach, data, input, pos, buf, written, p7, content,
                 out, exit, ioFailed>>

(* Lines 126-127 and 130: BIO_read returns 0 at the end of the data, or   *)
(* fails on a NULL BIO; the loop ends and p7bio is flushed.               *)
ReadEnd ==
  /\ pc = "loop" /\ (data = "null" \/ pos > Len(input))
  /\ pc' = "sign"
  /\ UNCHANGED <<argv, nodetach, data, input, pos, buf, written, p7, content,
                 out, exit, ioFailed>>

(* BIO_read fails (i < 0) and is taken for the end of the data. *)
ReadError ==
  /\ pc = "loop" /\ LibMayFail /\ ioFailed' = TRUE /\ pc' = "sign"
  /\ UNCHANGED <<argv, nodetach, data, input, pos, buf, written, p7, content,
                 out, exit>>

(* Lines 132-133: PKCS7_dataSign signs what went through p7bio. *)
DataSign ==
  /\ pc = "sign" /\ pc' = "output"
  /\ content' = written /\ p7' = p7 \cup {"signed"}
  /\ UNCHANGED <<argv, nodetach, data, input, pos, buf, written, out, exit,
                 ioFailed>>

DataSignFail ==
  /\ pc = "sign" /\ LibMayFail /\ Exit(1)
  /\ UNCHANGED <<argv, nodetach, data, input, pos, buf, written, p7, content,
                 out, ioFailed>>

(* Lines 135-138: PEM_write_PKCS7, its result ignored, and exit(0). *)
Output ==
  /\ pc = "output" /\ Exit(0)
  /\ \/ out' = "pkcs7"
     \/ LibMayFail /\ out' = "none"
  /\ UNCHANGED <<argv, nodetach, data, input, pos, buf, written, p7, content,
                 ioFailed>>

-----------------------------------------------------------------------------
Init ==
  /\ pc = "start" /\ argv \in Args /\ nodetach = 0 /\ data = "null"
  /\ input \in Inputs /\ pos = 1 /\ buf = Garbage /\ written = <<>>
  /\ p7 = {} /\ content = <<>> /\ out = "none" /\ exit = Running
  /\ ioFailed = FALSE

(* The steps main() takes when no library call fails. *)
Step ==
  \/ NewData \/ NoDetach \/ ReadFilename \/ ReadFilenameNull \/ SetFp
  \/ ReadCredentials
  \/ BuildEnvelope \/ DataInit \/ ReadWrite \/ ReadEnd \/ DataSign \/ Output

Fail ==
  \/ NewDataFail \/ ReadFilenameFail \/ ReadCredentialsFail \/ NewP7Crash
  \/ \E step \in {"signature", "cipher", "recipient"} : BuildFail(step)
  \/ DataInitFail \/ ReadWriteLost \/ ReadError \/ DataSignFail

Next == Step \/ Fail

(* main() is a single thread that runs while it has a step to take; the   *)
(* data is finite.  No fairness is assumed of the failures.              *)
Spec == Init /\ [][Next]_vars /\ WF_vars(Step)

-----------------------------------------------------------------------------
TypeOK ==
  /\ pc \in {"start", "again", "open_in", "build", "data_init", "loop",
             "sign", "output", "exit"}
  /\ nodetach \in {0, 1} /\ data \in {"null", "new", "file", "stdin"}
  /\ input \in Inputs /\ pos \in 1 .. Len(input) + 1
  /\ buf \in ToSet(input) \cup {Garbage}
  /\ written \in Seq(ToSet(input) \cup {Garbage})
  /\ content \in Seq(ToSet(input) \cup {Garbage})
  /\ p7 \subseteq Parts /\ out \in {"none", "pkcs7"}
  /\ exit \in {Running, 0, 1, Crashed} /\ ioFailed \in BOOLEAN

(* When the data BIO was created and none of its reads and writes failed, *)
(* exit status 0 means the envelope signs exactly the data, every chunk   *)
(* once and in order: the loop of lines 124-129 reads until BIO_read      *)
(* returns 0 and writes each chunk it read, and PKCS7_dataSign (132) signs *)
(* what went through p7bio.  Truncation and lost chunks (hazards of lines *)
(* 81, 127, 128) come only from a failed call.                            *)
SignsAllData ==
  (exit = 0 /\ ~ioFailed) => content = input

(* The exit status 0 (line 138) means the envelope was built with a       *)
(* signer, a cipher and a recipient and was signed: every checked call of *)
(* lines 106-132 succeeded.                                               *)
ExitZeroOnlyAfterSign ==
  exit = 0 => {"signer", "cipher", "recipient", "signed"} \subseteq p7

(* main() exits: the argument loop of lines 82-90 and the read loop of    *)
(* lines 124-129 end on finite arguments and data.                        *)
Exits == <>(pc = "exit")

=============================================================================
