------------------------------- MODULE Caesar -------------------------------
(***************************************************************************)
(* Bono/C4.  encrypt_writer reads a line, adds 3 to its characters and     *)
(* copies it to shared memory; decrypt_writer copies it from there up to   *)
(* the newline, subtracts 3, prints it and clears the memory.  Nothing but *)
(* people starting one after the other keeps them apart.                   *)
(***************************************************************************)
EXTENDS Integers, Sequences, SequencesExt, FiniteSets, Course

CONSTANTS
    SHM_SIZE,       \* 1024 in the source
    CHARS,          \* how many characters there are (256)
    TypedLines      \* what may be typed in

NL == 10            \* '\n'; 0 is '\0'

ASSUME CaesarAssumption ==
    /\ SHM_SIZE \in Nat \ {0, 1} /\ CHARS \in Nat /\ CHARS > NL + 3
    /\ \A l \in TypedLines : l \in Seq(1 .. CHARS - 1)

VARIABLES
    typed,          \* the line at the writer's terminal
    shared_text,    \* the block: "none", "empty" before ftruncate, or "sized"
    mem,            \* its bytes
    stale,          \* it holds the text of an earlier writer
    encrypt_pc, copied,     \* bytes copied so far
    decrypt_pc, text        \* what the reader has copied, and then decoded

caesarVars == <<typed, shared_text, mem, stale, encrypt_pc, copied, decrypt_pc, text>>

Bytes == 0 .. SHM_SIZE - 1

CaesarTypeOK ==
    /\ shared_text \in {"none", "empty", "sized"}
    /\ mem \in [Bytes -> 0 .. CHARS - 1]
    /\ encrypt_pc \in {"fgets", "shm_open", "ftruncate", "memset", "strncpy", "exit"}
    /\ copied \subseteq Bytes
    /\ decrypt_pc \in {"shm_open", "read", "decode", "exit", "killed"}
    /\ text \in Seq(0 .. CHARS - 1)

CaesarInit ==
    /\ typed \in TypedLines
    /\ stale \in BOOLEAN
    /\ shared_text = IF stale THEN "sized" ELSE "none"
    /\ mem = [i \in Bytes |-> IF stale /\ i < SHM_SIZE - 1 THEN 4 ELSE 0]
    /\ encrypt_pc = "fgets" /\ copied = {}
    /\ decrypt_pc = "shm_open" /\ text = <<>>

\* Of s, what comes before the first member of stops.
Before(s, stops) ==
    LET n == CHOOSE i \in 0 .. Len(s) :
                /\ \A j \in 1 .. i : s[j] \notin stops
                /\ i = Len(s) \/ s[i + 1] \in stops
    IN  SubSeq(s, 1, n)

\* fgets(buf, SHM_SIZE): the newline included, if it is read.
Line == SubSeq(typed, 1, IF Len(typed) < SHM_SIZE THEN Len(typed) ELSE SHM_SIZE - 1)

Shifted(s, n) == [i \in DOMAIN s |-> (s[i] + n + CHARS) % CHARS]

\* Mutant of Encrypted: the newline, too.
EncryptedAll(s) == Shifted(s, 3)

Encrypted(s) ==
    LET phrase == Before(s, {NL}) IN Shifted(phrase, 3) \o SubSeq(s, Len(phrase) + 1, Len(s))

-----------------------------------------------------------------------------
(* encrypt_writer *)

Encrypting(from, to) == encrypt_pc = from /\ encrypt_pc' = to

FgetsAndEncrypt ==
    /\ Encrypting("fgets", IF typed = <<>> THEN "exit" ELSE "shm_open")
    /\ UNCHANGED <<shared_text, mem, copied>>

CreateText ==
    /\ Encrypting("shm_open", "ftruncate")
    /\ shared_text' = IF shared_text = "none" THEN "empty" ELSE shared_text
    /\ UNCHANGED <<mem, copied>>

SizeText == Encrypting("ftruncate", "memset") /\ shared_text' = "sized" /\ UNCHANGED <<mem, copied>>

ClearText ==
    /\ Encrypting("memset", "strncpy")
    /\ mem' = [i \in Bytes |-> 0]
    /\ UNCHANGED <<shared_text, copied>>

\* strncpy ends at a 0, and may copy in any order.
CopyByte ==
    LET source == Before(Encrypted(Line), {0}) IN
    /\ encrypt_pc = "strncpy"
    /\ \/ \E i \in (0 .. Len(source) - 1) \ copied :
             /\ mem' = [mem EXCEPT ![i] = source[i + 1]]
             /\ copied' = copied \cup {i}
             /\ UNCHANGED encrypt_pc
       \/ Cardinality(copied) = Len(source) /\ encrypt_pc' = "exit" /\ UNCHANGED <<mem, copied>>
    /\ UNCHANGED shared_text

EncryptWriter ==
    /\ program = "caesar"
    /\ FgetsAndEncrypt \/ CreateText \/ SizeText \/ ClearText \/ CopyByte
    /\ UNCHANGED <<typed, stale, decrypt_pc, text>>

-----------------------------------------------------------------------------
(* decrypt_writer *)

\* When calm, it is started when the writer has ended.  A block without a size
\* cannot be read.
OpenText ==
    /\ Calm => encrypt_pc = "exit"
    /\ decrypt_pc = "shm_open"
    /\ decrypt_pc' = IF shared_text = "none" THEN "exit"
                     ELSE IF shared_text = "empty" THEN "killed" ELSE "read"
    /\ UNCHANGED <<mem, text>>

ReadByte ==
    LET i == Len(text) IN
    /\ decrypt_pc = "read"
    /\ IF i < SHM_SIZE - 1 /\ mem[i] \notin {0, NL}
       THEN text' = Append(text, mem[i]) /\ UNCHANGED decrypt_pc
       ELSE decrypt_pc' = "decode" /\ UNCHANGED text
    /\ UNCHANGED mem

\* A newline and a '\0' are added, and the block is cleared.  Of a text of
\* SHM_SIZE - 1 characters the '\0' is written behind buf: the compiler's guard of
\* the stack may find out when main() returns.
DecryptAndClear ==
    /\ decrypt_pc = "decode"
    /\ decrypt_pc' \in {"exit"} \cup {k \in {"killed"} : Len(text) = SHM_SIZE - 1}
    /\ text' = Append(Shifted(text, -3), NL)
    /\ mem' = [i \in Bytes |-> 0]

DecryptWriter ==
    /\ program = "caesar"
    /\ OpenText \/ ReadByte \/ DecryptAndClear
    /\ UNCHANGED <<typed, shared_text, stale, encrypt_pc, copied>>

CaesarNext == EncryptWriter \/ DecryptWriter

CaesarSpec == CaesarInit /\ [][CaesarNext /\ UNCHANGED courseVars]_<<caesarVars, courseVars>>

-----------------------------------------------------------------------------
(* Properties *)

\* What the writer can pass on: a character that becomes '\0' or '\n' when 3 is
\* added ends the text, and so does the size of the block.
Passed == Before(Line, {NL, NL - 3, CHARS - 3})

\* The reader prints that, if it starts when the writer has ended
\* (decrypt_writer.c:22-25); and if it comes too early, the beginning of it,
\* unless it finds the text of an earlier writer.
CaesarPrefix ==
    (decrypt_pc \in {"exit", "killed"} /\ text # <<>>) =>
        /\ (Calm /\ typed # <<>>) => text = Append(Passed, NL)
        /\ ~stale => \E n \in 0 .. Len(Passed) : text = Append(SubSeq(Passed, 1, n), NL)

CaesarEnd == encrypt_pc = "exit" /\ decrypt_pc \in {"exit", "killed"}
=============================================================================
