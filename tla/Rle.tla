--------------------------------- MODULE Rle ---------------------------------
(***************************************************************************)
(* Section5/H1.  Run-length coding: a file becomes pairs of a count and a  *)
(* byte, and comes back.  A file is a sequence of bytes.                   *)
(***************************************************************************)
EXTENDS Integers, Sequences, SequencesExt, Course

CONSTANTS
    BYTE,           \* values of an unsigned char (256)
    MAX_RUN,        \* 255
    TestRuns,       \* <<255, 'A'>>, <<10, 'B'>>, <<150, 'Z'>>, <<50, 'C'>>
    Originals       \* other files to compress

ASSUME RleAssumption ==
    /\ BYTE \in Nat \ {0} /\ MAX_RUN \in 1 .. BYTE - 1
    /\ TestRuns \in Seq(Nat \X (0 .. BYTE - 1))
    /\ \A file \in Originals : file \in Seq(0 .. BYTE - 1)

VARIABLES
    original, compressed, decompressed,
    phase           \* how far main() has come

rleVars == <<original, compressed, decompressed, phase>>

RleTypeOK ==
    /\ \A f \in {original, compressed, decompressed} : \A i \in DOMAIN f : f[i] \in 0 .. BYTE - 1
    /\ phase \in {"generate", "compress", "decompress", "exit"}

RleInit ==
    /\ original = <<>> /\ compressed = <<>> /\ decompressed = <<>>
    /\ phase = "generate"

Times(n, byte) == [i \in 1 .. n |-> byte]

\* GenerateTestFile.
GeneratedFile == FlattenSeq([k \in DOMAIN TestRuns |-> Times(TestRuns[k][1], TestRuns[k][2])])

\* Mutant of Extends: off by one.
ExtendsShort(counter, current_byte, next_byte) == next_byte = current_byte /\ counter < MAX_RUN - 1

\* Whether next_byte belongs to the run that is being counted.
Extends(counter, current_byte, next_byte) == next_byte = current_byte /\ counter < MAX_RUN

\* The loop of CompressRLE over the bytes after the first; counter is a byte.
\* Every pair is written when its run has ended, the last one after the loop.
CompressedFile(file) ==
    LET run[n \in 1 .. Len(file)] ==
            IF n = 1 THEN [counter |-> 1, current_byte |-> file[1], out |-> <<>>]
            ELSE LET r == run[n - 1] IN
                 IF Extends(r.counter, r.current_byte, file[n])
                 THEN [r EXCEPT !.counter = (@ + 1) % BYTE]
                 ELSE [counter |-> 1, current_byte |-> file[n],
                       out |-> r.out \o <<r.counter, r.current_byte>>]
        last == run[Len(file)]
    IN  IF file = <<>> THEN <<>> ELSE last.out \o <<last.counter, last.current_byte>>

\* Mutant of DecompressedFile: takes the last pair for an incomplete one.
DecompressedFileShort(file) ==
    FlattenSeq([k \in 1 .. (Len(file) - 1) \div 2 |-> Times(file[2*k - 1], file[2*k])])

\* DecompressRLE writes the bytes of every complete pair, and fails at an
\* incomplete one after that.
DecompressedFile(file) == FlattenSeq([k \in 1 .. Len(file) \div 2 |-> Times(file[2*k - 1], file[2*k])])

-----------------------------------------------------------------------------
(* main(); its functions take any file, so that others are tried as well *)

Generate ==
    /\ phase = "generate"
    /\ original' \in {GeneratedFile} \cup Originals
    /\ phase' = "compress"
    /\ UNCHANGED <<compressed, decompressed>>

Compress ==
    /\ phase = "compress"
    /\ compressed' = CompressedFile(original)
    /\ phase' = "decompress"
    /\ UNCHANGED <<original, decompressed>>

Decompress ==
    /\ phase = "decompress"
    /\ decompressed' = DecompressedFile(compressed)
    /\ phase' = "exit"
    /\ UNCHANGED <<original, compressed>>

RleNext == program = "rle" /\ (Generate \/ Compress \/ Decompress)

RleSpec == RleInit /\ [][RleNext /\ UNCHANGED courseVars]_<<rleVars, courseVars>>

-----------------------------------------------------------------------------
(* Properties *)

\* The file comes back byte for byte, whatever the length of its runs: main()
\* compares no more than the sizes (main.c:165).  The compressed file is complete
\* pairs, with counts of 1 to MAX_RUN, and no shorter file would do: a byte is
\* repeated only after a full run.
RoundTrip ==
    /\ phase = "exit" => decompressed = original
    /\ phase \in {"decompress", "exit"} =>
        /\ Len(compressed) % 2 = 0
        /\ \A k \in 1 .. Len(compressed) \div 2 :
              /\ compressed[2*k - 1] \in 1 .. MAX_RUN
              /\ k > 1 /\ compressed[2*k] = compressed[2*k - 2] => compressed[2*k - 3] = MAX_RUN
=============================================================================
