------------------------------- MODULE Blocks -------------------------------
(***************************************************************************)
(* Section4/L2.  Maps four blocks of memory, the last two at addresses of  *)
(* its choice with MAP_FIXED, writes a number to the start of each, notes  *)
(* the range in which /proc/self/maps has it, logs all of this and unmaps  *)
(* the blocks.  Addresses and sizes are in pages.                          *)
(***************************************************************************)
EXTENDS Integers, Sequences, Course

CONSTANTS
    Pages,          \* addresses, an interval of integers
    Sizes,          \* of the four blocks, in pages: 1, 2, 1, 1 times 64K
    Fixed           \* the addresses of the last two, 0x70000000 and 0x80000000

ASSUME BlocksAssumption ==
    /\ Pages \subseteq Int /\ Sizes \in [0 .. 3 -> Nat \ {0}]
    /\ Fixed \in [2 .. 3 -> Pages]
    /\ \A b \in 2 .. 3 : Fixed[b] .. Fixed[b] + Sizes[b] - 1 \subseteq Pages

MAP_FAILED == -1

VARIABLES
    mapped,             \* pages in use
    word,               \* the first int of each of them
    address, os_map_range,
    next_block,
    blocks_log,         \* the entries of the log line
    blocks_pc

blocksVars == <<mapped, word, address, os_map_range, next_block, blocks_log, blocks_pc>>

Values == <<100, 200, 300, 400>>

BlocksTypeOK ==
    /\ mapped \subseteq Pages /\ word \in [Pages -> Int]
    /\ address \in [0 .. 3 -> Pages \cup {MAP_FAILED}]
    /\ \A b \in 0 .. 3 : os_map_range[b] \subseteq Pages
    /\ next_block \in 0 .. 4
    /\ blocks_pc \in {"map", "range", "log", "unmap", "exit", "killed"}

BlocksInit ==
    /\ mapped = {} /\ word = [p \in Pages |-> 0]
    /\ address = [b \in 0 .. 3 |-> MAP_FAILED]
    /\ os_map_range = [b \in 0 .. 3 |-> {}]
    /\ next_block = 0 /\ blocks_log = <<>>
    /\ blocks_pc = "map"

Block(a, b) == a .. a + Sizes[b] - 1

\* From one block to the next, and then on.
ForEachBlock(from, to) ==
    /\ blocks_pc = from
    /\ next_block' = (next_block + 1) % 4
    /\ blocks_pc' = IF next_block = 3 THEN to ELSE IF from = "range" THEN "map" ELSE from

\* mmap (external): the kernel finds free pages for the first two blocks; the
\* others replace whatever is mapped at their address.  New pages are zero.
MapAt(b) ==
    IF b < 2 THEN {a \in Pages : Block(a, b) \subseteq Pages \ mapped} ELSE {Fixed[b]}

MapBlock ==
    /\ blocks_pc = "map" /\ blocks_pc' = "range"
    /\ \E a \in MapAt(next_block) :
          /\ address' = [address EXCEPT ![next_block] = a]
          /\ mapped' = mapped \cup Block(a, next_block)
          /\ word' = [p \in Pages |-> IF p = a THEN Values[next_block + 1]
                                      ELSE IF p \in Block(a, next_block) THEN 0 ELSE word[p]]
    /\ UNCHANGED <<os_map_range, next_block, blocks_log>>

\* mmap may always fail: on to the next block.
MapFails ==
    /\ ForEachBlock("map", "log")
    /\ UNCHANGED <<mapped, word, address, os_map_range, blocks_log>>

\* The mapping of /proc/self/maps around a: the kernel makes one of neighbours (external).
RangeAround(a) ==
    {p \in Pages : \A q \in Pages : (p <= q /\ q <= a) \/ (a <= q /\ q <= p) => q \in mapped}

\* Mutant of Get_os_map_range: the range of the block before.
RangeOfPrevious(b) == IF b = 0 THEN {} ELSE RangeAround(address[b - 1])

Get_os_map_range(b) == RangeAround(address[b])

NoteRange ==
    /\ ForEachBlock("range", "log")
    /\ os_map_range' = [os_map_range EXCEPT ![next_block] = Get_os_map_range(next_block)]
    /\ UNCHANGED <<mapped, word, address, blocks_log>>

\* The number is read again: at MAP_FAILED there is none.
Print_result_log ==
    LET a == address[next_block] IN
    /\ IF a = MAP_FAILED
       THEN /\ blocks_pc = "log" /\ blocks_pc' = "killed"
            /\ mapped' = {}
            /\ UNCHANGED <<next_block, blocks_log>>
       ELSE /\ ForEachBlock("log", "unmap")
            /\ blocks_log' = Append(blocks_log, [number |-> word[a], range |-> os_map_range[next_block]])
            /\ UNCHANGED mapped
    /\ UNCHANGED <<word, address, os_map_range>>

UnmapBlock ==
    /\ ForEachBlock("unmap", "exit")
    /\ mapped' = mapped \ Block(address[next_block], next_block)
    /\ UNCHANGED <<word, address, os_map_range, blocks_log>>

BlocksNext ==
    /\ program = "blocks"
    /\ MapBlock \/ MapFails \/ NoteRange \/ Print_result_log \/ UnmapBlock

BlocksSpec == BlocksInit /\ CourseTypeOK /\ [][BlocksNext /\ UNCHANGED courseVars]_<<blocksVars, courseVars>>

-----------------------------------------------------------------------------
(* Properties *)

\* What is logged of a block is true of it (main.c:141-145): its number, unless a
\* later one was mapped over it, and a range that it lies in.  A mapping that
\* fails (main.c:110) never reaches the log: the program dies where it reads
\* the number.  And nothing stays mapped.
BlocksLogged ==
    program = "blocks" =>
        /\ \A b \in 0 .. Len(blocks_log) - 1 :
              /\ Block(address[b], b) \subseteq blocks_log[b + 1].range
              /\ \/ blocks_log[b + 1].number = Values[b + 1]
                 \/ \E c \in 2 .. 3 : c > b /\ address[b] \in Block(Fixed[c], c)
        /\ blocks_pc \in {"unmap", "exit"} => \A b \in 0 .. 3 : address[b] # MAP_FAILED
        /\ blocks_pc \in {"exit", "killed"} => mapped = {}

BlocksEnd == blocks_pc \in {"exit", "killed"}
=============================================================================
