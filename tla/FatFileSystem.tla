---------------------------- MODULE FatFileSystem ----------------------------
(***************************************************************************)
(* fat.c: a FAT-like file system kept in one image file. Every invocation  *)
(* loads the image, runs one command on the copy in memory and writes the  *)
(* image back in place; a process may be killed at any point.              *)
(*                                                                         *)
(* A content is an identity and a length: the data of a block is the part  *)
(* of which content it holds.                                              *)
(***************************************************************************)
EXTENDS Integers, FiniteSets

CONSTANTS
    Name,            \* file names given on the command line
    Content,         \* texts given to write: [id, len]
    MAX_FILES,       \* entries of the directory
    NUM_BLKS,        \* blocks of the volume
    BLK_SZ           \* bytes in a block

ASSUME NameAssumption == "" \notin Name
ASSUME ContentAssumption == \A c \in Content : c.len \in Nat
ASSUME SizeAssumption == MAX_FILES \in Nat /\ NUM_BLKS \in Nat /\ BLK_SZ \in Nat \ {0}

VARIABLES
    pc,              \* idle: no process; else how far the process has come
    g_dir,           \* its directory
    g_fat,           \* its allocation table
    g_data,          \* its blocks
    image,           \* the volume last written to the image file
    complete         \* whether all of it got there

vars == <<pc, g_dir, g_fat, g_data, image, complete>>

FAT_FREE == -2
FAT_END == -1
Slot == 0..MAX_FILES - 1
Block == 0..NUM_BLKS - 1

Unused == [used |-> FALSE, name |-> "", size |-> 0, head |-> 0]
Zero == <<>>

Chunk(c, i) == <<c, i>>

Volume == [dir |-> g_dir, fat |-> g_fat, data |-> g_data]

Formatted ==
    [dir  |-> [s \in Slot |-> Unused],
     fat  |-> [b \in Block |-> FAT_FREE],
     data |-> [b \in Block |-> Zero]]

Init ==
    /\ pc = "idle"
    /\ g_dir = Formatted.dir /\ g_fat = Formatted.fat /\ g_data = Formatted.data
    /\ image = Formatted /\ complete = FALSE

-----------------------------------------------------------------------------
Least(S) == CHOOSE x \in S : \A y \in S : x <= y

Free(fat) == {b \in Block : fat[b] = FAT_FREE}
blk_find_free(fat) == Least(Free(fat))

dir_find_by_name(name) == {s \in Slot : g_dir[s].used /\ g_dir[s].name = name}

UnusedSlots == {s \in Slot : ~g_dir[s].used}
dir_find_free == Least(UnusedSlots)

\* The blocks met on following fat from head: the least set that holds head
\* and, with a block, its successor.
Chain(fat, head) ==
    {b \in Block : \A S \in SUBSET Block :
        (head \in S /\ \A c \in S : fat[c] \in Block => fat[c] \in S) => b \in S}

\* Mutation: only the head is freed.
chain_free_head(fat, head) == [fat EXCEPT ![head] = FAT_FREE]

chain_free(fat, head) ==
    [b \in Block |-> IF b \in Chain(fat, head) THEN FAT_FREE ELSE fat[b]]

\* Mutation: a last block that is not full is not counted.
BlocksForRoundedDown(len) == len \div BLK_SZ

BlocksFor(len) == (len + BLK_SZ - 1) \div BLK_SZ

\* The n blocks of S that blk_find_free gives, one after the other.
Lowest(S, n) == {b \in S : Cardinality({c \in S : c < b}) < n}
Rank(T, b) == Cardinality({c \in T : c <= b})

\* The block written after b, or the end of the chain.
Successor(T, b) ==
    IF \E c \in T : c > b THEN Least({c \in T : c > b}) ELSE FAT_END

-----------------------------------------------------------------------------
\* The commands, on the volume in memory.

cmd_create(name) ==
    /\ dir_find_by_name(name) = {} /\ UnusedSlots # {} /\ Free(g_fat) # {}
    /\ LET b == blk_find_free(g_fat)
       IN  /\ g_dir' = [g_dir EXCEPT ![dir_find_free] =
                           [used |-> TRUE, name |-> name, size |-> 0, head |-> b]]
           /\ g_fat' = [g_fat EXCEPT ![b] = FAT_END]
           /\ g_data' = [g_data EXCEPT ![b] = Zero]

\* The old chain is freed first; the new one takes the lowest free blocks.
WriteAll(s, c, freed) ==
    LET need == BlocksFor(c.len)
        chain == Lowest(Free(freed), IF need = 0 THEN 1 ELSE need)
    IN  /\ Cardinality(Free(freed)) >= need /\ Free(freed) # {}
        /\ g_dir' = [g_dir EXCEPT ![s].size = c.len, ![s].head = Least(chain)]
        /\ g_fat' = [b \in Block |-> IF b \in chain THEN Successor(chain, b) ELSE freed[b]]
        /\ g_data' = [b \in Block |-> IF b \notin chain THEN g_data[b]
                                      ELSE IF need = 0 THEN Zero
                                      ELSE Chunk(c, Rank(chain, b))]

\* The disk fills up on the way: what was allocated is freed again, but the
\* entry keeps its old head, a free block now, and the new size.
WritePart(s, c, freed) ==
    /\ Cardinality(Free(freed)) < BlocksFor(c.len)
    /\ g_dir' = [g_dir EXCEPT ![s].size = c.len]
    /\ g_fat' = freed
    /\ g_data' = [b \in Block |-> IF b \in Free(freed) THEN Chunk(c, Rank(Free(freed), b))
                                  ELSE g_data[b]]

cmd_write(name, c) ==
    \E s \in dir_find_by_name(name) : WriteAll(s, c, chain_free(g_fat, g_dir[s].head))

cmd_write_disk_full(name, c) ==
    \E s \in dir_find_by_name(name) : WritePart(s, c, chain_free(g_fat, g_dir[s].head))

cmd_delete(name) ==
    \E s \in dir_find_by_name(name) :
        /\ g_fat' = chain_free(g_fat, g_dir[s].head)
        /\ g_dir' = [g_dir EXCEPT ![s] = Unused]
        /\ UNCHANGED g_data

\* read and list, usage errors, and commands refused before they change
\* anything.
NoChange == UNCHANGED <<g_dir, g_fat, g_data>>

mkfs == g_dir' = Formatted.dir /\ g_fat' = Formatted.fat /\ g_data' = Formatted.data

Completes ==
    \/ \E name \in Name :
          \/ cmd_create(name)
          \/ \E c \in Content : cmd_write(name, c)
          \/ cmd_delete(name)
    \/ NoChange
    \/ mkfs

RunsOut == \E name \in Name, c \in Content : cmd_write_disk_full(name, c)

-----------------------------------------------------------------------------
\* One invocation: main.

Process(v) == g_dir' = v.dir /\ g_fat' = v.fat /\ g_data' = v.data

\* Mutation: a failed load leaves in memory what it has read.
LoadedUnformatted == IF complete THEN image ELSE [Formatted EXCEPT !.dir = image.dir]

\* fs_load, and fs_format where it fails.
Loaded == IF complete THEN image ELSE Formatted

fs_load ==
    /\ pc = "idle" /\ pc' = "loaded"
    /\ Process(Loaded)
    /\ UNCHANGED <<image, complete>>

Command(effect) ==
    /\ pc = "loaded" /\ pc' = "done"
    /\ effect
    /\ UNCHANGED <<image, complete>>

\* fopen(..., "wb") empties the image before anything is written to it.
SaveBegins ==
    /\ pc = "done" /\ pc' = "saving"
    /\ image' = Volume /\ complete' = FALSE
    /\ UNCHANGED <<g_dir, g_fat, g_data>>

SaveEnds ==
    /\ pc = "saving" /\ pc' = "idle"
    /\ complete' = TRUE
    /\ UNCHANGED image
    /\ Process(Formatted)

\* The process ends without saving: fopen fails, or it is killed, perhaps with
\* the image half written.
Stops ==
    /\ pc \in {"loaded", "done", "saving"} /\ pc' = "idle"
    /\ UNCHANGED <<image, complete>>
    /\ Process(Formatted)

Next ==
    \/ fs_load
    \/ Command(Completes)
    \/ Command(RunsOut)
    \/ SaveBegins
    \/ SaveEnds
    \/ Stops

Spec == Init /\ [][Next]_vars

-----------------------------------------------------------------------------
\* cmd_read: the parts of blocks it writes out, in order.

Bytes(len, k) ==
    IF len - (k - 1) * BLK_SZ > BLK_SZ THEN BLK_SZ ELSE len - (k - 1) * BLK_SZ

cmd_read(v, s) ==
    LET walk[k \in 1..NUM_BLKS] ==
            IF k = 1 THEN v.dir[s].head
            ELSE IF walk[k - 1] \in Block THEN v.fat[walk[k - 1]] ELSE FAT_END
        wanted == BlocksFor(v.dir[s].size)
        met == {k \in 1..NUM_BLKS : k <= wanted /\ walk[k] \in Block}
    IN  [k \in 1..Cardinality(met) |-> <<v.data[walk[k]], Bytes(v.dir[s].size, k)>>]

\* What reading back c should print.
Text(c) ==
    [k \in {k \in 1..c.len : (k - 1) * BLK_SZ < c.len} |->
        <<Chunk(c, k), IF k * BLK_SZ <= c.len THEN BLK_SZ ELSE c.len % BLK_SZ>>]

-----------------------------------------------------------------------------
(* Properties. *)

Volumes ==
    [dir  : [Slot -> [used : BOOLEAN, name : Name \cup {""}, size : Nat, head : Block \cup {0}]],
     fat  : [Block -> Block \cup {FAT_FREE, FAT_END}],
     data : [Block -> {Zero} \cup {Chunk(c, i) : c \in Content, i \in 1..NUM_BLKS}]]

\* Every variable keeps its type, whatever is written over a full disk.
TypeOK ==
    /\ pc \in {"idle", "loaded", "done", "saving"}
    /\ Volume \in Volumes
    /\ image \in Volumes
    /\ complete \in BOOLEAN

Used == {s \in Slot : g_dir[s].used}

\* No block belongs to two files, and names are unique: what one file is
\* given cannot change another. ("`read <name>` | Read file content",
\* README.md.)
FilesDisjoint ==
    \A s \in Used : \A t \in Used \ {s} :
        /\ g_dir[s].name # g_dir[t].name
        /\ Chain(g_fat, g_dir[s].head) \cap Chain(g_fat, g_dir[t].head) = {}

\* Exactly the blocks on the chains of files are in use: no command leaks a
\* block or frees one that a file still holds, and a chain is as long as the
\* size asks for.
BlocksAccounted ==
    /\ Block \ Free(g_fat) = UNION {Chain(g_fat, g_dir[s].head) : s \in Used}
    /\ \A s \in Used :
          LET need == BlocksFor(g_dir[s].size)
          IN  Cardinality(Chain(g_fat, g_dir[s].head)) = IF need = 0 THEN 1 ELSE need

\* No chain leads back to itself, even across files whose chains a full disk
\* has run together: read and chain_free always come to an end.
ChainsEnd == \A b \in Block : g_fat[b] \in Block => b \notin Chain(g_fat, g_fat[b])

\* After a write that reports success, read prints what was written, whatever
\* went wrong before.
ReadAfterWrite ==
    [][\A name \in Name, c \in Content :
          Command(cmd_write(name, c)) =>
              \A s \in dir_find_by_name(name)' : cmd_read(Volume, s)' = Text(c)]_vars

\* What the next process would find: the command takes effect when the old
\* image is given up.
Visible == IF complete \/ pc = "saving" THEN image ELSE Formatted

Contents(v) ==
    [name \in {v.dir[s].name : s \in {s \in Slot : v.dir[s].used}} |->
        cmd_read(v, CHOOSE s \in Slot : v.dir[s].used /\ v.dir[s].name = name)]

\* While the disk has room the program implements the map from names to
\* contents.
Store == INSTANCE FileStore WITH
    Content <- {Text(c) : c \in Content}, Nothing <- <<>>, files <- Contents(Visible)
=============================================================================
