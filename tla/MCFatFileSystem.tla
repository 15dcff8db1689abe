--------------------------- MODULE MCFatFileSystem ---------------------------
(* FatFileSystem on a small volume: texts of no, one and several blocks, the *)
(* last of them full or not. On a roomy disk no write asks for more blocks   *)
(* than are free; on any other one it may.                                   *)
EXTENDS FatFileSystem

VARIABLE roomy       \* which of the two the disk is

Texts == {[id |-> "x", len |-> 0], [id |-> "x", len |-> 4], [id |-> "y", len |-> 5]}

DiskInit == roomy \in BOOLEAN /\ Init
DiskNext ==
    \/ fs_load /\ UNCHANGED roomy
    \/ Command(Completes) /\ UNCHANGED roomy
    \/ ~roomy /\ Command(RunsOut) /\ UNCHANGED roomy
    \/ SaveBegins /\ UNCHANGED roomy
    \/ SaveEnds /\ UNCHANGED roomy
    \/ Stops /\ UNCHANGED roomy
DiskSpec == DiskInit /\ [][DiskNext]_<<vars, roomy>>

\* As long as the disk has room no block belongs to two files, and names are
\* unique: writing or deleting one file cannot change another.
RoomyFilesDisjoint == roomy => FilesDisjoint

\* As long as the disk has room no command leaks a block, and every file has
\* the number of blocks its size asks for; on any disk every chain ends.
RoomyBlocksAccounted == TypeOK /\ ChainsEnd /\ (roomy => BlocksAccounted)

\* As long as the disk has room the program implements the map from names to
\* contents (FileStore): every step, crashes between commands included, is a
\* command on the map or leaves it alone.
RoomyImplementsStore ==
    /\ roomy => Store!Init
    /\ [][roomy => [Store!Next]_(Contents(Visible))]_<<vars, roomy>>
=============================================================================
