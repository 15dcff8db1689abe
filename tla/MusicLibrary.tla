---------------------------- MODULE MusicLibrary ----------------------------
(***************************************************************************)
(* 01_Music_Playlist_BST: a queue of songs to be added, a search tree of   *)
(* artists and one of titles, which hold the same songs, and a playlist.   *)
(* Artists and titles are numbers, which gives them the order of the       *)
(* strings (no song has an empty one); a run time is its number of seconds *)
(* and 0 where ADD or Music_List.txt gives none.                           *)
(*                                                                         *)
(* A node keeps its run times in one string, separated by commas: here the *)
(* sequence of the fields between the commas, an empty field being 0, one  *)
(* of a single space -1, and the empty string one empty field.             *)
(***************************************************************************)
EXTENDS Integers, Sequences, SequencesExt

CONSTANTS
    Song,            \* the songs: [artist, title, run_time]
    Music_List,      \* the songs of Music_List.txt, in order
    QueueMax,        \* songs the queue takes, 100 in the code
    PlayListMax      \* songs the playlist takes, 10 in the code

VARIABLES
    running,         \* the program reads commands
    q,               \* the queue
    ab, tb,          \* the trees of artists and of titles
    pl, time,        \* the playlist and its total time
    timeless,        \* history: a song went into the trees without a run time,
                     \* or to a node that had lost all of its own
    again            \* history: a song went into the trees that was there already

vars == <<running, q, ab, tb, pl, time, timeless, again>>
history == <<timeless, again>>

Empty == 0
Blank == -1
Null == [key |-> 0, item |-> <<>>]

Init ==
    /\ running = TRUE /\ q = <<>> /\ ab = Null /\ tb = Null
    /\ pl = <<>> /\ time = 0 /\ timeless = FALSE /\ again = FALSE

-----------------------------------------------------------------------------
(* The trees: an artist with his titles, a title with its artists. The code *)
(* has every function twice, once for each tree.                            *)

\* set on a new node and on one that is there.
NewNode(key, i, rt) ==
    [key |-> key, item |-> <<i>>, run_time |-> <<rt>>, left |-> Null, right |-> Null]

set(node, i, rt) == [node EXCEPT !.item = Append(@, i), !.run_time = Append(@, rt)]

RECURSIVE insert(_, _, _, _)
insert(t, key, i, rt) ==
    IF t = Null THEN NewNode(key, i, rt)
    ELSE IF key = t.key THEN set(t, i, rt)
    ELSE IF key < t.key THEN [t EXCEPT !.left = insert(@, key, i, rt)]
    ELSE [t EXCEPT !.right = insert(@, key, i, rt)]

RECURSIVE Find(_, _)
Find(t, key) ==
    IF t = Null \/ key = t.key THEN t
    ELSE IF key < t.key THEN Find(t.left, key) ELSE Find(t.right, key)

searchCount(t, key) == Len(Find(t, key).item)

\* The k-th run time, however it is taken out of the string: past the last
\* comma it is the last field again.
Part(node, k) ==
    node.run_time[IF k <= Len(node.run_time) THEN k ELSE Len(node.run_time)]

\* What is shown of a node, and of a tree in order.
search(node) == [k \in 1..Len(node.item) |-> <<node.key, node.item[k], Part(node, k)>>]

RECURSIVE print(_)
print(t) == IF t = Null THEN <<>> ELSE print(t.left) \o search(t) \o print(t.right)

\* The position of an item, 0 if there is none.
IndexIn(node, i) ==
    IF \E k \in DOMAIN node.item : node.item[k] = i
    THEN CHOOSE k \in DOMAIN node.item :
            node.item[k] = i /\ \A j \in 1..k - 1 : node.item[j] # i
    ELSE 0

searchSong(t, artist, title) ==
    LET node == Find(t, artist)
    IN  IF IndexIn(node, title) = 0 THEN Empty ELSE Part(node, IndexIn(node, title))

\* The string without its k-th field: getline gives no field after a last
\* comma, and no comma is written before the first that is not empty. Between
\* the artists of a title the separator is written as ", ", and the space is
\* taken off again when it is read.
Rejoined(fields, k, spaced) ==
    LET read == IF Last(fields) = Empty THEN Front(fields) ELSE fields
        kept == IF k <= Len(read) THEN RemoveAt(read, k) ELSE read
        from == SelectInSeq(kept, LAMBDA f : f # Empty /\ (spaced => f # Blank))
    IN  IF from = 0 THEN <<Empty>>
        ELSE [j \in 1..Len(kept) - from + 1 |->
                IF spaced /\ kept[from + j - 1] = Empty THEN Blank ELSE kept[from + j - 1]]

\* Mutation: the run times stay when a song goes.
WithoutItemOnly(node, k, spaced) == [node EXCEPT !.item = RemoveAt(@, k)]

\* delete_title and delete_artist of a node, which may be left with nothing.
Without(node, k, spaced) ==
    [node EXCEPT !.item = RemoveAt(@, k), !.run_time = Rejoined(@, k, spaced)]

RECURSIVE EachWithout(_, _, _)
EachWithout(t, i, spaced) ==
    IF t = Null THEN Null
    ELSE LET node == IF IndexIn(t, i) = 0 THEN t ELSE Without(t, IndexIn(t, i), spaced)
         IN  [node EXCEPT !.left = EachWithout(@, i, spaced), !.right = EachWithout(@, i, spaced)]

RECURSIVE Leftmost(_)
Leftmost(t) == IF t.left = Null THEN t ELSE Leftmost(t.left)

\* Delete the node of a key: a node with two children takes over the data of
\* its successor, whose right subtree goes to the successor's place.
RECURSIVE RemoveNode(_, _)
RemoveNode(t, key) ==
    IF t = Null THEN Null
    ELSE IF key < t.key THEN [t EXCEPT !.left = RemoveNode(@, key)]
    ELSE IF key > t.key THEN [t EXCEPT !.right = RemoveNode(@, key)]
    ELSE IF t.left = Null THEN t.right
    ELSE IF t.right = Null THEN t.left
    ELSE LET s == Leftmost(t.right)
         IN  [s EXCEPT !.left = t.left, !.right = RemoveNode(t.right, s.key)]

RECURSIVE Update(_, _, _)
Update(t, key, node) ==
    IF key = t.key THEN node
    ELSE IF key < t.key THEN [t EXCEPT !.left = Update(@, key, node)]
    ELSE [t EXCEPT !.right = Update(@, key, node)]

\* The last song of a node takes the node along.
delete_song(t, key, i) ==
    LET node == Find(t, key)
        k == IndexIn(node, i)
    IN  IF k = 0 THEN t
        ELSE IF Len(node.item) > 1 THEN Update(t, key, Without(node, k, FALSE))
        ELSE RemoveNode(t, key)

-----------------------------------------------------------------------------
(* The playlist: a circular list, from its head. *)

exist(list, artist, title) ==
    \E k \in DOMAIN list : /\ artist = Empty \/ list[k].artist = artist
                           /\ title = Empty \/ list[k].title = title

insert_node(list, s) ==
    IF Len(list) >= PlayListMax \/ exist(list, s.artist, s.title) THEN list ELSE Append(list, s)

delete_node(list, artist, title) ==
    SelectSeq(list, LAMBDA s : ~exist(<<s>>, artist, title))

Total(list) == FoldSeq(LAMBDA s, sum : s.run_time + sum, 0, list)

TimeChange(list) == Total(list) - Total(pl)

SetPlayList(list) == pl' = list /\ time' = time + TimeChange(list)

InsertAll(songs) == FoldLeft(insert_node, pl, songs)

AsSong(artist, title, rt) == [artist |-> artist, title |-> title, run_time |-> rt]

\* stringToSec: without a colon there are no seconds.
stringToSec(rt) == IF rt = Blank THEN 0 ELSE rt

\* The songs a node gives the playlist, those without a run time too or not.
Offered(node, timed) ==
    LET shown == SelectSeq(search(node), LAMBDA e : timed => e[3] # Empty)
    IN  [k \in DOMAIN shown |-> <<shown[k][2], stringToSec(shown[k][3])>>]

-----------------------------------------------------------------------------
(* Manager: the commands. *)

\* push: the program exits when the queue is full.
Push(songs) ==
    IF Len(q) + Len(songs) > QueueMax
    THEN running' = FALSE /\ q' = q \o SubSeq(songs, 1, QueueMax - Len(q))
    ELSE q' = q \o songs /\ UNCHANGED running

LOAD ==
    /\ running /\ q = <<>>
    /\ Push(Music_List)
    /\ UNCHANGED <<ab, tb, pl, time, history>>

ADD(s) ==
    /\ running /\ ~exist(q, s.artist, s.title)
    /\ Push(<<s>>)
    /\ UNCHANGED <<ab, tb, pl, time, history>>

Known(trees, s) == searchSong(trees.ab, s.artist, s.title) # Empty

\* A song goes to both trees unless it is found in that of the artists.
AddSong(trees, s) ==
    IF Known(trees, s) THEN trees
    ELSE [ab |-> insert(trees.ab, s.artist, s.title, s.run_time),
          tb |-> insert(trees.tb, s.title, s.artist, s.run_time),
          timeless |-> \/ trees.timeless \/ s.run_time = Empty
                       \/ Find(trees.ab, s.artist) # Null /\ searchCount(trees.ab, s.artist) = 0
                       \/ Find(trees.tb, s.title) # Null /\ searchCount(trees.tb, s.title) = 0,
          again |-> trees.again \/ IndexIn(Find(trees.ab, s.artist), s.title) # 0]

\* All of the queue is added; with an empty queue the program exits.
QPOP ==
    /\ running /\ UNCHANGED <<pl, time>>
    /\ LET to == FoldLeft(AddSong, [ab |-> ab, tb |-> tb, timeless |-> timeless, again |-> again], q)
       IN  ab' = to.ab /\ tb' = to.tb /\ timeless' = to.timeless /\ again' = to.again
    /\ q' = <<>> /\ running' = (q # <<>>)

MAKEPL_ARTIST(artist) ==
    /\ running /\ Len(pl) + searchCount(ab, artist) <= PlayListMax
    /\ LET of == Offered(Find(ab, artist), FALSE)
       IN  SetPlayList(InsertAll([k \in DOMAIN of |-> AsSong(artist, of[k][1], of[k][2])]))
    /\ UNCHANGED <<running, q, ab, tb, history>>

\* A song without a run time is left out here.
MAKEPL_TITLE(title) ==
    /\ running /\ Len(pl) + searchCount(tb, title) <= PlayListMax
    /\ ~exist(pl, Empty, title)
    /\ LET of == Offered(Find(tb, title), TRUE)
       IN  SetPlayList(InsertAll([k \in DOMAIN of |-> AsSong(of[k][1], title, of[k][2])]))
    /\ UNCHANGED <<running, q, ab, tb, history>>

MAKEPL_SONG(artist, title) ==
    LET rt == searchSong(ab, artist, title)
    IN  /\ running /\ Len(pl) < PlayListMax /\ rt # Empty
        /\ SetPlayList(insert_node(pl, AsSong(artist, title, rt)))
        /\ UNCHANGED <<running, q, ab, tb, history>>

DELETE_ARTIST(artist) ==
    /\ running
    /\ searchCount(ab, artist) # 0 \/ exist(pl, artist, Empty)
    /\ ab' = RemoveNode(ab, artist)
    /\ tb' = EachWithout(tb, artist, TRUE)
    /\ SetPlayList(delete_node(pl, artist, Empty))
    /\ UNCHANGED <<running, q, history>>

DELETE_TITLE(title) ==
    /\ running
    /\ searchCount(tb, title) # 0 \/ exist(pl, Empty, title)
    /\ ab' = EachWithout(ab, title, FALSE)
    /\ tb' = RemoveNode(tb, title)
    /\ SetPlayList(delete_node(pl, Empty, title))
    /\ UNCHANGED <<running, q, history>>

DELETE_LIST(artist, title) ==
    /\ running /\ exist(pl, artist, title)
    /\ SetPlayList(delete_node(pl, artist, title))
    /\ UNCHANGED <<running, q, ab, tb, history>>

DELETE_SONG(artist, title) ==
    /\ running
    /\ searchSong(ab, artist, title) # Empty \/ exist(pl, artist, title)
    /\ ab' = delete_song(ab, artist, title)
    /\ tb' = delete_song(tb, title, artist)
    /\ SetPlayList(delete_node(pl, artist, title))
    /\ UNCHANGED <<running, q, history>>

\* SEARCH and PRINT change nothing.
Next ==
    /\ ~again              \* bound: what comes after is not explored
    /\ \/ LOAD \/ QPOP
       \/ \E s \in Song :
             \/ ADD(s)
             \/ MAKEPL_ARTIST(s.artist) \/ MAKEPL_TITLE(s.title) \/ MAKEPL_SONG(s.artist, s.title)
             \/ DELETE_ARTIST(s.artist) \/ DELETE_TITLE(s.title)
             \/ DELETE_LIST(s.artist, s.title) \/ DELETE_SONG(s.artist, s.title)

Spec == Init /\ [][Next]_vars

-----------------------------------------------------------------------------
(* Properties. *)

Pairs(list) == [k \in DOMAIN list |-> <<list[k][1], list[k][2]>>]
Turned(list) == [k \in DOMAIN list |-> <<list[k][2], list[k][1], list[k][3]>>]

InOrderOnce(list) ==
    /\ IsInjective(Pairs(list))
    /\ \A j, k \in DOMAIN list : j <= k => list[j][1] <= list[k][1]

\* The trees list the same songs, each once and in order of the keys, and the
\* playlist is made of songs that are there. QPOP adds a song a second time
\* only after one had no run time, or went to a node that had lost all of its
\* own songs: until then the run times agree as well, and are those given.
LibraryConsistent ==
    LET songs == print(ab)  titles == Turned(print(tb))
    IN  /\ again => timeless
        /\ ~again =>
              /\ ToSet(Pairs(songs)) = ToSet(Pairs(titles))
              /\ InOrderOnce(songs) /\ InOrderOnce(print(tb))
              /\ \A s \in ToSet(pl) : <<s.artist, s.title>> \in ToSet(Pairs(songs))
        /\ ~timeless =>
              /\ ToSet(songs) = ToSet(titles)
              /\ \A e \in ToSet(songs) : AsSong(e[1], e[2], e[3]) \in Song
              /\ \A s \in ToSet(pl) : <<s.artist, s.title, s.run_time>> \in ToSet(songs)

\* Whatever is put into the playlist and taken out, its total time is that of
\* its songs, none of which it has twice.
PlayListTimed ==
    /\ time = Total(pl)
    /\ \A j, k \in DOMAIN pl : pl[j].artist = pl[k].artist /\ pl[j].title = pl[k].title => j = k
=============================================================================
