------------------------------ MODULE FileStore ------------------------------
(***************************************************************************)
(* What fat.c promises whoever runs it: a map from names to contents that  *)
(* survives from one command to the next. A command changes the file it    *)
(* names and no other. A process killed while it saves loses the volume:   *)
(* the image is written in place.                                          *)
(***************************************************************************)
CONSTANTS
    Name,            \* file names
    Content,         \* what a file can hold
    Nothing          \* the content of a file just created

VARIABLE files       \* the content of each file there is

Exists(name) == name \in DOMAIN files
None == [n \in {} |-> Nothing]

Init == files = None

Put(name, c) == files' = [n \in DOMAIN files \cup {name} |-> IF n = name THEN c ELSE files[n]]

Create(name) == ~Exists(name) /\ Put(name, Nothing)
Write(name, c) == Exists(name) /\ Put(name, c)
Delete(name) == Exists(name) /\ files' = [n \in DOMAIN files \ {name} |-> files[n]]
Lose == files' = None

Next ==
    \/ \E name \in Name :
          \/ Create(name)
          \/ \E c \in Content : Write(name, c)
          \/ Delete(name)
    \/ Lose

Spec == Init /\ [][Next]_files
=============================================================================
