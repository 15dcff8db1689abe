------------------------------ MODULE MCGoBackN ------------------------------
(* GoBackN both ways it can be built: with messages in both directions, under *)
(* the constants of the configuration, and with messages from A only, when a  *)
(* packet may be damaged in any of its fields and one message more is taken.  *)
EXTENDS GoBackN

VARIABLE duplex      \* which of the two it is

Simplex == INSTANCE GoBackN WITH
    BIDIRECTIONAL <- FALSE, NSIMMAX <- NSIMMAX + 1,
    CorruptForms <- {"payload", "seqnum", "acknum"}

BuildInit == duplex \in BOOLEAN /\ IF duplex THEN Init ELSE Simplex!Init
BuildNext == /\ IF duplex THEN Next ELSE Simplex!Next
             /\ UNCHANGED duplex
BuildSpec == BuildInit /\ [][BuildNext]_<<vars, duplex>>

\* No packet leaves A's window before B delivered it, but for packet 0 when B
\* sends as well: the 0 that B writes on its data acknowledges it. B's window
\* is never ahead.
AckedWasDeliveredButFirst ==
    IF duplex THEN OnlyFirstAckedEarly ELSE AckedWasDelivered

\* Layer 5 is handed the messages of the other side in order, without gap or
\* repetition; with both sides sending the first one may be empty.
InOrderButFirst ==
    IF duplex THEN TypeOK /\ DeliveredInOrderButFirst ELSE Simplex!TypeOK /\ DeliveredInOrder
=============================================================================
