---------------------------- MODULE MCAlgorithms ----------------------------
(***************************************************************************)
(* The pure algorithms, one at a time: the checksum or the calendar.       *)
(***************************************************************************)
EXTENDS Crc, Calendar

VARIABLE which

\* The vector of the unit test, as a check of the reference itself: the digits
\* 1 to 9 give 0xCBF43926.
ASSUME KnownVector ==
    Crc32(<<49, 50, 51, 52, 53, 54, 55, 56, 57>>) =
        {31, 30, 27, 25, 24, 23, 22, 21, 20, 18, 13, 12, 11, 8, 5, 2, 1}

Init == CrcInit /\ CalendarInit /\ which \in {"crc", "calendar"}

Next ==
    /\ \/ which = "crc" /\ CrcNext /\ UNCHANGED calendarVars
       \/ which = "calendar" /\ Midnight /\ UNCHANGED crcVars
    /\ UNCHANGED which

Spec == Init /\ [][Next]_<<crcVars, calendarVars, which>>
=============================================================================
