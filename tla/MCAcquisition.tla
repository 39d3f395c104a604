---------------------------- MODULE MCAcquisition ----------------------------
(***************************************************************************)
(* Small instances of Acquisition for TLC.                                 *)
(***************************************************************************)
EXTENDS Acquisition

CONSTANTS scan, blankScan, gate, page, table, broken, binary

\* "ab. c", on the page with other blanks and marks, in the scan on two pages.
MCExcerpt == {<<" ", "a", "b", ".", " ", "c">>, <<"a", "b">>}
MCModelSpan == {<<"a", "b">>, <<"b", ".", " ", "c">>, <<".">>, <<"c", "a">>}
MCPages ==
    [x \in Content |->
       CASE x = scan -> <<<<"a", "b">>, <<"c">>>>
         [] x = page -> <<<<"c", " ", "a", "b", " ", ".", "c">>>>
         [] x = table -> <<<<"a", "b", ".", " ", "c">>>>
         [] x = blankScan -> <<<<" ">>>>
         [] OTHER -> <<>>]
MCForm ==
    [x \in Content |->
       CASE x \in {scan, blankScan} -> "SCAN"
         [] x = gate -> "CHALLENGE"
         [] x = page -> "HTML"
         [] x = table -> "PDF"
         [] x = broken -> "BROKEN_PDF"
         [] OTHER -> "BINARY"]
MCSize == [x \in Content |-> IF x \in {scan, table} THEN 2 ELSE IF x = binary THEN 0 ELSE 1]

\* Three documents, two of which may turn out to be the same scan, and two that are
\* never fetched.
MCSourceUri == <<"ALLOWED", "NONE", "ALLOWED", "REJECTED", "ALLOWED">>
MCServed == <<{scan, gate}, {}, {scan, page}, {}, {blankScan}>>
MCQuotes == <<{<<"a", "b">>, <<"a", "c">>}, {<<"a">>}, {<<"c">>, <<"a", "b">>}, {<<"a">>}, {<<"p">>}>>
MCHeading == <<".", "p", ".", " ">>
=============================================================================
