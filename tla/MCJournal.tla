----------------------------- MODULE MCJournal ------------------------------
(***************************************************************************)
(* JournalParts for TLC: one tab with a member and the guest; a loader and *)
(* one or two writers over two or three bubbles; three filters of trades;  *)
(* two openings of the form; two notes; two trades to judge.               *)
(***************************************************************************)
EXTENDS JournalParts

CONSTANTS
    t1, c1, c2, ann, guest, f1, w1, w2, buy, sell, manual, every, upbit, spot, binance,
    intended, mistake

OneTab == {t1}
TwoCalls == {c1, c2}
MemberAndGuest == {ann, guest}
OneLoader == {f1}

\* Bubbles are made while a list is loaded page by page.
WhileListing ==
    [writers |-> {w1}, trades |-> {}, files |-> {}, limit |-> 1, cap |-> 1, bubbles |-> 3,
     imports |-> 0, faults |-> 1]

\* Two writers import the same file of two trades.
WhileImporting ==
    [writers |-> {w1, w2}, trades |-> {buy, sell}, files |-> {<<buy, sell>>}, limit |-> 2,
     cap |-> 1, bubbles |-> 2, imports |-> 2, faults |-> 0]

\* Bubbles from elsewhere change the list under the library.
WhileBrowsing ==
    [writers |-> {}, trades |-> {buy}, files |-> {}, limit |-> 2, cap |-> 5, bubbles |-> 2,
     imports |-> 0, faults |-> 1, page |-> 1]

\* The library: the action of a bubble, by what it is about.
Actions == [a \in {buy, manual} |-> IF a = buy THEN "BUY" ELSE "NONE"]

\* The trade history: how many trades a filter leaves.
ThreeFilters == {every, upbit, spot}
Counts == [f \in ThreeFilters |-> IF f = every THEN 5 ELSE IF f = upbit THEN 1 ELSE 0]

\* The verdicts.
OneVenue == {binance}
TwoVerdicts == {intended, mistake}

\* Bounds: in the parts of the store alone no JSON file is written, and in the import
\* every bubble is at the server.
Bounded ==
    /\ part \in {"lists", "import"} => ~ file.made
    /\ part = "import" =>
         \A b \in Import!Bubbles : about[b] # Import!Unborn => b \in Import!Elements(server)
=============================================================================
