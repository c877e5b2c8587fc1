------------------------------ MODULE FuturesLabels ------------------------------
(***************************************************************************)
(* The labels the trade history gives to futures fills (long opened, long  *)
(* closed, short opened, short closed; futuresActionById in Trades.tsx).   *)
(* They are computed from the fills of one page alone, oldest first, with  *)
(* every position taken to be flat where the page begins, and the          *)
(* exchange's own word, where it has one, put over them.                   *)
(***************************************************************************)
EXTENDS Integers, Sequences

CONSTANTS
    Symbols,
    MaxQty, MaxFills    \* bounds of the model

LabelBounds == MaxQty \in Nat \ {0} /\ MaxFills \in Nat

VARIABLES
    fills,      \* every fill of the account, oldest first
    first,      \* the fill the page begins with
    position,   \* position by symbol, as the page counts it
    label       \* label of the fills on the page

vars == <<fills, first, position, label>>

Sides == {"BUY", "SELL"}
Labels == {"long open", "long close", "short open", "short close"}
NoWord == "none"        \* position_side and open_close are empty
Fills == [symbol : Symbols, side : Sides, qty : 1 .. MaxQty, word : Labels \cup {NoWord}]

Least(a, b) == IF a <= b THEN a ELSE b
Greatest(a, b) == IF a >= b THEN a ELSE b
Size(x) == IF x < 0 THEN -x ELSE x

TypeOK ==
    /\ fills \in Seq(Fills) /\ first \in 1 .. Len(fills) + 1
    /\ position \in [Symbols -> Int]
    /\ label \in [first .. Len(fills) -> Labels]

Delta(f) == IF f.side = "BUY" THEN f.qty ELSE -f.qty

\* Mutant: a fill of just the position's size opens.
LabelForAtZero(f, prev) ==
    IF f.word # NoWord THEN f.word
    ELSE IF f.side = "BUY"
         THEN IF prev < 0 /\ f.qty < Size(prev) THEN "short close" ELSE "long open"
         ELSE IF prev > 0 /\ f.qty < prev THEN "long close" ELSE "short open"

\* The label of a fill that finds the position prev: one against the position closes,
\* what is left of it opens, and the opening part names it.
LabelFor(f, prev) ==
    LET closes == IF f.side = "BUY" THEN Least(Size(Least(prev, 0)), f.qty)
                                    ELSE Least(Greatest(prev, 0), f.qty)
        opens == Greatest(0, f.qty - closes)
    IN  IF f.word # NoWord THEN f.word
        ELSE IF f.side = "BUY" THEN (IF prev < 0 /\ opens = 0 THEN "short close" ELSE "long open")
                               ELSE (IF prev > 0 /\ opens = 0 THEN "long close" ELSE "short open")

Init ==
    /\ fills = <<>> /\ first = 1
    /\ position = [s \in Symbols |-> 0]
    /\ label = [i \in 1 .. 0 |-> NoWord]

\* One turn of the loop.
LabelFill(f) ==
    /\ Len(fills) < MaxFills
    /\ fills' = Append(fills, f)
    /\ label' = [i \in first .. Len(fills) + 1 |->
                    IF i \in DOMAIN label THEN label[i] ELSE LabelFor(f, position[f.symbol])]
    /\ position' = [position EXCEPT ![f.symbol] = @ + Delta(f)]
    /\ UNCHANGED first

\* The page begins here: what came before is on an older page.
BeginPage ==
    /\ first' = Len(fills) + 1
    /\ position' = [s \in Symbols |-> 0]
    /\ label' = [i \in 1 .. 0 |-> NoWord]
    /\ UNCHANGED fills

Next == BeginPage \/ \E f \in Fills : LabelFill(f)

Spec == Init /\ [][Next]_vars

-----------------------------------------------------------------------------
(* Reference *)

\* The position in a symbol after the first n fills of the account.
Held(s) ==
    LET held[n \in Nat] ==
          IF n = 0 THEN 0 ELSE held[n - 1] + (IF fills[n].symbol = s THEN Delta(fills[n]) ELSE 0)
    IN  held

\* The exchange's word, or what the fill did to the account: it opens a side if that
\* side's exposure is larger after it than before.
True(i) ==
    LET before == Held(fills[i].symbol)[i - 1]
        after == Held(fills[i].symbol)[i]
    IN  IF fills[i].word # NoWord THEN fills[i].word
        ELSE IF Greatest(after, 0) > Greatest(before, 0) THEN "long open"
        ELSE IF Greatest(-after, 0) > Greatest(-before, 0) THEN "short open"
        ELSE IF Greatest(after, 0) < Greatest(before, 0) THEN "long close"
        ELSE "short close"

\* A fill on the page has the label of what it did to the account, if the account had no
\* position in its symbol where the page begins: a page that begins within a position
\* may call a closing fill an opening one.
LabelsAreTrue ==
    \A i \in DOMAIN label :
        Held(fills[i].symbol)[first - 1] = 0 => label[i] = True(i)
=============================================================================
