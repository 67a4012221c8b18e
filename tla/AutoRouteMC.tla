----------------------------- MODULE AutoRouteMC -----------------------------
(* Three connections of three nets on five cells.  The first two may be    *)
(* routed so that both are in the way of the third; only with the first    *)
(* around by cell 4 and the second along cell 5 do all three fit.          *)
EXTENDS AutoRoute

Bent(cells) == [cells |-> cells, thin |-> FALSE]
Straight(cells) == [cells |-> cells, thin |-> TRUE]

MCNetOf == <<"usb", "spi", "led">>
MCWays == <<{Bent({1, 2}), Bent({1, 4})}, {Bent({3, 4}), Straight({5})}, {Bent({2, 3})}>>
MCBox == <<{1, 2, 4, 5}, {3, 4, 5}, {2, 3}>>
MCStroke == {[net |-> "spi", cell |-> 1]}
=============================================================================
