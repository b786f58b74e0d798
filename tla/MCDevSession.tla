----------------------------- MODULE MCDevSession -----------------------------
EXTENDS DevSession, TLC

(* Two units in a row; an amendment may give both the same path.           *)
TwoUnits == <<"u1", "u2">>
InARow == [u \in {"u1", "u2"} |-> IF u = "u2" THEN {"u1"} ELSE {}]
OwnPaths == [u \in {"u1", "u2"} |-> {u}]

(* Backend work in units, and a small change of the UI.                    *)
Backend == [readiness |-> FALSE, tdd |-> TRUE, ui |-> "none", multi |-> TRUE]
SmallUI == [readiness |-> FALSE, tdd |-> TRUE, ui |-> "focused", multi |-> FALSE]
TwoRoutes == {Backend, SmallUI}

Together == {{"implementation", "review"}, {"qa"}}
=============================================================================
