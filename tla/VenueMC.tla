------------------------------- MODULE VenueMC -------------------------------
(***************************************************************************)
(* Values of the constants for TLC.                                        *)
(***************************************************************************)
EXTENDS VenueScope, VenueReads, TLC

CONSTANTS p1, p2, p3, t1, t2, cara, max, ada

Cashier == [id |-> cara, role |-> "CASHIER"]
Manager == [id |-> max, role |-> "MANAGER"]
Admin == [id |-> ada, role |-> "ADMIN"]

OnePlayer == {p1}
TwoPlayers == {p1, p2}
ThreePlayers == {p1, p2, p3}
OneTable == {t1}
TwoTables == {t1, t2}

CashierAndAdmin == {Cashier, Admin}
ManagerAndAdmin == {Manager, Admin}

Rules(small, big, min, max0, step) ==
    [smallBlind |-> small, bigBlind |-> big, minBuyIn |-> min, maxBuyIn |-> max0,
     buyInStep |-> step]
AnyBuyIn == Rules(1, 2, 0, 9, 0)
OneRules == {AnyBuyIn}
Inherit == {NoOverrides}
AllFeatures == {Features}

\* Max is promoted to administrator between two of his decisions.
ReviewStaff == {Cashier, Manager, Admin, [id |-> max, role |-> "ADMIN"]}

\* Rules that fit some overrides and not others, and overrides that set both
\* blinds, a range, or a step that leaves a single buy-in.
SomeRules == {AnyBuyIn, Rules(1, 2, 2, 4, 2), Rules(2, 4, 3, 3, 3)}
SomeOverrides ==
    {NoOverrides,
     [f \in {"minBuyIn"} |-> 3],
     [f \in {"maxBuyIn"} |-> 2],
     [f \in {"buyInStep"} |-> 4],
     [f \in {"smallBlind", "bigBlind"} |-> IF f = "bigBlind" THEN 2 ELSE 1]}
SomeFeatures == {Features, {"tips", "rake"}}
EveryType == EntryTypes

\* Players and tables are interchangeable.
Interchangeable == Permutations(TwoPlayers) \cup Permutations(TwoTables)
=============================================================================
