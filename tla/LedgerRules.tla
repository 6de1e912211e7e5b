----------------------------- MODULE LedgerRules -----------------------------
(***************************************************************************)
(* The rules of src/domain that need no state: which review a request      *)
(* needs, what a posted entry does to cash and credit, and which buy-in    *)
(* rules a table plays under.  Amounts are integer sen.                    *)
(***************************************************************************)
EXTENDS Integers

CONSTANTS
    AdminThreshold,   \* 1_000_000 sen in the code
    DualThreshold     \* 2_500_000 sen in the code

ASSUME ThresholdAssumption ==
    /\ AdminThreshold \in Nat
    /\ DualThreshold \in Nat

-----------------------------------------------------------------------------
(* Roles and entry types.                                                  *)

Roles == {"DEALER", "CASHIER", "MANAGER", "ADMIN"}
Supervisors == {"MANAGER", "ADMIN"}
Cashiers == {"CASHIER"} \cup Supervisors

SessionEntries == {"Buy-in", "Cash-out"}
DealerEntries == {"Rake", "Tips", "Insurance Premium", "Insurance Payout",
                  "Jackpot Contribution", "Jackpot Payout"}
CashPayouts == {"Insurance Payout", "Jackpot Payout", "Cash Payout"}
Payouts == {"Cash-out"} \cup CashPayouts
EntryTypes == SessionEntries \cup DealerEntries
              \cup {"Cash Received", "Cash Payout", "Credit Repayment"}
TxTypes == EntryTypes \cup {"Reversal"}

\* The venue settings that switch entry types and credit on and off.
Features == {"tips", "rake", "insurance", "jackpot", "credit"}
RequiredFeatures(type) ==
    CASE type = "Tips" -> {"tips"}
      [] type = "Rake" -> {"rake"}
      [] type \in {"Insurance Premium", "Insurance Payout"} -> {"insurance"}
      [] type \in {"Jackpot Contribution", "Jackpot Payout"} -> {"jackpot"}
      [] OTHER -> {}

-----------------------------------------------------------------------------
(* policy(): the review level a request is given when it is made.          *)

ApprovalLevels == {"MANAGER", "ADMIN", "DUAL"}

\* Mutants: the payout types are forgotten; dealer entries get a level of their own.
PolicyWithCashierReview(type, amount) ==
    IF type \in DealerEntries THEN "CASHIER" ELSE "ADMIN"
PolicyByAmountOnly(type, amount) ==
    IF amount >= DualThreshold THEN "DUAL"
    ELSE IF amount >= AdminThreshold THEN "ADMIN"
    ELSE "MANAGER"

Policy(type, amount) ==
    IF amount >= DualThreshold THEN "DUAL"
    ELSE IF amount >= AdminThreshold \/ type \in Payouts \cup {"Reversal"} THEN "ADMIN"
    ELSE "MANAGER"

-----------------------------------------------------------------------------
(* ledgerImpact(): what posting an entry does.                             *)

Impact(amount, received, payout, credit) ==
    [amount |-> amount, cashReceived |-> received,
     cashPayout |-> payout, creditDelta |-> credit]

Smaller(a, b) == IF a <= b THEN a ELSE b

\* `credit` says whether the player is a CREDIT player, `owed` is his debt.
EntryImpact(type, amount, credit, owed) ==
    IF type = "Buy-in" /\ credit THEN Impact(amount, 0, 0, amount)
    ELSE IF type = "Cash-out"
         THEN LET settled == IF credit THEN Smaller(owed, amount) ELSE 0
              IN  Impact(amount, 0, amount - settled, -settled)
    ELSE IF type = "Credit Repayment" THEN Impact(amount, amount, 0, -amount)
    ELSE IF type \in CashPayouts THEN Impact(amount, 0, amount, 0)
    ELSE Impact(amount, amount, 0, 0)

\* Mutant: a reversal hands the cash back and leaves the credit standing.
ReversalWithoutCredit(tx) ==
    Impact(-tx.amount, -tx.cashReceived, -tx.cashPayout, 0)

ReversalImpact(tx) ==
    Impact(-tx.amount, -tx.cashReceived, -tx.cashPayout, -tx.creditDelta)

-----------------------------------------------------------------------------
(* settings.ts: venue rules, the overrides of a table, and their checks.   *)

RuleFields == {"smallBlind", "bigBlind", "minBuyIn", "maxBuyIn", "buyInStep"}

\* A table's overrides are a partial function; the venue supplies the rest.
EffectiveRules(venue, overrides) ==
    [f \in RuleFields |-> IF f \in DOMAIN overrides THEN overrides[f] ELSE venue[f]]

\* Math.ceil(a / b) for naturals.
CeilDiv(a, b) == (a + b - 1) \div b

\* Mutant: the first multiple of the step is not compared with the maximum.
RulesConsistentAnyStep(rules) ==
    /\ rules["smallBlind"] <= rules["bigBlind"]
    /\ rules["minBuyIn"] <= rules["maxBuyIn"]

RulesConsistent(rules) ==
    LET step == rules["buyInStep"]
        low  == IF rules["minBuyIn"] = 0 THEN 1 ELSE rules["minBuyIn"]
    IN  /\ rules["smallBlind"] <= rules["bigBlind"]
        /\ rules["minBuyIn"] <= rules["maxBuyIn"]
        /\ step > 0 => CeilDiv(low, step) * step <= rules["maxBuyIn"]

\* tableRuleIssue() reports nothing: both blinds or neither, and consistent rules.
TableRulesOK(venue, overrides) ==
    /\ "smallBlind" \in DOMAIN overrides <=> "bigBlind" \in DOMAIN overrides
    /\ RulesConsistent(EffectiveRules(venue, overrides))

\* The range and step a buy-in must follow at a table.
BuyInAllowed(rules, amount) ==
    /\ rules["minBuyIn"] <= amount
    /\ amount <= rules["maxBuyIn"]
    /\ rules["buyInStep"] > 0 => amount % rules["buyInStep"] = 0
=============================================================================
