-------------------------- MODULE CompensationLedger --------------------------
(***************************************************************************)
(* The fees of one deal room: the append-only ledger and the compensation  *)
(* status (convex/ledger.ts), the reconciliation reports                   *)
(* (convex/reconciliation.ts), the sums both are made of                   *)
(* (packages/shared/src/contracts.ts) and the lender checks that take      *)
(* their closing credit from the ledger (convex/lenderCreditValidation.ts, *)
(* convex/lib/lenderCreditValidate.ts).                                    *)
(***************************************************************************)
EXTENDS Integers, Sequences, Functions

CONSTANTS
  Amounts,      \* amounts of entries, in dollars
  Threshold,    \* DISCREPANCY_THRESHOLD
  Price,        \* the purchase price, a multiple of 100
  Credits,      \* credits typed in for a lender check
  Scopes,       \* the offers of the room, and the room itself
  MaxEntries, MaxReports, MaxValidations   \* bounds

ASSUME LedgerAssumption ==
  /\ Amounts \subseteq Int /\ Credits \subseteq Nat /\ 0 \in Credits
  /\ {Threshold, Price, MaxEntries, MaxReports, MaxValidations} \subseteq Nat

Buckets == {"projected", "actual"}
Dimensions == {"expectedBuyerFee", "sellerPaidAmount", "buyerPaidAmount",
               "projectedClosingCredit"}
CompensationStatuses == {"none", "unknown", "seller_disclosed_off_mls",
                         "negotiated_in_offer", "buyer_paid"}
FinancingTypes == {"cash", "conventional", "fha", "va", "other"}
Unknown == 0                      \* an LTV that is undefined
Ltvs == {Unknown, 75, 76, 90, 91} \* in percent, at the edges of the tiers

Entry == [bucket : Buckets, dimension : Dimensions, amount : Amounts]
Report == [fields : [amount : Int, flag : BOOLEAN, dimensions : SUBSET Dimensions],
           over : Nat,   \* the entries it was made from
           reviewStatus : {"pending", "reviewed", "resolved"}]
Validation == [scope : Scopes, reviewDecision : {"none", "approved", "rejected"},
               outcome : {"valid", "invalid", "review_required"}]

VARIABLES
  entries,       \* feeLedgerEntries, by age
  compensation,  \* compensationStatus.status, "none" without a row
  reports,       \* reconciliationReports, by age
  validations    \* lenderCreditValidations, by age

ledgerVars == <<entries, compensation, reports, validations>>
-----------------------------------------------------------------------------
(* Sums over the ledger. *)
Dollars(n) == IF n < 0 THEN -n ELSE n

RollupEntries(rows, bucket) ==   \* rollupBuyerFeeLedgerEntries
  [d \in Dimensions |->
     SumFunction([i \in DOMAIN rows |->
                    IF rows[i].bucket = bucket /\ rows[i].dimension = d
                      THEN rows[i].amount ELSE 0])]

\* Mutant: the sum over the dimensions is held against the threshold.
Reconcile_Total(expected, actual) ==
  LET Delta(d) == Dollars(actual[d] - expected[d])
      amount == SumFunction([d \in Dimensions |-> Delta(d)])
  IN [amount |-> amount, flag |-> amount > Threshold,
      dimensions |-> {d \in Dimensions : Delta(d) > Threshold}]

Reconcile(expected, actual) ==   \* reconcileBuyerFeeLedger
  LET Delta(d) == Dollars(actual[d] - expected[d])
      over == {d \in Dimensions : Delta(d) > Threshold}
  IN [amount |-> SumFunction([d \in Dimensions |-> Delta(d)]),
      flag |-> over # {}, dimensions |-> over]

\* A report without actual entries flags nothing.
BuildReportFields(rows) ==
  IF \E i \in DOMAIN rows : rows[i].bucket = "actual"
    THEN Reconcile(RollupEntries(rows, "projected"), RollupEntries(rows, "actual"))
    ELSE [amount |-> 0, flag |-> FALSE, dimensions |-> {}]
-----------------------------------------------------------------------------
(* What a lender accepts, in percent of the price. *)
IpcLimit(financing, ltv) ==      \* computeIpcLimitPercent
  CASE financing = "cash" -> 0
    [] financing = "va" -> 4
    [] financing = "conventional" /\ ltv > 90 -> 3
    [] financing = "conventional" /\ ltv \in 1 .. 75 -> 9
    [] OTHER -> 6

\* The first case that applies decides.
ValidateLenderCredit(financing, ltv, total) ==
  LET cap == IpcLimit(financing, ltv) * Price   \* both times one hundred
      unclear == financing = "other" \/ (financing = "conventional" /\ ltv = Unknown)
  IN IF financing = "cash" THEN "valid"
     ELSE IF unclear THEN "review_required"
     ELSE IF total * 100 > cap THEN "invalid"
     ELSE IF \/ cap - total * 100 < 2 * Price
             \/ financing = "conventional" /\ ltv <= 75 /\ total * 100 > 6 * Price
       THEN "review_required"
     ELSE "valid"
-----------------------------------------------------------------------------
(* The mutations. *)
CreateEntry(entry) ==
  /\ Len(entries) < MaxEntries
  /\ entries' = Append(entries, entry)
  /\ UNCHANGED <<compensation, reports, validations>>

InitializeCompensationStatus ==
  /\ compensation = "none"
  /\ compensation' = "unknown"
  /\ UNCHANGED <<entries, reports, validations>>

TransitionGraph == [none |-> {},
                    unknown |-> {"seller_disclosed_off_mls", "negotiated_in_offer",
                                 "buyer_paid"},
                    seller_disclosed_off_mls |-> {"negotiated_in_offer", "buyer_paid"},
                    negotiated_in_offer |-> {"buyer_paid"},
                    buyer_paid |-> {}]

TransitionCompensationStatus(newStatus) ==
  /\ newStatus \in TransitionGraph[compensation]
  /\ compensation' = newStatus
  /\ UNCHANGED <<entries, reports, validations>>

\* generatePostCloseReport, and one round of generateMonthlyReport.
InsertReport ==
  /\ Len(reports) < MaxReports
  /\ reports' = Append(reports,
       [fields |-> BuildReportFields(entries), over |-> Len(entries),
        reviewStatus |-> "pending"])
  /\ UNCHANGED <<entries, compensation, validations>>

ReviewDiscrepancy(i, status) ==
  /\ reports' = [reports EXCEPT ![i].reviewStatus = status]
  /\ UNCHANGED <<entries, compensation, validations>>

\* computeAndPersist: the closing credit is the one given or the ledger's.
ComputeAndPersist(scope, financing, ltv, credits, useLedger) ==
  /\ Len(validations) < MaxValidations
  /\ LET closing == IF useLedger
                      THEN RollupEntries(entries, "projected")["projectedClosingCredit"]
                      ELSE 0
     IN validations' = Append(validations,
          [scope |-> scope, reviewDecision |-> "none",
           outcome |-> ValidateLenderCredit(financing, ltv, credits + closing)])
  /\ UNCHANGED <<entries, compensation, reports>>

\* Also a row that a newer one has replaced can be decided, and again.
ReviewDecision(i, decision) ==
  /\ validations[i].outcome = "review_required"
  /\ validations' = [validations EXCEPT ![i].reviewDecision = decision]
  /\ UNCHANGED <<entries, compensation, reports>>

\* getPendingReview.
LatestForScope(i) ==
  \A k \in DOMAIN validations : validations[k].scope = validations[i].scope => k <= i
GetPendingReview ==
  {i \in DOMAIN validations : /\ validations[i].outcome = "review_required"
                              /\ validations[i].reviewDecision = "none"
                              /\ LatestForScope(i)}
-----------------------------------------------------------------------------
LedgerInit ==
  entries = <<>> /\ compensation = "none" /\ reports = <<>> /\ validations = <<>>

LedgerNext ==
  \/ \E entry \in Entry : CreateEntry(entry)
  \/ InitializeCompensationStatus
  \/ \E status \in CompensationStatuses : TransitionCompensationStatus(status)
  \/ InsertReport
  \/ \E i \in DOMAIN reports, status \in {"reviewed", "resolved"} :
       ReviewDiscrepancy(i, status)
  \/ \E scope \in Scopes, financing \in FinancingTypes, ltv \in Ltvs,
        credits \in Credits, useLedger \in BOOLEAN :
       ComputeAndPersist(scope, financing, ltv, credits, useLedger)
  \/ \E i \in DOMAIN validations, decision \in {"approved", "rejected"} :
       ReviewDecision(i, decision)

LedgerSpec == LedgerInit /\ [][LedgerNext]_ledgerVars
-----------------------------------------------------------------------------
LedgerTypeOK ==
  /\ entries \in Seq(Entry) /\ Len(entries) <= MaxEntries
  /\ compensation \in CompensationStatuses
  /\ reports \in Seq(Report) /\ Len(reports) <= MaxReports
  /\ validations \in Seq(Validation) /\ Len(validations) <= MaxValidations

(***************************************************************************)
(* Every report still says what the ledger said when it was made: a        *)
(* dimension is named when and only when its actual and projected entries  *)
(* up to then differ by more than the threshold, corrections included, and *)
(* the report is flagged just when it names one, so that no sum of small   *)
(* differences and no cancelling pair raises or hides a flag.              *)
(***************************************************************************)
ReportsTrue ==
  \A i \in DOMAIN reports :
    LET Of(bucket, d) == {k \in 1 .. reports[i].over :
                            entries[k].bucket = bucket /\ entries[k].dimension = d}
        amounts == [k \in DOMAIN entries |-> entries[k].amount]
        Total(bucket, d) == SumFunctionOnSet(amounts, Of(bucket, d))
        apart == {d \in Dimensions :
                    Dollars(Total("actual", d) - Total("projected", d)) > Threshold}
        closed == \E d \in Dimensions : Of("actual", d) # {}
    IN /\ reports[i].fields.dimensions = IF closed THEN apart ELSE {}
       /\ reports[i].fields.flag = (closed /\ apart # {})

\* More credits never make a lender check come out better, and nor does a
\* higher loan-to-value ratio.
LenderCheckMonotone ==
  LET Rank == [valid |-> 0, review_required |-> 1, invalid |-> 2]
      Percents == {n * (Price \div 100) : n \in 0 .. 10}
      Outcome(f, ltv, total) == Rank[ValidateLenderCredit(f, ltv, total)]
  IN \A f \in FinancingTypes, s, t \in Percents, l, m \in Ltvs :
       /\ s <= t => Outcome(f, l, s) <= Outcome(f, l, t)
       /\ (Unknown < l /\ l <= m) => Outcome(f, l, s) <= Outcome(f, m, s)

LedgerSound == LedgerTypeOK /\ ReportsTrue /\ LenderCheckMonotone
=============================================================================
