--------------------------- MODULE ShowingPayouts ---------------------------
(***************************************************************************)
(* What happens to the payout of a showing after TourWorkflow created it:  *)
(* the fee it was created with, its approval and payment, and the monthly  *)
(* batches (convex/showingPayouts.ts, resolveFixedFee of                   *)
(* convex/lib/assignmentRouting.ts).  Assignments are named by a number,   *)
(* and a payout by its assignment: there is one for each (PaidExactlyOnce).*)
(***************************************************************************)
EXTENDS Naturals, Sequences

CONSTANTS
  Showings,     \* assignments that are completed at some point
  AgentOf,      \* the agent of each
  Fees,         \* amounts, positive; DefaultFee is DEFAULT_SHOWAMI_FEE
  DefaultFee,
  MaxConfigs, MaxMonth, MaxNotes   \* bounds

ASSUME PayoutsAssumption ==
  /\ Fees \subseteq Nat \ {0} /\ DefaultFee \in Fees
  /\ {MaxConfigs, MaxNotes} \subseteq Nat /\ MaxMonth \in Nat \ {0}

Unpaid == 0                     \* a fee of a payout or an agent that has no row
Unbatched == 0
Months == 1 .. MaxMonth
AgentsPaid == {AgentOf[s] : s \in Showings}

\* showingPayoutFeeConfigs; only the geographies that match the property of
\* the showings are told apart, most specific first.
Geographies == <<"zip", "county", "statewide">>
FeeConfig == [geographyType : {"zip", "county", "statewide"}, feeAmount : Fees,
              isActive : BOOLEAN]
Payout == [payoutStatus : {"pending", "approved", "paid"}, feeAmount : Fees,
           completedAt : Months, batchMonth : Months \cup {Unbatched}]
NoPayout == [payoutStatus |-> "none"]
PayoutActions == {"created", "approved", "paid", "batched", "batch ran"}

VARIABLES
  coverageFee,  \* agentCoverage.fixedFeePerShowing, Unpaid without coverage
  feeConfigs,   \* by age
  payoutRows,   \* showingPayouts, with completedAt of the assignment
  payoutAudit   \* auditLog of each payout, with the runs of its month's batch

payoutVars == <<coverageFee, feeConfigs, payoutRows, payoutAudit>>

Owed == {s \in Showings : payoutRows[s] # NoPayout}
Note(s, action) == payoutAudit' = [payoutAudit EXCEPT ![s] = Append(@, action)]
-----------------------------------------------------------------------------
\* The agent's own fee, else the oldest active configuration of the most
\* specific geography, else the default.
ResolveFixedFee(agent) ==
  LET Active(g) == {i \in DOMAIN feeConfigs : /\ feeConfigs[i].isActive
                                              /\ feeConfigs[i].geographyType = Geographies[g]}
      Found == {g \in 1 .. 3 : Active(g) # {}}
      First(S) == CHOOSE i \in S : \A k \in S : i <= k
  IN IF coverageFee[agent] # Unpaid THEN coverageFee[agent]
     ELSE IF Found = {} THEN DefaultFee ELSE feeConfigs[First(Active(First(Found)))].feeAmount

\* createPayoutObligationCore, when the assignment is completed.  The month of
\* its completion is now, or one that Showami reports: earlier, or even later.
CreatePayoutObligationCore(s, completed) ==
  /\ payoutRows[s] = NoPayout
  /\ payoutRows' = [payoutRows EXCEPT ![s] =
       [payoutStatus |-> "pending", feeAmount |-> ResolveFixedFee(AgentOf[s]),
        completedAt |-> completed, batchMonth |-> Unbatched]]
  /\ Note(s, "created")
  /\ UNCHANGED <<coverageFee, feeConfigs>>

SaveFeeConfig(i, config) ==
  /\ feeConfigs' = IF i \in DOMAIN feeConfigs
                     THEN [feeConfigs EXCEPT ![i] = config]
                     ELSE Append(feeConfigs, config)
  /\ Len(feeConfigs') <= MaxConfigs
  /\ UNCHANGED <<coverageFee, payoutRows, payoutAudit>>

\* agentCoverage.ts: onboardAgent and updateCoverage.
SetCoverageFee(agent, fee) ==
  /\ coverageFee' = [coverageFee EXCEPT ![agent] = fee]
  /\ UNCHANGED <<feeConfigs, payoutRows, payoutAudit>>

MovePayout(s, from, next) ==
  /\ s \in Owed
  /\ payoutRows[s].payoutStatus = from
  /\ payoutRows' = [payoutRows EXCEPT ![s].payoutStatus = next]
  /\ Note(s, next)
  /\ UNCHANGED <<coverageFee, feeConfigs>>

ApprovePayout(s) == MovePayout(s, "pending", "approved")
MarkPayoutPaid(s) == MovePayout(s, "approved", "paid")

\* Mutant: a payout is batched again in the month it is asked for again.
Included_Again(m) ==
  {s \in Owed : /\ payoutRows[s].payoutStatus \in {"pending", "approved"}
                /\ payoutRows[s].completedAt = m}

Included(m) ==
  {s \in Owed : /\ payoutRows[s].payoutStatus \in {"pending", "approved"}
                /\ payoutRows[s].batchMonth = Unbatched
                /\ payoutRows[s].completedAt = m}

\* The log also shows the runs that found nothing to include.
GenerateMonthlyBatch(m) ==
  /\ \A s \in Owed : Len(payoutAudit[s]) < MaxNotes
  /\ payoutRows' = [s \in Showings |->
       IF s \in Included(m) THEN [payoutRows[s] EXCEPT !.batchMonth = m]
                            ELSE payoutRows[s]]
  /\ payoutAudit' = [s \in Showings |->
       CASE s \in Included(m) -> Append(Append(payoutAudit[s], "batch ran"), "batched")
         [] s \in Owed \ Included(m) /\ payoutRows[s].completedAt = m
              -> Append(payoutAudit[s], "batch ran")
         [] OTHER -> payoutAudit[s]]
  /\ UNCHANGED <<coverageFee, feeConfigs>>

-----------------------------------------------------------------------------
PayoutInit ==
  /\ coverageFee = [g \in AgentsPaid |-> Unpaid]
  /\ feeConfigs = <<>>
  /\ payoutRows = [s \in Showings |-> NoPayout]
  /\ payoutAudit = [s \in Showings |-> <<>>]

PayoutNext ==
  \/ \E s \in Showings :
       \/ \E completed \in Months : CreatePayoutObligationCore(s, completed)
       \/ ApprovePayout(s) \/ MarkPayoutPaid(s)
  \/ \E i \in 1 .. MaxConfigs, config \in FeeConfig : SaveFeeConfig(i, config)
  \/ \E agent \in AgentsPaid, fee \in Fees : SetCoverageFee(agent, fee)
  \/ \E m \in Months : GenerateMonthlyBatch(m)

PayoutSpec == PayoutInit /\ [][PayoutNext]_payoutVars
-----------------------------------------------------------------------------
PayoutTypeOK ==
  /\ coverageFee \in [AgentsPaid -> Fees \cup {Unpaid}]
  /\ feeConfigs \in Seq(FeeConfig)
  /\ payoutRows \in [Showings -> Payout \cup {NoPayout}]
  /\ payoutAudit \in [Showings -> Seq(PayoutActions)]

At(trail, action) == {i \in DOMAIN trail : trail[i] = action}
InTime(trail) == \E i \in At(trail, "batch ran") : \A k \in At(trail, "paid") : i < k

(***************************************************************************)
(* Every payout is created, approved and paid once each and in that order, *)
(* and is in one batch at most, the one of the month of its showing.  It is*)
(* in none just when no batch of that month was run between its creation   *)
(* and its payment: neither an early batch, nor one of another month, nor  *)
(* one run twice, loses it or counts it twice.                             *)
(***************************************************************************)
PaidInOrder(row, trail) ==
  /\ \A action \in PayoutActions \ {"batch ran"} : \A i, k \in At(trail, action) : i = k
  /\ 1 \in At(trail, "created")
  /\ At(trail, "approved") # {} <=> row.payoutStatus \in {"approved", "paid"}
  /\ At(trail, "paid") # {} <=> row.payoutStatus = "paid"
  /\ \A i \in At(trail, "approved"), k \in At(trail, "paid") : i < k
  /\ At(trail, "batched") # {} <=> InTime(trail)
  /\ row.batchMonth = IF InTime(trail) THEN row.completedAt ELSE Unbatched

PayoutTrailTrue == PayoutTypeOK /\ \A s \in Owed : PaidInOrder(payoutRows[s], payoutAudit[s])

\* An agent's own fee counts before every configuration, and no active
\* configuration of a more specific geography is passed over.
FeesMostSpecific ==
  \A agent \in AgentsPaid :
    LET fee == ResolveFixedFee(agent)
        Rank(i) == CHOOSE g \in 1 .. 3 : Geographies[g] = feeConfigs[i].geographyType
        Live == {i \in DOMAIN feeConfigs : feeConfigs[i].isActive}
    IN \/ coverageFee[agent] # Unpaid /\ fee = coverageFee[agent]
       \/ coverageFee[agent] = Unpaid /\ Live = {} /\ fee = DefaultFee
       \/ /\ coverageFee[agent] = Unpaid
          /\ \E i \in Live : /\ feeConfigs[i].feeAmount = fee
                             /\ \A k \in Live : Rank(i) <= Rank(k)

PayoutsSound == PayoutTrailTrue /\ FeesMostSpecific
=============================================================================
