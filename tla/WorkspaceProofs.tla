---------------------------- MODULE WorkspaceProofs ----------------------------
(***************************************************************************)
(* Proofs about what buyers and brokers look at beside the transaction:    *)
(* the case of a property, the strategy for an offer, the negotiation      *)
(* briefs, the advice of a room, the desk of the staff and what it is told *)
(* of showings, and what is remembered of a buyer.  Each is proved of its  *)
(* component's own specification, and then of MCWorkspace.                 *)
(***************************************************************************)
EXTENDS MCWorkspace, FiniteFacts

-----------------------------------------------------------------------------
(***************************************************************************)
(* THE CASE OF A PROPERTY.  The inductive invariant adds that the inputs   *)
(* of a case are outputs that are still there, of the types they stand for.*)
(***************************************************************************)
Outputs == [type : Types, level : Levels, review : Reviews]
CaseRows == [room : Rooms, inputs : Inputs, version : SynthesisVersions]

\* An output keeps its type and its place, so what a case was made of stays there.
InputsAreThere ==
  \A i \in DOMAIN cases : \A t \in Types :
    cases[i].inputs[t] # 0 =>
      cases[i].inputs[t] \in DOMAIN cited /\ cited[cases[i].inputs[t]].type = t

CasesIInv == CasesTypeOK /\ OneRowPerInputs /\ InputsAreThere

LEMMA NewestIs ==
  ASSUME CasesTypeOK, NEW type, NEW upTo \in Nat
  PROVE  /\ Newest(type, upTo) \in 0 .. upTo /\ Newest(type, upTo) \in 0 .. Len(cited)
         /\ Newest(type, upTo) # 0 => Newest(type, upTo) \in OfType(type)
         /\ Newest(type, upTo) = 0 => \A i \in OfType(type) : i > upTo
<1> DEFINE mine == {i \in OfType(type) : i <= upTo}
<1>1. mine \subseteq 1 .. Len(cited) /\ Len(cited) \in Nat
  BY DEF CasesTypeOK, OfType
<1>2. Newest(type, upTo) = IF mine = {} THEN 0 ELSE CHOOSE i \in mine : \A k \in mine : k <= i
  BY DEF Newest
<1>3. \A i \in OfType(type) : i \in Nat
  BY <1>1 DEF CasesTypeOK, OfType
<1>4. CASE mine = {}
  BY <1>1, <1>2, <1>3, <1>4
<1>5. CASE mine # {}
  <2>1. Newest(type, upTo) \in mine
    <3> HIDE DEF mine
    <3> QED
      BY <1>1, <1>2, <1>5, LastOf
  <2> QED
    BY <1>1, <2>1
<1> QED
  BY <1>4, <1>5

LEMMA OldestIs ==
  ASSUME CasesTypeOK, NEW type
  PROVE  /\ Oldest(type) # 0 => Oldest(type) \in OfType(type)
         /\ Oldest(type) = 0 => OfType(type) = {}
<1>1. OfType(type) \subseteq 1 .. Len(cited) /\ Len(cited) \in Nat
  BY DEF CasesTypeOK, OfType
<1>2. OfType(type) # {} =>
        Oldest(type) = (CHOOSE i \in OfType(type) : \A k \in OfType(type) : i <= k)
  BY DEF Oldest
<1>3. OfType(type) # {} => Oldest(type) \in OfType(type)
  BY <1>1, <1>2, FirstOf
<1>4. OfType(type) = {} => Oldest(type) = 0
  BY DEF Oldest
<1> QED
  BY <1>1, <1>3, <1>4

LEMMA LatestIs ==
  ASSUME CasesIInv, NEW dealRoom, HasCase(dealRoom)
  PROVE  \E i \in DOMAIN cases : LatestCase(dealRoom) = cases[i] /\ cases[i].room = dealRoom
<1>1. CasesOf(dealRoom) \subseteq 1 .. Len(cases) /\ Len(cases) \in Nat /\ CasesOf(dealRoom) # {}
  BY DEF CasesIInv, CasesTypeOK, CasesOf, HasCase
<1>2. (CHOOSE i \in CasesOf(dealRoom) : \A k \in CasesOf(dealRoom) : k <= i) \in CasesOf(dealRoom)
  BY <1>1, LastOf
<1> QED
  BY <1>2 DEF LatestCase, CasesOf
-----------------------------------------------------------------------------
\* What is shown, in one state.

LEMMA ShownAreBacked ==
  ASSUME CasesIInv
  PROVE  ClaimsBacked
<1> SUFFICES ASSUME NEW dealRoom \in Rooms, NEW t \in ShownClaims(dealRoom)
             PROVE  /\ cited[LatestCase(dealRoom).inputs[t]].review # "rejected"
                    /\ cited[Newest(t, Len(cited))].review = "approved"
  BY DEF ClaimsBacked
<1>1. CasesTypeOK /\ Len(cited) \in Nat /\ cited \in Seq(Outputs)
  BY DEF CasesIInv, CasesTypeOK, Outputs
<1>2. HasCase(dealRoom) /\ t \in Claims(LatestCase(dealRoom).inputs)
      /\ Coverage(dealRoom, t) = "available" /\ ~HeldBack(LatestCase(dealRoom).inputs[t])
  BY DEF ShownClaims
<1>3. t # "offer"
  BY <1>2 DEF Claims
<1>4. cited[LatestCase(dealRoom).inputs[t]].review # "rejected"
  <2>1. PICK i : i = LatestCase(dealRoom).inputs[t]
    OBVIOUS
  <2>2. ~HeldBack(i)
    BY <1>2, <2>1
  <2>3. cited[i].review # "rejected"
    BY <2>2 DEF HeldBack, Guardrail
  <2> QED
    BY <2>1, <2>3
<1>5. cited[Newest(t, Len(cited))].review = "approved"
  <2>1. PICK i : i = Newest(t, Len(cited))
    OBVIOUS
  <2>2. i # 0 /\ cited[i].review # "pending" /\ cited[i].review # "rejected"
    BY <1>2, <1>3, <2>1 DEF Coverage
  <2>3. i \in DOMAIN cited
    BY <1>1, <2>1, <2>2, NewestIs DEF OfType
  <2>4. cited[i] \in Outputs
    BY <1>1, <2>3
  <2> QED
    BY <2>1, <2>2, <2>4 DEF Outputs, Reviews
<1> QED
  BY <1>4, <1>5

LEMMA ActionsAreGuarded ==
  ASSUME CasesIInv
  PROVE  ActionGuarded
<1> SUFFICES ASSUME NEW dealRoom \in Rooms, ShowsAction(dealRoom), ~Withheld(dealRoom)
             PROVE  /\ cited[Oldest("offer")].review = "approved"
                    /\ dealRoom \in live \/ cited[Newest("offer", Len(cited))].review = "approved"
                    /\ dossier # "conflicting"
  BY DEF ActionGuarded
<1>1. CasesTypeOK /\ Len(cited) \in Nat /\ cited \in Seq(Outputs)
  BY DEF CasesIInv, CasesTypeOK, Outputs
<1>2. HasCase(dealRoom) /\ LatestCase(dealRoom).inputs["offer"] # 0
      /\ Coverage(dealRoom, "offer") = "available" /\ ~OfferHeldBack
  BY DEF ShowsAction, Recommends
<1>3. OfType("offer") # {}
  <2>1. PICK i \in DOMAIN cases : LatestCase(dealRoom) = cases[i]
    BY <1>2, LatestIs
  <2>2. "offer" \in Types
    BY CasesAssumption
  <2>3. cases[i].inputs["offer"] \in DOMAIN cited /\ cited[cases[i].inputs["offer"]].type = "offer"
    BY <1>2, <2>1, <2>2 DEF CasesIInv, InputsAreThere
  <2> QED
    BY <2>3 DEF OfType
<1>4. cited[Oldest("offer")].review = "approved"
  <2>1. Oldest("offer") # 0 /\ Oldest("offer") \in OfType("offer")
    BY <1>1, <1>3, OldestIs
  <2>2. PICK i : i = Oldest("offer")
    OBVIOUS
  <2>3. i \in DOMAIN cited /\ cited[i].type = "offer"
    BY <2>1, <2>2 DEF OfType
  <2>4. cited[i] \in Outputs
    BY <1>1, <2>3
  <2>5. ~HeldBack(i)
    BY <1>2, <2>1, <2>2 DEF OfferHeldBack
  <2>6. cited[i].review = "approved"
    BY <2>3, <2>4, <2>5 DEF HeldBack, Guardrail, Outputs, Reviews
  <2> QED
    BY <2>2, <2>6
<1>5. ASSUME dealRoom \notin live
      PROVE  cited[Newest("offer", Len(cited))].review = "approved"
  <2>1. PICK i : i = Newest("offer", Len(cited))
    OBVIOUS
  <2>2. i # 0 /\ cited[i].review # "pending" /\ cited[i].review # "rejected"
    BY <1>2, <1>5, <2>1 DEF Coverage
  <2>3. i \in DOMAIN cited
    BY <1>1, <2>1, <2>2, NewestIs DEF OfType
  <2>4. cited[i] \in Outputs
    BY <1>1, <2>3
  <2> QED
    BY <2>1, <2>2, <2>4 DEF Outputs, Reviews
<1>6. dossier # "conflicting"
  BY <1>2 DEF Withheld, RecommendationState
<1> QED
  BY <1>4, <1>5, <1>6

LEMMA ReadyViewsAreComplete ==
  ASSUME CasesIInv
  PROVE  ReadyIsComplete
<1> SUFFICES ASSUME NEW dealRoom \in Rooms, ViewState(dealRoom) = "ready"
             PROVE  /\ \A t \in Types : Coverage(dealRoom, t) = "available"
                    /\ Dropped(LatestCase(dealRoom).inputs) = {}
                    /\ Recommends(LatestCase(dealRoom).inputs) => ShowsAction(dealRoom)
  BY DEF ReadyIsComplete
<1>1. HasCase(dealRoom) /\ MissingStates(dealRoom) = {}
  BY DEF ViewState
<1> DEFINE dropped == IF HasCase(dealRoom) THEN Dropped(LatestCase(dealRoom).inputs) ELSE {}
           out == dropped \cup {s \in Types : Coverage(dealRoom, s) # "available"}
           told == {x \in {TRUE} : /\ HasCase(dealRoom) /\ Recommends(LatestCase(dealRoom).inputs)
                                   /\ ~ShowsAction(dealRoom) /\ OfferHeldBack}
<1>2. out = {} /\ told = {}
  BY <1>1, ZenonT(60) DEF MissingStates
<1>3. \A t \in Types : Coverage(dealRoom, t) = "available"
  BY <1>2
<1>4. Dropped(LatestCase(dealRoom).inputs) = {}
  BY <1>1, <1>2
<1>5. Recommends(LatestCase(dealRoom).inputs) => ShowsAction(dealRoom)
  <2>1. Coverage(dealRoom, "offer") = "available"
    BY <1>3, CasesAssumption
  <2>2. Recommends(LatestCase(dealRoom).inputs) /\ ~ShowsAction(dealRoom) => ~OfferHeldBack
    BY <1>1, <1>2
  <2> QED
    BY <1>1, <2>1, <2>2 DEF ShowsAction
<1> QED
  BY <1>3, <1>4, <1>5

LEMMA InferenceIsSaid ==
  ASSUME CasesIInv
  PROVE  InferenceSaid
<1>1. dossier \in {NoDossier} \cup Evidence
  BY DEF CasesIInv, CasesTypeOK
<1>2. Guardrail(Oldest("offer")) # "ready"
  BY DEF Guardrail
<1> QED
  BY <1>1, <1>2 DEF InferenceSaid, RecommendationState, Evidence, NoDossier
-----------------------------------------------------------------------------
(* Steps *)

\* The cases keep to one per inputs, and to inputs that are there.
CasesKeep(rows) ==
  /\ rows \in Seq(CaseRows)
  /\ \A i, k \in DOMAIN rows : rows[i].inputs = rows[k].inputs => i = k
  /\ \A i \in DOMAIN rows : \A t \in Types :
       rows[i].inputs[t] # 0 =>
         rows[i].inputs[t] \in DOMAIN cited /\ cited[rows[i].inputs[t]].type = t

LEMMA CasesStay ==
  ASSUME CasesIInv, cited' = cited, live' = live, dossier' = dossier, CasesKeep(cases')
  PROVE  CasesIInv'
BY DEF CasesIInv, CasesTypeOK, OneRowPerInputs, InputsAreThere, CasesKeep, CaseRows, OfType

LEMMA UpsertKeeps ==
  ASSUME CasesIInv, NEW dealRoom \in Rooms, NEW upTo \in 0 .. MaxOutputs,
         NEW version \in SynthesisVersions, UpsertCase(dealRoom, upTo, version)
  PROVE  CasesIInv'
<1> DEFINE inputs == ReadInputs(upTo)
           row == [room |-> dealRoom, inputs |-> inputs, version |-> version]
           kept == IF Stored(inputs) = {} THEN cases
                   ELSE RemoveAt(cases, CHOOSE i \in Stored(inputs) : TRUE)
<1>1. CasesTypeOK /\ cases \in Seq(CaseRows) /\ CasesKeep(cases)
  BY DEF CasesIInv, CasesTypeOK, CaseRows, CasesKeep, OneRowPerInputs, InputsAreThere
<1>2. inputs \in Inputs
  <2>1. MaxOutputs \in Nat /\ upTo \in Nat
    BY CasesAssumption
  <2>2. \A t \in Types : Newest(t, upTo) \in 0 .. MaxOutputs
    <3> TAKE t \in Types
    <3>1. Newest(t, upTo) \in 0 .. upTo
      BY <1>1, <2>1, NewestIs
    <3> QED
      BY <2>1, <3>1
  <2> QED
    BY <2>2 DEF ReadInputs, Inputs
<1>3. \A t \in Types : inputs[t] # 0 => inputs[t] \in DOMAIN cited /\ cited[inputs[t]].type = t
  <2> TAKE t \in Types
  <2>1. inputs[t] = Newest(t, upTo) /\ upTo \in Nat
    BY CasesAssumption DEF ReadInputs
  <2> QED
    BY <1>1, <2>1, NewestIs DEF OfType
<1>4. row \in CaseRows /\ row.inputs = inputs
  BY <1>2 DEF CaseRows
<1>5. /\ cited' = cited /\ live' = live /\ dossier' = dossier
      /\ cases' = cases \/ cases' = Append(kept, row)
  BY DEF UpsertCase
<1> HIDE DEF inputs
<1>6. CasesKeep(kept) /\ \A i \in DOMAIN kept : kept[i].inputs # inputs
  <2>1. CASE Stored(inputs) = {}
    BY <1>1, <2>1 DEF Stored
  <2>2. CASE Stored(inputs) # {}
    <3>1. PICK i : i = CHOOSE k \in Stored(inputs) : TRUE
      OBVIOUS
    <3>2. i \in DOMAIN cases /\ cases[i].inputs = inputs /\ kept = RemoveAt(cases, i)
      BY <2>2, <3>1 DEF Stored
    <3> HIDE DEF kept
    <3>10. cases \in Seq(CaseRows) /\ i \in DOMAIN cases
      BY <1>1, <3>2
    <3>3. /\ kept \in Seq(CaseRows)
          /\ \A l \in DOMAIN kept :
               /\ (IF l < i THEN l ELSE l + 1) \in DOMAIN cases
               /\ kept[l] = cases[IF l < i THEN l ELSE l + 1]
      <4>1. WithoutAt(RemoveAt(cases, i), CaseRows, cases, i)
        BY ONLY <3>10, RemoveAtProperties
      <4> QED
        BY ONLY <3>2, <4>1 DEF WithoutAt
    <3>4. i \in Nat /\ \A l \in DOMAIN kept : l \in Nat
      BY <1>1, <3>2, <3>3
    <3>5. \A l \in DOMAIN kept : (IF l < i THEN l ELSE l + 1) # i
      BY <3>4
    <3>6. \A k \in DOMAIN cases : k # i => cases[k].inputs # inputs
      BY <1>1, <3>2 DEF CasesKeep
    <3>7. \A l \in DOMAIN kept : kept[l].inputs # inputs
      BY <3>3, <3>5, <3>6
    <3>8. ASSUME NEW l \in DOMAIN kept, NEW m \in DOMAIN kept, kept[l].inputs = kept[m].inputs
          PROVE  l = m
      <4>1. PICK u, v : u = (IF l < i THEN l ELSE l + 1) /\ v = IF m < i THEN m ELSE m + 1
        OBVIOUS
      <4>2. u \in DOMAIN cases /\ v \in DOMAIN cases /\ kept[l] = cases[u] /\ kept[m] = cases[v]
        BY <3>3, <4>1
      <4>3. u = v
        <5>1. cases[u].inputs = cases[v].inputs
          BY ONLY <3>8, <4>2
        <5> QED
          BY <1>1, <4>2, <5>1 DEF CasesKeep
      <4>4. l \in Nat /\ m \in Nat
        BY <3>4
      <4> QED
        BY <3>4, <4>1, <4>3, <4>4
    <3>9. \A l \in DOMAIN kept : \A t \in Types :
            kept[l].inputs[t] # 0 =>
              kept[l].inputs[t] \in DOMAIN cited /\ cited[kept[l].inputs[t]].type = t
      <4>1. \A k \in DOMAIN cases : \A t \in Types :
              cases[k].inputs[t] # 0 =>
                cases[k].inputs[t] \in DOMAIN cited /\ cited[cases[k].inputs[t]].type = t
        BY <1>1 DEF CasesKeep
      <4>2. \A l \in DOMAIN kept : \E k \in DOMAIN cases : kept[l] = cases[k]
        BY ONLY <3>3
      <4> QED
        BY ONLY <4>1, <4>2
    <3> QED
      BY <3>3, <3>7, <3>8, <3>9 DEF CasesKeep
  <2> QED
    BY <2>1, <2>2
<1>7. CASE cases' = cases
  BY <1>1, <1>5, <1>7, CasesStay
<1>8. CASE cases' = Append(kept, row)
  <2> HIDE DEF kept, row
  <2>1. PICK n : n = Len(kept)
    OBVIOUS
  <2>2. kept \in Seq(CaseRows) /\ n \in Nat /\ DOMAIN kept = 1 .. n
    BY <1>6, <2>1 DEF CasesKeep
  <2>3. /\ Append(kept, row) \in Seq(CaseRows)
        /\ DOMAIN Append(kept, row) = 1 .. n + 1
        /\ \A k \in 1 .. n : Append(kept, row)[k] = kept[k]
        /\ Append(kept, row)[n + 1] = row
    BY <1>4, <2>1, <2>2
  <2>4. PICK rows : rows = Append(kept, row)
    OBVIOUS
  <2>5. \A k \in DOMAIN rows : k = n + 1 \/ k \in DOMAIN kept
    BY <2>2, <2>3, <2>4
  <2>6. /\ \A k \in DOMAIN kept : rows[k] = kept[k]
        /\ rows[n + 1] = row
    BY <2>2, <2>3, <2>4
  <2>7. \A i, k \in DOMAIN rows : rows[i].inputs = rows[k].inputs => i = k
    BY <1>4, <1>6, <2>5, <2>6 DEF CasesKeep
  <2>8. \A i \in DOMAIN rows : \A t \in Types :
          rows[i].inputs[t] # 0 =>
            rows[i].inputs[t] \in DOMAIN cited /\ cited[rows[i].inputs[t]].type = t
    BY <1>3, <1>4, <1>6, <2>5, <2>6 DEF CasesKeep
  <2>9. CasesKeep(rows)
    BY <2>3, <2>4, <2>7, <2>8 DEF CasesKeep
  <2> QED
    BY <1>5, <1>8, <2>4, <2>9, CasesStay
<1> QED
  BY <1>5, <1>7, <1>8

LEMMA EvictionsKeep ==
  ASSUME CasesIInv, PurgeForProperty \/ EvictOldCache
  PROVE  CasesIInv'
<1>1. CasesTypeOK /\ cases \in Seq(CaseRows) /\ CasesKeep(cases)
  BY DEF CasesIInv, CasesTypeOK, CaseRows, CasesKeep, OneRowPerInputs, InputsAreThere
<1>2. CASE PurgeForProperty
  <2>1. CasesKeep(<<>>)
    BY DEF CasesKeep
  <2> QED
    BY <1>2, <2>1, CasesStay DEF PurgeForProperty
<1>3. CASE EvictOldCache
  <2>1. PICK n \in DOMAIN cases : cases' = SubSeq(cases, n + 1, Len(cases))
    BY <1>3 DEF EvictOldCache
  <2>2. PICK last : last = Len(cases)
    OBVIOUS
  <2>3. last \in Nat /\ n \in 1 .. last /\ DOMAIN cases = 1 .. last
    BY <1>1, <2>2
  <2>4. PICK rows : rows = SubSeq(cases, n + 1, last)
    OBVIOUS
  <2>5. \A k \in n + 1 .. last : cases[k] \in CaseRows
    BY <1>1, <2>2, <2>3
  <2>6. /\ rows \in Seq(CaseRows) /\ Len(rows) = IF n + 1 <= last THEN last - (n + 1) + 1 ELSE 0
        /\ \A k \in 1 .. last - (n + 1) + 1 : rows[k] = cases[(n + 1) + k - 1]
    BY <1>1, <2>2, <2>3, <2>4, <2>5, SubSeqProperties
  <2>7. DOMAIN rows = 1 .. last - n
    BY <2>3, <2>6
  <2>8. \A k \in DOMAIN rows : k \in Nat /\ n + k \in DOMAIN cases /\ rows[k] = cases[n + k]
    <3> TAKE k \in DOMAIN rows
    <3>1. k \in Nat /\ n \in Nat /\ k \in 1 .. last - (n + 1) + 1 /\ (n + 1) + k - 1 = n + k
          /\ n + k \in 1 .. last
      BY <2>3, <2>7
    <3> QED
      BY <2>3, <2>6, <3>1
  <2>9. \A i, k \in DOMAIN rows : rows[i].inputs = rows[k].inputs => i = k
    <3> SUFFICES ASSUME NEW i \in DOMAIN rows, NEW k \in DOMAIN rows,
                        rows[i].inputs = rows[k].inputs
                 PROVE  i = k
      OBVIOUS
    <3>1. n + i = n + k
      BY <1>1, <2>8 DEF CasesKeep
    <3> QED
      BY <2>3, <2>8, <3>1
  <2>10. CasesKeep(rows)
    BY <1>1, <2>6, <2>8, <2>9 DEF CasesKeep
  <2> QED
    BY <1>3, <2>1, <2>2, <2>4, <2>10, CasesStay DEF EvictOldCache
<1> QED
  BY <1>2, <1>3

\* Outputs are added and reviewed, and keep their types.
Grown(now) ==
  /\ now \in Seq(Outputs)
  /\ \A i \in DOMAIN cited : i \in DOMAIN now /\ now[i].type = cited[i].type

LEMMA OutputsKeep ==
  ASSUME CasesIInv,
         \/ \E type \in Types, level \in Levels, review \in {"pending", "approved"} :
              AddOutput(type, level, review)
         \/ \E i \in DOMAIN cited, review \in {"approved", "rejected"} : SubmitAdjudication(i, review)
  PROVE  CasesIInv'
<1>1. CasesTypeOK /\ cited \in Seq(Outputs)
  BY DEF CasesIInv, CasesTypeOK, Outputs
<1>2. /\ cases' = cases /\ live' = live /\ dossier' = dossier
  BY DEF AddOutput, SubmitAdjudication
<1>3. Grown(cited')
  <2>1. ASSUME NEW type \in Types, NEW level \in Levels, NEW review \in {"pending", "approved"},
               AddOutput(type, level, review)
        PROVE  Grown(cited')
    <3>1. PICK o : o = [type |-> type, level |-> level, review |-> review]
      OBVIOUS
    <3>2. o \in Outputs
      BY <3>1 DEF Outputs, Reviews
    <3>3. cited' = Append(cited, o)
      BY <2>1, <3>1 DEF AddOutput
    <3> QED
      BY <1>1, <3>2, <3>3 DEF Grown
  <2>2. ASSUME NEW i \in DOMAIN cited, NEW review \in {"approved", "rejected"},
               SubmitAdjudication(i, review)
        PROVE  Grown(cited')
    <3>1. PICK o : o = [cited[i] EXCEPT !.review = review]
      OBVIOUS
    <3>2. cited[i] \in Outputs
      BY <1>1
    <3>3. o \in Outputs /\ o.type = cited[i].type
      BY <3>1, <3>2 DEF Outputs, Reviews
    <3>4. cited' = [cited EXCEPT ![i] = o]
      BY <2>2, <3>1 DEF SubmitAdjudication
    <3>5. cited' \in Seq(Outputs) /\ DOMAIN cited' = DOMAIN cited
      BY <1>1, <3>3, <3>4
    <3>6. \A k \in DOMAIN cited : cited'[k] = IF k = i THEN o ELSE cited[k]
      BY <1>1, <3>4
    <3> QED
      BY <3>3, <3>5, <3>6 DEF Grown
  <2> QED
    BY <2>1, <2>2
<1> QED
  BY <1>2, <1>3 DEF CasesIInv, CasesTypeOK, OneRowPerInputs, InputsAreThere, Outputs, Grown

LEMMA CasesStep == CasesIInv /\ [CasesNext]_caseVars => CasesIInv'
<1> SUFFICES ASSUME CasesIInv, [CasesNext]_caseVars
             PROVE  CasesIInv'
  OBVIOUS
<1>1. CASE UNCHANGED caseVars
  BY <1>1 DEF caseVars, CasesIInv, CasesTypeOK, OneRowPerInputs, InputsAreThere
<1>2. CASE \E dealRoom \in OfferRooms : OfferMoves(dealRoom)
  BY <1>2 DEF OfferMoves, CasesIInv, CasesTypeOK, OneRowPerInputs, InputsAreThere
<1>3. CASE SyncForProperty
  BY <1>3 DEF SyncForProperty, OfferEvidence, Evidence, CasesIInv, CasesTypeOK, OneRowPerInputs,
              InputsAreThere
<1> QED
  BY <1>1, <1>2, <1>3, UpsertKeeps, EvictionsKeep, OutputsKeep DEF CasesNext

\* Whatever the engines write and evict and whenever a case is assembled
\* (convex/propertyCases.ts): a claim shown rests on an output that is there and
\* was not rejected, no action is shown that a guardrail withholds, a view that
\* says it is ready leaves nothing out, and inference is said to be inference.
THEOREM CasesAreSound == CasesSpec => []CasesSound
<1>1. CasesInit => CasesIInv
  BY DEF CasesInit, CasesIInv, CasesTypeOK, OneRowPerInputs, InputsAreThere, NoDossier
<1>2. CasesIInv => CasesSound
  BY ShownAreBacked, ActionsAreGuarded, ReadyViewsAreComplete, InferenceIsSaid DEF CasesSound, CasesIInv
<1> QED
  BY <1>1, <1>2, CasesStep, PTL DEF CasesSpec
-----------------------------------------------------------------------------
(***************************************************************************)
(* NEGOTIATION BRIEFS.  The inductive invariant has the payload of a row   *)
(* assembled from versions that were read, the versions of a row that is   *)
(* or was ready be those, and the rows with a payload be the completed.    *)
(***************************************************************************)
\* A sequence whose first b has gone, and a b is added, has b as its last element
\* and otherwise the elements it had.
AtTheEnd(s, b) == Append(RemoveFirst(s, b), b)
AddedTo(S, s, b, new) ==
  /\ new \in Seq(S)
  /\ \A k \in DOMAIN new : new[k] = b \/ \E l \in DOMAIN s : new[k] = s[l]
  /\ \E k \in DOMAIN new : new[k] = b
  /\ \A l \in DOMAIN s : \E k \in DOMAIN new : new[k] = s[l]

LEMMA MovedLast ==
  ASSUME NEW S, NEW s \in Seq(S), NEW b \in S
  PROVE  AddedTo(S, s, b, AtTheEnd(s, b))
<1>1. PICK kept : kept = RemoveFirst(s, b)
  OBVIOUS
<1>2. /\ kept \in Seq(S)
      /\ \A k \in DOMAIN kept : \E l \in DOMAIN s : kept[k] = s[l]
      /\ \A l \in DOMAIN s : s[l] # b => \E k \in DOMAIN kept : kept[k] = s[l]
  <2>1. CASE \E i \in 1 .. Len(s) : s[i] = b
    <3> DEFINE places == {i \in 1 .. Len(s) : s[i] = b}
    <3>1. PICK i : i = CHOOSE x \in places : \A y \in places : x <= y
      OBVIOUS
    <3>2. kept = RemoveAt(s, i)
      BY <1>1, <2>1, <3>1 DEF RemoveFirst, SelectInSeq, Min
    <3>3. i \in places
      <4>1. places \subseteq 1 .. Len(s) /\ places # {} /\ Len(s) \in Nat
        BY <2>1
      <4> HIDE DEF places
      <4> QED
        BY <3>1, <4>1, FirstOf
    <3>4. i \in DOMAIN s /\ s[i] = b
      BY <3>3
    <3>5. /\ kept \in Seq(S)
          /\ \A l \in DOMAIN kept :
               /\ (IF l < i THEN l ELSE l + 1) \in DOMAIN s
               /\ kept[l] = s[IF l < i THEN l ELSE l + 1]
          /\ \A k \in DOMAIN s : k # i => \E l \in DOMAIN kept : kept[l] = s[k]
      <4>1. WithoutAt(RemoveAt(s, i), S, s, i)
        BY ONLY <3>4, s \in Seq(S), RemoveAtProperties
      <4> QED
        BY ONLY <3>2, <4>1 DEF WithoutAt
    <3> QED
      BY <3>4, <3>5
  <2>2. CASE ~ \E i \in 1 .. Len(s) : s[i] = b
    BY <1>1, <2>2 DEF RemoveFirst
  <2> QED
    BY <2>1, <2>2
<1>3. PICK n : n = Len(kept)
  OBVIOUS
<1>4. PICK new : new = Append(kept, b)
  OBVIOUS
<1>5. /\ new \in Seq(S) /\ n \in Nat /\ DOMAIN kept = 1 .. n /\ DOMAIN new = 1 .. n + 1
      /\ \A k \in 1 .. n : new[k] = kept[k]
      /\ new[n + 1] = b
  BY <1>2, <1>3, <1>4
<1>6. \A k \in DOMAIN new : k = n + 1 \/ k \in DOMAIN kept
  BY <1>5
<1>7. n + 1 \in DOMAIN new /\ \A k \in DOMAIN kept : k \in DOMAIN new
  BY <1>5
<1>8. \A k \in DOMAIN new : new[k] = b \/ \E l \in DOMAIN s : new[k] = s[l]
  BY <1>2, <1>5, <1>6
<1>9. \A l \in DOMAIN s : \E k \in DOMAIN new : new[k] = s[l]
  BY <1>2, <1>5, <1>7
<1>10. new = AtTheEnd(s, b)
  BY <1>1, <1>4 DEF AtTheEnd
<1> QED
  BY <1>5, <1>7, <1>8, <1>9, <1>10 DEF AddedTo
-----------------------------------------------------------------------------
BriefRows ==
  [status : BriefStatuses, versions : SourceVersions,
   payload : {NoPayload} \cup {Assembled(read) : read \in SourceVersions}]

\* What has been completed is what has a payload.
CompletedHavePayloads ==
  {completed[i] : i \in DOMAIN completed} = {b \in DOMAIN briefs : briefs[b].payload # NoPayload}

BriefsIInv ==
  /\ made \in [Sources -> 0 .. MaxVersion + 1]
  /\ briefs \in Seq(BriefRows) /\ completed \in Seq(DOMAIN briefs)
  /\ \A run \in runs : run.brief \in DOMAIN briefs /\ run.read \in SourceVersions
  /\ VersionsAreThePayloads /\ CompletedHavePayloads

LEMMA AssembledIs ==
  ASSUME NEW read \in SourceVersions
  PROVE  /\ Assembled(read) # NoPayload /\ Assembled(read).read = read
         /\ Assembled(read).coverage = Cardinality(PresentSections(read))
<1>1. NoPayload \in [{"read"} -> {"nothing"}] /\ DOMAIN NoPayload = {"read"}
  BY DEF NoPayload
<1>2. DOMAIN Assembled(read) = {"read", "coverage"}
  BY DEF Assembled
<1>3. Assembled(read) # NoPayload
  BY <1>1, <1>2
<1> QED
  BY <1>3 DEF Assembled

LEMMA FourAreFinite == \A S \in SUBSET Sources : IsFiniteSet(S) /\ Cardinality(S) \in Nat
<1> DEFINE A == {"pricing"}
           B == A \cup {"comps"}
           C == B \cup {"leverage"}
           D == C \cup {"offer"}
<1>1. IsFiniteSet(A)
  BY FS_Singleton
<1>2. IsFiniteSet(B)
  <2> HIDE DEF A
  <2> QED
    BY <1>1, FS_AddElement
<1>3. IsFiniteSet(C)
  <2> HIDE DEF B
  <2> QED
    BY <1>2, FS_AddElement
<1>4. IsFiniteSet(D)
  <2> HIDE DEF C
  <2> QED
    BY <1>3, FS_AddElement
<1>5. Sources \subseteq D
  BY BriefsAssumption
<1> HIDE DEF D
<1> QED
  BY <1>4, <1>5, FS_Subset, FS_CardinalityType

LEMMA CurrentIs == BriefsIInv => CurrentVersions \in SourceVersions
<1> SUFFICES ASSUME BriefsIInv
             PROVE  CurrentVersions \in SourceVersions
  OBVIOUS
<1>1. MaxVersion \in Nat /\ made \in [Sources -> 0 .. MaxVersion + 1]
  BY BriefsAssumption DEF BriefsIInv
<1>2. \A s \in Sources : (IF made[s] > MaxVersion THEN 0 ELSE made[s]) \in 0 .. MaxVersion
  BY <1>1
<1> QED
  BY <1>2 DEF CurrentVersions, SourceVersions

\* Fewer facts make fewer sections.
LEMMA SectionsGrow ==
  ASSUME NEW more \in SourceVersions, NEW less \in SourceVersions,
         \A s \in Sources : less[s] # 0 => more[s] = less[s]
  PROVE  Cardinality(PresentSections(more)) >= Cardinality(PresentSections(less))
<1>1. PresentSections(more) \subseteq Sources /\ PresentSections(less) \subseteq Sources
  BY DEF PresentSections
<1>2. \A s \in Sources : less[s] \in Nat
  BY BriefsAssumption DEF SourceVersions
<1>3. PresentSections(less) \subseteq PresentSections(more)
  BY <1>2 DEF PresentSections
<1>4. IsFiniteSet(PresentSections(more)) /\ Cardinality(PresentSections(more)) \in Nat
      /\ Cardinality(PresentSections(less)) \in Nat
  BY <1>1, FourAreFinite
<1>5. Cardinality(PresentSections(less)) <= Cardinality(PresentSections(more))
  BY <1>3, <1>4, FS_Subset
<1> QED
  BY <1>4, <1>5

LEMMA LatestReadyIs ==
  ASSUME BriefsIInv, HasLatestReady
  PROVE  LatestReady \in DOMAIN briefs /\ briefs[LatestReady].status = "ready"
<1>1. ReadyBriefs \subseteq 1 .. Len(completed) /\ Len(completed) \in Nat /\ ReadyBriefs # {}
  BY DEF BriefsIInv, ReadyBriefs, HasLatestReady
<1>2. PICK i : i = CHOOSE n \in ReadyBriefs : \A k \in ReadyBriefs : k <= n
  OBVIOUS
<1>3. i \in ReadyBriefs
  BY <1>1, <1>2, LastOf
<1>4. LatestReady = completed[i]
  BY <1>2 DEF LatestReady
<1>5. completed[i] \in DOMAIN briefs
  BY <1>3 DEF BriefsIInv, ReadyBriefs
<1> QED
  BY <1>3, <1>4, <1>5 DEF ReadyBriefs

LEMMA BriefsImplied == BriefsIInv => BriefsSound
<1> SUFFICES ASSUME BriefsIInv
             PROVE  BriefsSound
  OBVIOUS
<1>1. \A b \in DOMAIN briefs : briefs[b] \in BriefRows
  BY DEF BriefsIInv
<1>2. BriefsTypeOK
  <2>1. ASSUME NEW b \in DOMAIN briefs
        PROVE  /\ briefs[b].status \in BriefStatuses /\ briefs[b].versions \in SourceVersions
               /\ briefs[b].payload = NoPayload \/ briefs[b].payload.read \in SourceVersions
    BY <1>1, AssembledIs DEF BriefRows
  <2> QED
    BY <2>1 DEF BriefsIInv, BriefsTypeOK
<1>3. ReadyIsFound
  <2>1. ASSUME NEW b \in DOMAIN briefs, briefs[b].status = "ready"
        PROVE  HasLatestReady
    <3>1. briefs[b].payload # NoPayload
      BY <2>1 DEF BriefsIInv, VersionsAreThePayloads
    <3>2. \E i \in DOMAIN completed : completed[i] = b
      BY <3>1 DEF BriefsIInv, CompletedHavePayloads
    <3> QED
      BY <2>1, <3>2 DEF HasLatestReady, ReadyBriefs
  <2> QED
    BY <2>1, LatestReadyIs DEF ReadyIsFound, BriefsIInv, CompletedHavePayloads
<1>4. FreshIsCurrent
  <2> SUFFICES ASSUME HasLatestReady, StaleReasons(briefs[LatestReady].versions, CurrentVersions) = {}
               PROVE  LET p == briefs[LatestReady].payload
                      IN /\ \A s \in Sources : CurrentVersions[s] # 0 => p.read[s] = CurrentVersions[s]
                         /\ p.coverage >= Cardinality(PresentSections(CurrentVersions))
    BY DEF FreshIsCurrent
  <2>1. PICK b : b = LatestReady
    OBVIOUS
  <2>2. PICK now : now = CurrentVersions
    OBVIOUS
  <2>3. b \in DOMAIN briefs /\ briefs[b].status = "ready" /\ now \in SourceVersions
    BY <2>1, <2>2, LatestReadyIs, CurrentIs
  <2>4. briefs[b].payload # NoPayload /\ briefs[b].versions = briefs[b].payload.read
    BY <2>3 DEF BriefsIInv, VersionsAreThePayloads
  <2>5. PICK read \in SourceVersions : briefs[b].payload = Assembled(read)
    BY <1>1, <2>3, <2>4 DEF BriefRows
  <2>6. briefs[b].payload.read = read /\ briefs[b].versions = read
        /\ briefs[b].payload.coverage = Cardinality(PresentSections(read))
    BY <2>4, <2>5, AssembledIs
  <2>7. \A s \in Sources : now[s] # 0 => read[s] = now[s]
    BY <2>1, <2>2, <2>6 DEF StaleReasons
  <2>8. Cardinality(PresentSections(read)) >= Cardinality(PresentSections(now))
    BY <2>3, <2>7, SectionsGrow
  <2> QED
    BY <2>1, <2>2, <2>6, <2>7, <2>8
<1> QED
  BY <1>2, <1>3, <1>4 DEF BriefsSound, BriefsIInv
-----------------------------------------------------------------------------
(* Steps *)

RowBecomes(b, row) ==
  /\ row \in BriefRows
  /\ row.status \in {"ready", "stale"} => row.payload # NoPayload /\ row.versions = row.payload.read
  /\ briefs' = [briefs EXCEPT ![b] = row]

RunsTrue(now) == \A run \in now : run.brief \in DOMAIN briefs /\ run.read \in SourceVersions

LEMMA RowAt ==
  ASSUME BriefsIInv, NEW b \in DOMAIN briefs
  PROVE  /\ briefs[b] \in BriefRows
         /\ briefs[b].status \in BriefStatuses /\ briefs[b].versions \in SourceVersions
         /\ briefs[b].payload \in {NoPayload} \cup {Assembled(read) : read \in SourceVersions}
<1>1. briefs[b] \in BriefRows
  BY DEF BriefsIInv
<1> QED
  BY <1>1 DEF BriefRows

LEMMA RowsKeep ==
  ASSUME BriefsIInv, NEW b \in DOMAIN briefs, NEW row, RowBecomes(b, row),
         completed' \in Seq(DOMAIN briefs), made' = made, RunsTrue(runs'),
         {completed'[i] : i \in DOMAIN completed'}
           = {c \in DOMAIN briefs : c # b /\ briefs[c].payload # NoPayload}
             \cup {c \in {b} : row.payload # NoPayload}
  PROVE  BriefsIInv'
<1>1. briefs \in Seq(BriefRows)
  BY DEF BriefsIInv
<1>2. briefs' \in Seq(BriefRows) /\ DOMAIN briefs' = DOMAIN briefs
  BY <1>1 DEF RowBecomes
<1>3. \A c \in DOMAIN briefs : briefs'[c] = IF c = b THEN row ELSE briefs[c]
  BY <1>1 DEF RowBecomes
<1>4. VersionsAreThePayloads'
  BY <1>2, <1>3 DEF BriefsIInv, VersionsAreThePayloads, RowBecomes
<1>5. CompletedHavePayloads'
  <2>1. {c \in DOMAIN briefs' : briefs'[c].payload # NoPayload}
          = {c \in DOMAIN briefs : c # b /\ briefs[c].payload # NoPayload}
             \cup {c \in {b} : row.payload # NoPayload}
    BY <1>2, <1>3
  <2> QED
    BY <2>1 DEF CompletedHavePayloads
<1>6. made' \in [Sources -> 0 .. MaxVersion + 1]
  BY DEF BriefsIInv
<1> QED
  BY <1>2, <1>4, <1>5, <1>6 DEF BriefsIInv, RunsTrue

\* The row keeps its payload, or its lack of one.
LEMMA StatusesKeep ==
  ASSUME BriefsIInv, NEW b \in DOMAIN briefs, NEW row, RowBecomes(b, row),
         row.payload = briefs[b].payload, completed' = completed, made' = made, RunsTrue(runs')
  PROVE  BriefsIInv'
<1>1. {completed[i] : i \in DOMAIN completed}
        = {c \in DOMAIN briefs : c # b /\ briefs[c].payload # NoPayload}
          \cup {c \in {b} : row.payload # NoPayload}
  BY DEF BriefsIInv, CompletedHavePayloads
<1>2. completed' \in Seq(DOMAIN briefs)
  BY DEF BriefsIInv
<1>3. {completed'[i] : i \in DOMAIN completed'}
        = {c \in DOMAIN briefs : c # b /\ briefs[c].payload # NoPayload}
          \cup {c \in {b} : row.payload # NoPayload}
  BY <1>1
<1> QED
  BY <1>2, <1>3, RowsKeep

LEMMA CreateBriefKeeps ==
  ASSUME BriefsIInv, CreateBrief(CurrentVersions)
  PROVE  BriefsIInv'
<1>1. PICK row : row = [status |-> "pending", versions |-> CurrentVersions, payload |-> NoPayload]
  OBVIOUS
<1>2. row \in BriefRows /\ row.payload = NoPayload /\ row.status = "pending"
  BY <1>1, CurrentIs DEF BriefRows, BriefStatuses
<1>3. PICK n : n = Len(briefs)
  OBVIOUS
<1>4. /\ briefs' = Append(briefs, row) /\ briefs \in Seq(BriefRows) /\ n \in Nat
      /\ DOMAIN briefs = 1 .. n
  BY <1>1, <1>3 DEF CreateBrief, BriefsIInv
<1>5. /\ briefs' \in Seq(BriefRows) /\ DOMAIN briefs' = 1 .. n + 1
      /\ briefs'[n + 1] = row /\ \A c \in 1 .. n : briefs'[c] = briefs[c]
  BY <1>2, <1>3, <1>4
<1>6. /\ made' = made /\ runs' = runs /\ completed' = completed
  BY DEF CreateBrief
<1>7. DOMAIN briefs \subseteq DOMAIN briefs' /\ \A c \in DOMAIN briefs' : c = n + 1 \/ c \in DOMAIN briefs
  BY <1>4, <1>5
<1>8. completed' \in Seq(DOMAIN briefs')
  <2>1. completed \in Seq(DOMAIN briefs)
    BY DEF BriefsIInv
  <2>2. PICK D : D = DOMAIN briefs'
    OBVIOUS
  <2>3. completed \in Seq(D)
    BY <1>7, <2>1, <2>2
  <2> QED
    BY <1>6, <2>2, <2>3
<1>9. VersionsAreThePayloads'
  BY <1>2, <1>4, <1>5, <1>7 DEF BriefsIInv, VersionsAreThePayloads
<1>10. CompletedHavePayloads'
  BY <1>2, <1>4, <1>5, <1>6, <1>7 DEF BriefsIInv, CompletedHavePayloads
<1>11. \A run \in runs' : run.brief \in DOMAIN briefs' /\ run.read \in SourceVersions
  BY <1>6, <1>7 DEF BriefsIInv
<1> QED
  BY <1>5, <1>6, <1>8, <1>9, <1>10, <1>11 DEF BriefsIInv

LEMMA BrokersKeep ==
  ASSUME BriefsIInv, NEW b \in DOMAIN briefs,
         Assemble(b) \/ MarkStale(b) \/ Regenerate(b, CurrentVersions)
  PROVE  BriefsIInv'
<1>1. RunsTrue(runs) /\ CurrentVersions \in SourceVersions
  BY CurrentIs DEF BriefsIInv, RunsTrue
<1>2. briefs[b] \in BriefRows
  BY RowAt
<1>3. CASE Assemble(b)
  <2>1. runs' = runs \cup {[brief |-> b, read |-> CurrentVersions]}
    BY <1>3 DEF Assemble
  <2>2. \A run \in runs' : run.brief \in DOMAIN briefs /\ run.read \in SourceVersions
    BY <1>1, <2>1 DEF RunsTrue
  <2> QED
    BY <1>3, <2>2 DEF Assemble, BriefsIInv, VersionsAreThePayloads, CompletedHavePayloads
<1>4. CASE MarkStale(b)
  <2>1. PICK row : row = [briefs[b] EXCEPT !.status = "stale"]
    OBVIOUS
  <2>2. row \in BriefRows /\ row.payload = briefs[b].payload /\ row.versions = briefs[b].versions
    BY <1>2, <2>1 DEF BriefRows, BriefStatuses
  <2>3. briefs' = [briefs EXCEPT ![b] = row]
    BY <1>4, <2>1 DEF MarkStale
  <2>4. briefs[b].payload # NoPayload /\ briefs[b].versions = briefs[b].payload.read
    BY <1>4 DEF MarkStale, BriefsIInv, VersionsAreThePayloads
  <2>5. RowBecomes(b, row)
    BY <2>2, <2>3, <2>4 DEF RowBecomes
  <2>6. completed' = completed /\ made' = made /\ RunsTrue(runs')
    BY <1>1, <1>4 DEF MarkStale
  <2> QED
    BY <2>2, <2>5, <2>6, StatusesKeep
<1>5. CASE Regenerate(b, CurrentVersions)
  <2>1. PICK row : row = [briefs[b] EXCEPT !.status = "pending", !.versions = CurrentVersions]
    OBVIOUS
  <2>2. row \in BriefRows /\ row.payload = briefs[b].payload /\ row.status = "pending"
    BY <1>1, <1>2, <2>1 DEF BriefRows, BriefStatuses
  <2>3. briefs' = [briefs EXCEPT ![b] = row]
    BY <1>2, <1>5, <2>1 DEF Regenerate, BriefsIInv
  <2>5. RowBecomes(b, row)
    BY <2>2, <2>3 DEF RowBecomes
  <2>6. completed' = completed /\ made' = made /\ RunsTrue(runs')
    BY <1>1, <1>5 DEF Regenerate
  <2> QED
    BY <2>2, <2>5, <2>6, StatusesKeep
<1> QED
  BY <1>3, <1>4, <1>5

LEMMA ReportsKeep ==
  ASSUME BriefsIInv, NEW run \in runs, RecordReady(run) \/ RecordFailure(run)
  PROVE  BriefsIInv'
<1>1. PICK b, read : b = run.brief /\ read = run.read
  OBVIOUS
<1>2. /\ b \in DOMAIN briefs /\ read \in SourceVersions /\ RunsTrue(runs \ {run})
      /\ briefs \in Seq(BriefRows) /\ completed \in Seq(DOMAIN briefs)
  BY <1>1 DEF BriefsIInv, RunsTrue
<1>3. briefs[b] \in BriefRows
  BY <1>2, RowAt
<1>4. CASE RecordFailure(run)
  <2>1. PICK row : row = [briefs[b] EXCEPT !.status = "failed"]
    OBVIOUS
  <2>2. row \in BriefRows /\ row.payload = briefs[b].payload /\ row.status = "failed"
    BY <1>3, <2>1 DEF BriefRows, BriefStatuses
  <2>3. briefs' = [briefs EXCEPT ![b] = row]
    BY <1>1, <1>4, <2>1 DEF RecordFailure
  <2>5. RowBecomes(b, row)
    BY <2>2, <2>3 DEF RowBecomes
  <2>6. completed' = completed /\ made' = made /\ RunsTrue(runs')
    BY <1>2, <1>4 DEF RecordFailure
  <2> QED
    BY <1>2, <2>2, <2>5, <2>6, StatusesKeep
<1>5. CASE RecordReady(run)
  <2>1. PICK row : row = [briefs[b] EXCEPT !.status = "ready", !.payload = Assembled(read),
                                           !.versions = read]
    OBVIOUS
  <2>2. /\ row.status = "ready" /\ row.payload = Assembled(read) /\ row.versions = read
        /\ row \in BriefRows
    BY <1>2, <1>3, <2>1 DEF BriefRows, BriefStatuses
  <2>3. briefs' = [briefs EXCEPT ![b] = row]
    BY <1>1, <1>2, <1>3, <1>5, <2>1 DEF RecordReady
  <2>4. row.payload # NoPayload /\ row.payload.read = read
    BY <1>2, <2>2, AssembledIs
  <2>5. RowBecomes(b, row)
    BY <2>2, <2>3, <2>4 DEF RowBecomes
  <2>6. completed' = AtTheEnd(completed, b) /\ made' = made /\ RunsTrue(runs')
    BY <1>1, <1>2, <1>5 DEF RecordReady, Complete, AtTheEnd
  <2>7. PICK now : now = AtTheEnd(completed, b)
    OBVIOUS
  <2>12. PICK D : D = DOMAIN briefs
    OBVIOUS
  <2>13. completed \in Seq(D)
    BY <1>2, <2>12
  <2>18. b \in D
    BY <1>2, <2>12
  <2>14. AddedTo(D, completed, b, AtTheEnd(completed, b))
    BY <2>13, <2>18, MovedLast
  <2>8. /\ now \in Seq(DOMAIN briefs)
        /\ \A k \in DOMAIN now : now[k] = b \/ \E l \in DOMAIN completed : now[k] = completed[l]
        /\ \E k \in DOMAIN now : now[k] = b
        /\ \A l \in DOMAIN completed : \E k \in DOMAIN now : now[k] = completed[l]
    BY <2>7, <2>12, <2>14 DEF AddedTo
  <2>9. {now[i] : i \in DOMAIN now} = {completed[i] : i \in DOMAIN completed} \cup {b}
    BY <2>8
  <2>10. {now[i] : i \in DOMAIN now}
           = {c \in DOMAIN briefs : c # b /\ briefs[c].payload # NoPayload}
             \cup {c \in {b} : row.payload # NoPayload}
    BY <1>2, <2>4, <2>9 DEF BriefsIInv, CompletedHavePayloads
  <2>11. completed' = now
    BY <2>6, <2>7
  <2>15. completed' \in Seq(DOMAIN briefs)
    BY <2>8, <2>11
  <2>16. {completed'[i] : i \in DOMAIN completed'}
           = {c \in DOMAIN briefs : c # b /\ briefs[c].payload # NoPayload}
             \cup {c \in {b} : row.payload # NoPayload}
    BY <2>10, <2>11
  <2>17. made' = made /\ RunsTrue(runs')
    BY <2>6
  <2> QED
    BY <1>2, <2>5, <2>15, <2>16, <2>17, RowsKeep
<1> QED
  BY <1>4, <1>5

LEMMA BriefsStep == BriefsIInv /\ [BriefsNext]_briefVars => BriefsIInv'
<1> SUFFICES ASSUME BriefsIInv, [BriefsNext]_briefVars
             PROVE  BriefsIInv'
  OBVIOUS
<1>1. CASE UNCHANGED briefVars
  BY <1>1 DEF briefVars, BriefsIInv, VersionsAreThePayloads, CompletedHavePayloads
<1>2. ASSUME NEW s \in Sources, OutputChanges(s)
      PROVE  BriefsIInv'
  <2>1. MaxVersion \in Nat /\ made \in [Sources -> 0 .. MaxVersion + 1]
    BY BriefsAssumption DEF BriefsIInv
  <2>2. made[s] + 1 \in 0 .. MaxVersion + 1
    BY <1>2, <2>1 DEF OutputChanges
  <2>3. made' \in [Sources -> 0 .. MaxVersion + 1]
    BY <1>2, <2>1, <2>2 DEF OutputChanges
  <2> QED
    BY <1>2, <2>3 DEF OutputChanges, BriefsIInv, VersionsAreThePayloads, CompletedHavePayloads
<1> QED
  BY <1>1, <1>2, CreateBriefKeeps, BrokersKeep, ReportsKeep DEF BriefsNext

\* Whatever the sources do while a brief is generated (convex/negotiationBriefs.ts):
\* the versions on a row are those its payload was made of, so a brief the detector
\* finds nothing against is of every engine's current output; and no ready row is
\* lost to the readers, who find it by its completion.
THEOREM BriefsAreSound == BriefsSpec => []BriefsSound
<1>1. BriefsInit => BriefsIInv
  <2> SUFFICES ASSUME BriefsInit
               PROVE  BriefsIInv
    OBVIOUS
  <2>1. MaxVersion \in Nat
    BY BriefsAssumption
  <2> QED
    BY <2>1 DEF BriefsInit, BriefsIInv, VersionsAreThePayloads, CompletedHavePayloads
<1> QED
  BY <1>1, BriefsImplied, BriefsStep, PTL DEF BriefsSpec
-----------------------------------------------------------------------------
(***************************************************************************)
(* THE STRATEGY FOR AN OFFER.  The type is inductive; the rest says what   *)
(* the engine and the playbook compute from whatever facts there are.      *)
(***************************************************************************)
\* Facts the engine may be run over, the what-ifs included.
EngineFacts == [list : Nat \ {0}, fair : Int, score : Nat, days : Nat, rivals : Nat, budget : Nat]

LEMMA OfTwo ==
  ASSUME NEW a \in Int, NEW b \in Int
  PROVE  /\ Max({a, b}) \in Int /\ Max({a, b}) = IF a >= b THEN a ELSE b
         /\ Min({a, b}) \in Int /\ Min({a, b}) = IF a <= b THEN a ELSE b
<1>1. PICK m : m = IF a >= b THEN a ELSE b
  OBVIOUS
<1>2. m \in {a, b} /\ \A y \in {a, b} : m >= y
  BY <1>1
<1>3. Max({a, b}) = m
  <2>1. PICK x : x = Max({a, b})
    OBVIOUS
  <2>2. x \in {a, b} /\ \A y \in {a, b} : x >= y
    BY <1>2, <2>1 DEF Max
  <2>3. x >= m /\ m >= x /\ x \in Int /\ m \in Int
    BY <1>2, <2>2
  <2> QED
    BY <2>1, <2>3
<1>4. PICK n : n = IF a <= b THEN a ELSE b
  OBVIOUS
<1>5. n \in {a, b} /\ \A y \in {a, b} : n <= y
  BY <1>4
<1>6. Min({a, b}) = n
  <2>1. PICK x : x = Min({a, b})
    OBVIOUS
  <2>2. x \in {a, b} /\ \A y \in {a, b} : x <= y
    BY <1>5, <2>1 DEF Min
  <2>3. x >= n /\ n >= x /\ x \in Int /\ n \in Int
    BY <1>5, <2>2
  <2> QED
    BY <2>1, <2>3
<1> QED
  BY <1>1, <1>3, <1>4, <1>6

LEMMA PricesAreNumbers ==
  ASSUME NEW in \in EngineFacts
  PROVE  /\ BaseDiscount(in) \in Int /\ Reference(in) \in Int
         /\ \A share \in Int : Shift(in, share) \in Int
         /\ BalancedPrice(in) \in Int
<1>1. /\ in.list \in Int /\ in.fair \in Int /\ in.score \in Int /\ in.days \in Int
      /\ in.rivals \in Int /\ in.budget \in Int
  BY DEF EngineFacts
<1>2. Min({in.days - 60, 60}) \in Int
  <2>1. PICK more : more = in.days - 60
    OBVIOUS
  <2>2. more \in Int /\ 60 \in Int
    BY <1>1, <2>1
  <2>3. Min({more, 60}) \in Int
    BY <2>2, OfTwo
  <2> QED
    BY <2>1, <2>3
<1>3. BaseDiscount(in) \in Int
  <2>1. (IF in.score = Absent THEN 0 ELSE 2 * (50 - in.score)) \in Int
    BY <1>1
  <2>2. (IF in.days > 60 THEN Min({in.days - 60, 60}) ELSE 0) \in Int
    BY <1>1, <1>2
  <2>3. 30 * in.rivals \in Int
    BY <1>1
  <2> QED
    BY <2>1, <2>2, <2>3 DEF BaseDiscount
<1>4. Reference(in) \in Int
  BY <1>1 DEF Reference, Unit
<1>5. \A share \in Int : Shift(in, share) \in Int
  <2> TAKE share \in Int
  <2>1. in.list * BaseDiscount(in) \in Int
    BY <1>1, <1>3
  <2> QED
    BY <2>1 DEF Shift
<1>6. 10800 * in.list \in Int /\ Reference(in) + Shift(in, 3) \in Int
  BY <1>1, <1>4, <1>5
<1>7. BalancedPrice(in) \in Int
  BY <1>6, OfTwo DEF BalancedPrice
<1> QED
  BY <1>3, <1>4, <1>5, <1>7

\* The three prices before the budget cuts them.
Low(in) == Max({10200 * in.list, Reference(in) - 360 * in.list + Shift(in, 6)})
High(in) == Min({12600 * in.list, Max({BalancedPrice(in) + 240 * in.list,
                                       Reference(in) + 240 * in.list + Shift(in, 2)})})

LEMMA HighIs ==
  ASSUME NEW in \in EngineFacts
  PROVE  /\ Low(in) \in Int /\ High(in) \in Int
         /\ BalancedPrice(in) <= 12600 * in.list => High(in) >= BalancedPrice(in)
         /\ BalancedPrice(in) < 12600 * in.list => High(in) > BalancedPrice(in)
<1>1. in.list \in Nat /\ in.list > 0
  BY DEF EngineFacts
<1>2. PICK p, q, r : p = BalancedPrice(in) /\ q = Reference(in) /\ r = Shift(in, 2)
  OBVIOUS
<1>3. p \in Int /\ q \in Int /\ r \in Int /\ Shift(in, 6) \in Int
  BY <1>2, PricesAreNumbers
<1>4. PICK x, y, top : x = p + 240 * in.list /\ y = q + 240 * in.list + r /\ top = 12600 * in.list
  OBVIOUS
<1>5. x \in Int /\ y \in Int /\ top \in Int /\ x > p
  BY <1>1, <1>3, <1>4
<1>6. Max({x, y}) \in Int /\ Max({x, y}) >= x
  BY <1>5, OfTwo
<1>7. PICK m : m = Max({x, y})
  OBVIOUS
<1>8. m \in Int /\ m > p
  BY <1>3, <1>5, <1>6, <1>7
<1>9. High(in) = Min({top, m})
  BY <1>2, <1>4, <1>7 DEF High
<1>10. High(in) \in Int /\ High(in) = IF top <= m THEN top ELSE m
  BY <1>5, <1>8, <1>9, OfTwo
<1>11. 10200 * in.list \in Int /\ q - 360 * in.list + Shift(in, 6) \in Int
  BY <1>1, <1>3
<1>12. Low(in) \in Int
  BY <1>2, <1>11, OfTwo DEF Low
<1> QED
  BY <1>2, <1>3, <1>4, <1>5, <1>8, <1>10, <1>12

LEMMA ScenariosAre ==
  ASSUME NEW in \in EngineFacts
  PROVE  /\ Len(Scenarios(in)) = 3
         /\ Scenarios(in)[1].price = Capped(in, Low(in))
         /\ Scenarios(in)[2] = [name |-> "Balanced", days |-> 35,
              keeps |-> {"inspection", "financing"}, price |-> Capped(in, BalancedPrice(in))]
         /\ Scenarios(in)[3] = [name |-> "Competitive", days |-> 30,
              keeps |-> {"inspection"}, price |-> Capped(in, High(in))]
BY DEF Scenarios, Low, High

LEMMA PricesAre ==
  ASSUME NEW in \in EngineFacts
  PROVE  /\ Scenarios(in)[1].price = Capped(in, Low(in))
         /\ Scenarios(in)[2].price = Capped(in, BalancedPrice(in))
         /\ Scenarios(in)[3].price = Capped(in, High(in))
<1>1. /\ Scenarios(in)[1].price = Capped(in, Low(in))
      /\ Scenarios(in)[2] = [name |-> "Balanced", days |-> 35,
              keeps |-> {"inspection", "financing"}, price |-> Capped(in, BalancedPrice(in))]
      /\ Scenarios(in)[3] = [name |-> "Competitive", days |-> 30,
              keeps |-> {"inspection"}, price |-> Capped(in, High(in))]
  BY ScenariosAre
<1> QED
  BY <1>1

LEMMA CappedIs ==
  ASSUME NEW in \in EngineFacts, NEW p \in Int
  PROVE  /\ Capped(in, p) \in Int
         /\ in.budget # Absent => Capped(in, p) <= Unit * in.budget
         /\ Capped(in, p) # p => in.budget # Absent /\ Capped(in, p) = Unit * in.budget
         /\ \A q \in Int : q <= p => Capped(in, q) <= Capped(in, p)
<1>1. in.budget \in Int /\ Unit * in.budget \in Int
  BY DEF EngineFacts, Unit
<1> QED
  BY <1>1 DEF Capped

Plans == [name : {"Aggressive", "Balanced", "Competitive"}, days : Nat,
          keeps : SUBSET {"inspection", "financing", "appraisal"}, price : Int]

LEMMA RecommendedIs ==
  ASSUME NEW in \in EngineFacts
  PROVE  /\ RecommendedIndex(in) \in {2, 3}
         /\ Recommended(in) = Scenarios(in)[RecommendedIndex(in)]
         /\ RecommendedIndex(in) = 3 <=> in.rivals > 0
         /\ Recommended(in) \in Plans
<1>1. /\ RecommendedIndex(in) \in {2, 3}
      /\ Recommended(in) = Scenarios(in)[RecommendedIndex(in)]
      /\ RecommendedIndex(in) = 3 <=> in.rivals > 0
  BY DEF RecommendedIndex, Recommended
<1>2. Capped(in, BalancedPrice(in)) \in Int /\ Capped(in, High(in)) \in Int
  BY CappedIs, PricesAreNumbers, HighIs
<1>5. /\ Scenarios(in)[2] = [name |-> "Balanced", days |-> 35,
              keeps |-> {"inspection", "financing"}, price |-> Capped(in, BalancedPrice(in))]
      /\ Scenarios(in)[3] = [name |-> "Competitive", days |-> 30,
              keeps |-> {"inspection"}, price |-> Capped(in, High(in))]
  BY ScenariosAre
<1>3. Scenarios(in)[2] \in Plans
  BY <1>2, <1>5 DEF Plans
<1>4. Scenarios(in)[3] \in Plans
  BY <1>2, <1>5 DEF Plans
<1> QED
  BY <1>1, <1>3, <1>4

\* Whatever the facts, no scenario of the engine passes the budget it was given.
LEMMA WithinBudget ==
  ASSUME NEW in \in EngineFacts, in.budget # Absent
  PROVE  /\ \A i \in 1 .. 3 : Scenarios(in)[i].price <= Unit * in.budget
         /\ Recommended(in).price <= Unit * in.budget
<1>1. BalancedPrice(in) \in Int /\ Low(in) \in Int /\ High(in) \in Int
  BY PricesAreNumbers, HighIs
<1>2. /\ Capped(in, Low(in)) <= Unit * in.budget /\ Capped(in, BalancedPrice(in)) <= Unit * in.budget
      /\ Capped(in, High(in)) <= Unit * in.budget
  BY <1>1, CappedIs
<1>3. \A i \in 1 .. 3 : Scenarios(in)[i].price <= Unit * in.budget
  <2> TAKE i \in 1 .. 3
  <2>1. CASE i = 1
    BY <1>2, <2>1, PricesAre
  <2>2. CASE i = 2
    BY <1>2, <2>2, PricesAre
  <2>3. CASE i = 3
    BY <1>2, <2>3, PricesAre
  <2> QED
    BY <2>1, <2>2, <2>3
<1> QED
  BY <1>3, RecommendedIs
-----------------------------------------------------------------------------
LEMMA OfferIs ==
  ASSUME StrategyTypeOK
  PROVE  /\ pricing.likely \in Nat /\ leverage \in Nat /\ room.budget \in Nat
         /\ HasOffer => /\ offer.input \in EngineFacts /\ offer.input.list = 100
                        /\ offer.review \in {"pending", "approved", "rejected"}
<1>1. pricing.likely \in Nat /\ leverage \in Nat /\ room.budget \in Nat
  BY StrategyAssumption DEF StrategyTypeOK
<1>2. ASSUME HasOffer
      PROVE  offer \in [review : {"pending", "approved", "rejected"}, input : OfferInputs]
  BY <1>2 DEF StrategyTypeOK, HasOffer, NoOffer
<1>3. \A in \in OfferInputs : in \in EngineFacts /\ in.list = 100
  <2>1. \A v \in FairValues : Unit * v \in Int
    BY StrategyAssumption DEF Unit
  <2> QED
    BY <2>1, StrategyAssumption DEF OfferInputs, EngineFacts, List
<1> QED
  BY <1>1, <1>2, <1>3

\* The anchor the price is cleared to is a price, whichever of the three it is.
LEMMA ClarifiedIs ==
  ASSUME StrategyTypeOK, HasOffer
  PROVE  ClarifiedFairValue(offer.input) \in Int
<1>1. PICK in : in = offer.input
  OBVIOUS
<1>2. in \in EngineFacts /\ pricing.likely \in Nat
  BY <1>1, OfferIs
<1>3. Unit * pricing.likely \in Int
  BY <1>2 DEF Unit
<1>4. in.fair \in Int
  BY <1>2 DEF EngineFacts
<1>5. Recommended(in).price \in Int
  BY <1>2, RecommendedIs DEF Plans
<1> QED
  BY <1>1, <1>3, <1>4, <1>5 DEF ClarifiedFairValue

LEMMA BudgetIsKept == StrategyTypeOK => BudgetKept
<1> SUFFICES ASSUME StrategyTypeOK, HasOffer, offer.input.budget # Absent,
                    NEW s \in {Scenarios(offer.input)[i] : i \in 1 .. 3} \cup WhatIfs(offer.input)
             PROVE  s.price <= Unit * offer.input.budget
  BY DEF BudgetKept
<1>1. PICK in : in = offer.input
  OBVIOUS
<1>2. in \in EngineFacts /\ in.budget # Absent
  BY <1>1, OfferIs
<1>3. \/ s \in {Scenarios(in)[i] : i \in 1 .. 3}
      \/ s = PriceScenario(in) \/ s = UncertaintyScenario(in) \/ s \in TimingScenarios(in)
  BY <1>1 DEF WhatIfs
<1>4. CASE s \in {Scenarios(in)[i] : i \in 1 .. 3}
  BY <1>1, <1>2, <1>4, WithinBudget
<1>5. CASE s = PriceScenario(in)
  <2>1. PICK x : x = [in EXCEPT !.list = 98]
    OBVIOUS
  <2>2. x \in EngineFacts /\ x.budget = in.budget
    BY <1>2, <2>1 DEF EngineFacts
  <2> QED
    BY <1>1, <1>2, <1>5, <2>1, <2>2, WithinBudget DEF PriceScenario
<1>6. CASE s \in TimingScenarios(in)
  <2>1. ASSUME s = InTwoWeeks(in)
        PROVE  s.price <= Unit * offer.input.budget
    <3>1. PICK x : x = [in EXCEPT !.days = @ + 14]
      OBVIOUS
    <3>2. x \in EngineFacts /\ x.budget = in.budget
      BY <1>2, <3>1 DEF EngineFacts
    <3> QED
      BY <1>1, <1>2, <2>1, <3>1, <3>2, WithinBudget DEF InTwoWeeks
  <2>2. ASSUME NEW days \in Waits, NEW score \in Scores \ {Absent},
               s = InTwoWeeksFrom(in, days, score)
        PROVE  s.price <= Unit * offer.input.budget
    <3>1. PICK x : x = [in EXCEPT !.days = days + 14, !.score = score]
      OBVIOUS
    <3>2. days + 14 \in Nat /\ score \in Nat
      BY StrategyAssumption
    <3>3. x \in EngineFacts /\ x.budget = in.budget
      BY <1>2, <3>1, <3>2 DEF EngineFacts
    <3> QED
      BY <1>1, <1>2, <2>2, <3>1, <3>3, WithinBudget DEF InTwoWeeksFrom
  <2>3. \/ s = InTwoWeeks(in)
        \/ \E days \in Waits, score \in Scores \ {Absent} : s = InTwoWeeksFrom(in, days, score)
    BY <1>6 DEF TimingScenarios
  <2> QED
    BY <2>1, <2>2, <2>3
<1>7. CASE s = UncertaintyScenario(in)
  <2>1. PICK x : x = [in EXCEPT !.fair = ClarifiedFairValue(in)]
    OBVIOUS
  <2>2. x \in EngineFacts /\ x.budget = in.budget
    BY <1>1, <1>2, <2>1, ClarifiedIs DEF EngineFacts
  <2>3. Recommended(x).price <= Unit * in.budget
    BY <1>2, <2>2, WithinBudget
  <2>4. PICK now : now = Recommended(in)
    OBVIOUS
  <2>5. now \in Plans /\ now.price <= Unit * in.budget
    BY <1>2, <2>4, RecommendedIs, WithinBudget
  <2>6. ASSUME NEW c, NEW d
        PROVE  [now EXCEPT !.keeps = @ \ {c}, !.days = d].price = now.price
    BY <2>5 DEF Plans
  <2>7. CASE UncertaintyKey(in) = "financing"
    BY <1>1, <1>7, <2>4, <2>5, <2>6, <2>7 DEF UncertaintyScenario
  <2>8. CASE UncertaintyKey(in) = "appraisal"
    BY <1>1, <1>7, <2>4, <2>5, <2>6, <2>8 DEF UncertaintyScenario
  <2>9. CASE UncertaintyKey(in) \notin {"financing", "appraisal"}
    <3>1. UncertaintyScenario(in) = Recommended(x)
      BY <2>1, <2>9 DEF UncertaintyScenario
    <3> QED
      BY <1>1, <1>7, <2>3, <3>1
  <2> QED
    BY <2>7, <2>8, <2>9
<1> QED
  BY <1>3, <1>4, <1>5, <1>6, <1>7
-----------------------------------------------------------------------------
\* The two branches of a playbook.
LEMMA BranchesAre ==
  ASSUME StrategyTypeOK, HasOffer, NEW in, in = offer.input
  PROVE  /\ in \in EngineFacts /\ in.list = 100
         /\ HoldsCeiling <=> RecommendedIndex(in) = 3
         /\ HoldsCeiling => Fallback = Primary /\ Primary \in Plans
         /\ ~HoldsCeiling => /\ Primary.price = Capped(in, BalancedPrice(in))
                             /\ Fallback.price = Capped(in, High(in))
                             /\ Primary.keeps = {"inspection", "financing"}
                             /\ Fallback.keeps = {"inspection"}
<1>1. in \in EngineFacts /\ in.list = 100
  BY OfferIs
<1>2. HoldsCeiling <=> RecommendedIndex(in) = 3
  BY <1>1, ScenariosAre DEF HoldsCeiling
<1>3. Primary = Recommended(in) /\ Primary \in Plans
  BY <1>1, RecommendedIs DEF Primary
<1>4. HoldsCeiling => Fallback = Primary
  BY DEF Fallback
<1>5. ASSUME ~HoldsCeiling
      PROVE  Primary = Scenarios(in)[2] /\ Fallback = Scenarios(in)[3]
  <2>1. RecommendedIndex(in) = 2
    BY <1>1, <1>2, <1>5, RecommendedIs
  <2>2. 2 + 1 = 3
    OBVIOUS
  <2> QED
    BY <1>1, <1>3, <1>5, <2>1, <2>2, RecommendedIs DEF Fallback
<1>6. /\ Scenarios(in)[2] = [name |-> "Balanced", days |-> 35,
              keeps |-> {"inspection", "financing"}, price |-> Capped(in, BalancedPrice(in))]
      /\ Scenarios(in)[3] = [name |-> "Competitive", days |-> 30,
              keeps |-> {"inspection"}, price |-> Capped(in, High(in))]
  BY <1>1, ScenariosAre
<1> QED
  BY <1>1, <1>2, <1>3, <1>4, <1>5, <1>6

LEMMA BranchesClimb == StrategyTypeOK => LadderClimbs
<1> SUFFICES ASSUME StrategyTypeOK, HasPrimary, BalancedPrice(offer.input) <= 12600 * List
             PROVE  Fallback.price >= Primary.price
  BY DEF LadderClimbs
<1>1. PICK in : in = offer.input
  OBVIOUS
<1>2. HasOffer
  BY DEF HasPrimary
<1>3. in \in EngineFacts /\ in.list = 100
  BY <1>1, <1>2, BranchesAre
<1>4. CASE HoldsCeiling
  <2>1. Fallback = Primary /\ Primary \in Plans
    BY <1>1, <1>2, <1>4, BranchesAre
  <2> QED
    BY <2>1 DEF Plans
<1>5. CASE ~HoldsCeiling
  <2>1. Primary.price = Capped(in, BalancedPrice(in)) /\ Fallback.price = Capped(in, High(in))
    BY <1>1, <1>2, <1>5, BranchesAre
  <2>2. BalancedPrice(in) \in Int /\ High(in) \in Int
    BY <1>3, PricesAreNumbers, HighIs
  <2>3. BalancedPrice(in) <= 12600 * in.list
    BY <1>1, <1>3 DEF List
  <2>4. BalancedPrice(in) <= High(in)
    BY <1>3, <2>2, <2>3, HighIs
  <2>5. Capped(in, BalancedPrice(in)) <= Capped(in, High(in))
    BY <1>3, <2>2, <2>4, CappedIs
  <2>6. Capped(in, BalancedPrice(in)) \in Int /\ Capped(in, High(in)) \in Int
    BY <1>3, <2>2, CappedIs
  <2> QED
    BY <2>1, <2>5, <2>6
<1> QED
  BY <1>4, <1>5

LEMMA SameIsSaid == StrategyTypeOK => SamePriceSaid
<1> SUFFICES ASSUME StrategyTypeOK, HasPrimary, Fallback.price = Primary.price,
                    room.budget = offer.input.budget, BalancedPrice(offer.input) < 12600 * List
             PROVE  {"ladder_at_ceiling", "readiness_tight"} \cap InvalidationConditions # {}
  BY DEF SamePriceSaid
<1>1. PICK in : in = offer.input
  OBVIOUS
<1>2. HasOffer
  BY DEF HasPrimary
<1>3. in \in EngineFacts /\ in.list = 100
  BY <1>1, <1>2, BranchesAre
<1>4. CASE HoldsCeiling
  BY <1>4 DEF InvalidationConditions
<1>5. CASE ~HoldsCeiling
  <2>1. Primary.price = Capped(in, BalancedPrice(in)) /\ Fallback.price = Capped(in, High(in))
    BY <1>1, <1>2, <1>5, BranchesAre
  <2>2. PICK p, q : p = BalancedPrice(in) /\ q = High(in)
    OBVIOUS
  <2>3. p \in Int /\ q \in Int
    BY <1>3, <2>2, PricesAreNumbers, HighIs
  <2>4. p < 12600 * in.list
    BY <1>1, <1>3, <2>2 DEF List
  <2>5. p < q
    BY <1>3, <2>2, <2>4, HighIs
  <2>6. Capped(in, p) = Capped(in, q)
    BY <2>1, <2>2
  <2>7. Capped(in, p) # p \/ Capped(in, q) # q
    BY <2>3, <2>5, <2>6
  <2>8. /\ Capped(in, p) # p => in.budget # Absent /\ Capped(in, p) = Unit * in.budget
        /\ Capped(in, q) # q => in.budget # Absent /\ Capped(in, q) = Unit * in.budget
    BY <1>3, <2>3, CappedIs
  <2>9. in.budget # Absent /\ Fallback.price = Unit * in.budget
    BY <2>1, <2>2, <2>6, <2>7, <2>8
  <2>10. in.budget \in Nat
    BY <1>3 DEF EngineFacts
  <2>11. 100 * (Unit * in.budget) >= 98 * Unit * in.budget
    BY <2>10 DEF Unit
  <2>12. 100 * Fallback.price >= 98 * Unit * room.budget /\ room.budget # Absent
    BY <1>1, <2>9, <2>11
  <2>13. "readiness_tight" \in InvalidationConditions
    BY <1>5, <2>12 DEF InvalidationConditions
  <2> QED
    BY <2>13
<1> QED
  BY <1>4, <1>5

\* Days and contingencies depend on the lane alone.
LEMMA LaneIs ==
  ASSUME NEW in \in EngineFacts
  PROVE  \/ /\ RecommendedIndex(in) = 2 /\ Recommended(in).days = 35
            /\ Recommended(in).keeps = {"inspection", "financing"}
         \/ /\ RecommendedIndex(in) = 3 /\ Recommended(in).days = 30
            /\ Recommended(in).keeps = {"inspection"}
<1>1. CASE RecommendedIndex(in) = 2
  <2>1. Recommended(in) = [name |-> "Balanced", days |-> 35,
          keeps |-> {"inspection", "financing"}, price |-> Capped(in, BalancedPrice(in))]
    BY <1>1, RecommendedIs, ScenariosAre
  <2> QED
    BY <1>1, <2>1
<1>2. CASE RecommendedIndex(in) = 3
  <2>1. Recommended(in) = [name |-> "Competitive", days |-> 30,
          keeps |-> {"inspection"}, price |-> Capped(in, High(in))]
    BY <1>2, RecommendedIs, ScenariosAre
  <2> QED
    BY <1>2, <2>1
<1> QED
  BY <1>1, <1>2, RecommendedIs

LEMMA ClearingDoes == StrategyTypeOK => ClearingHelps
<1> SUFFICES ASSUME StrategyTypeOK, HasOffer
             PROVE  /\ UncertaintyScenario(offer.input).days <= Recommended(offer.input).days
                    /\ UncertaintyScenario(offer.input).keeps \subseteq Recommended(offer.input).keeps
  BY DEF ClearingHelps
<1>1. PICK in : in = offer.input
  OBVIOUS
<1>2. in \in EngineFacts /\ ClarifiedFairValue(in) \in Int
  BY <1>1, OfferIs, ClarifiedIs
<1>3. PICK now, next : now = Recommended(in) /\ next = UncertaintyScenario(in)
  OBVIOUS
<1>4. now \in Plans
  BY <1>2, <1>3, RecommendedIs
<1>5. CASE UncertaintyKey(in) = "financing"
  <2>1. "financing" \in now.keeps
    BY <1>3, <1>5 DEF UncertaintyKey
  <2>2. now.days = 35
    BY <1>2, <1>3, <2>1, LaneIs
  <2>3. Max({21, 28}) = 28
    <3>1. 21 \in Int /\ 28 \in Int
      OBVIOUS
    <3>2. Max({21, 28}) = IF 21 >= 28 THEN 21 ELSE 28
      BY <3>1, OfTwo
    <3> QED
      BY <3>2
  <2>4. next = [now EXCEPT !.keeps = @ \ {"financing"}, !.days = Max({21, 35 - 7})]
    BY <1>3, <1>4, <1>5, <2>2 DEF UncertaintyScenario, Plans
  <2>5. 35 - 7 = 28
    OBVIOUS
  <2>6. next = [now EXCEPT !.keeps = now.keeps \ {"financing"}, !.days = 28]
    BY <1>4, <2>3, <2>4, <2>5 DEF Plans
  <2>7. next.days = 28 /\ next.keeps \subseteq now.keeps
    BY <1>4, <2>6 DEF Plans
  <2> QED
    BY <1>1, <1>3, <2>2, <2>7
<1>6. CASE UncertaintyKey(in) = "appraisal"
  <2>1. "appraisal" \in now.keeps
    BY <1>3, <1>6 DEF UncertaintyKey
  <2> QED
    BY <1>2, <1>3, <2>1, LaneIs
<1>7. CASE UncertaintyKey(in) \notin {"financing", "appraisal"}
  <2>1. PICK x : x = [in EXCEPT !.fair = ClarifiedFairValue(in)]
    OBVIOUS
  <2>2. x \in EngineFacts /\ x.rivals = in.rivals
    BY <1>2, <2>1 DEF EngineFacts
  <2>3. next = Recommended(x)
    BY <1>3, <1>7, <2>1 DEF UncertaintyScenario
  <2>4. RecommendedIndex(x) = RecommendedIndex(in)
    BY <2>2 DEF RecommendedIndex
  <2>5. RecommendedIndex(in) = 2 \/ RecommendedIndex(in) = 3
    BY <1>2, RecommendedIs
  <2>6. \/ now.days = 35 /\ next.days = 35 /\ now.keeps = next.keeps
        \/ now.days = 30 /\ next.days = 30 /\ now.keeps = next.keeps
    BY <1>2, <1>3, <2>2, <2>3, <2>4, <2>5, LaneIs
  <2> QED
    BY <1>1, <1>3, <2>6
<1> QED
  BY <1>5, <1>6, <1>7

LEMMA ReadyIs == StrategyTypeOK => ReadyIsShown
BY DEF ReadyIsShown, PlaybookStatus, BuyerBranches, Shareable
-----------------------------------------------------------------------------
LEMMA ThreeAreFinite ==
  ASSUME NEW a, NEW b, NEW c, NEW S \in SUBSET {a, b, c}
  PROVE  IsFiniteSet(S) /\ Cardinality(S) \in Nat /\ Cardinality(S) <= 3
<1> DEFINE A == {a}
           B == A \cup {b}
           C == B \cup {c}
<1>1. IsFiniteSet(A) /\ Cardinality(A) = 1
  BY FS_Singleton
<1>2. IsFiniteSet(B) /\ Cardinality(B) \in {1, 2}
  <2> HIDE DEF A
  <2>1. /\ IsFiniteSet(A \cup {b})
        /\ Cardinality(A \cup {b}) = IF b \in A THEN Cardinality(A) ELSE Cardinality(A) + 1
    BY <1>1, FS_AddElement
  <2> QED
    BY <1>1, <2>1
<1>3. IsFiniteSet(C) /\ Cardinality(C) \in {1, 2, 3}
  <2> HIDE DEF B
  <2>1. /\ IsFiniteSet(B \cup {c})
        /\ Cardinality(B \cup {c}) = IF c \in B THEN Cardinality(B) ELSE Cardinality(B) + 1
    BY <1>2, FS_AddElement
  <2> QED
    BY <1>2, <2>1
<1>4. S \subseteq C
  OBVIOUS
<1> HIDE DEF C
<1>5. IsFiniteSet(S) /\ Cardinality(S) <= Cardinality(C) /\ Cardinality(S) \in Nat
  BY <1>3, <1>4, FS_Subset, FS_CardinalityType
<1> QED
  BY <1>3, <1>5

LEMMA AptIs ==
  /\ Apt(1) <=> ~HoldsCeiling /\ Fallback.price > Primary.price
  /\ Apt(3) => ~HoldsCeiling
  /\ Apt(4) <=> Cardinality(Fallback.keeps) < Cardinality(Primary.keeps)
  /\ Apt(5) <=> HoldsCeiling
BY DEF Apt

\* What is apt, and is among the first three that are, is said.
LEMMA FirstThreeAreSaid ==
  ASSUME NEW k \in 1 .. 5, Apt(k), NEW a, NEW b, NEW c, \A j \in 1 .. k : Apt(j) => j \in {a, b, c}
  PROVE  k \in Concessions
<1>1. PICK S : S = {j \in 1 .. k : Apt(j)}
  OBVIOUS
<1>2. S \in SUBSET {a, b, c}
  BY <1>1
<1>3. Cardinality(S) <= 3
  BY <1>2, ThreeAreFinite
<1> QED
  BY <1>1, <1>3 DEF Concessions

LEMMA CostsAreTold == StrategyTypeOK => CostsTold
<1> SUFFICES ASSUME StrategyTypeOK, HasPrimary,
                    NEW told, told = {ConcessionOrder[k] : k \in Concessions}
             PROVE  /\ Fallback.price > Primary.price => "price_step" \in told
                    /\ HoldsCeiling => "broker_review" \in told /\ "ladder_at_ceiling" \in InvalidationConditions
                    /\ Fallback.keeps # Primary.keeps =>
                         "contingency_trim" \in told \/ Cardinality(Concessions) = 3
  BY DEF CostsTold
<1>1. PICK in : in = offer.input
  OBVIOUS
<1>2. HasOffer
  BY DEF HasPrimary
<1>3. /\ ConcessionOrder[1] = "price_step" /\ ConcessionOrder[4] = "contingency_trim"
      /\ ConcessionOrder[5] = "broker_review"
  BY DEF ConcessionOrder
<1>4. HoldsCeiling => Fallback = Primary /\ Primary \in Plans
  BY <1>1, <1>2, BranchesAre
<1>5. ASSUME Fallback.price > Primary.price
      PROVE  "price_step" \in told
  <2>1. ~HoldsCeiling
    BY <1>4, <1>5 DEF Plans
  <2>2. Apt(1) /\ 1 \in 1 .. 5
    BY <1>5, <2>1, AptIs
  <2>3. \A j \in 1 .. 1 : Apt(j) => j \in {1, 1, 1}
    OBVIOUS
  <2>4. 1 \in Concessions
    BY <2>2, <2>3, FirstThreeAreSaid
  <2> QED
    BY <1>3, <2>4
<1>6. ASSUME HoldsCeiling
      PROVE  "broker_review" \in told /\ "ladder_at_ceiling" \in InvalidationConditions
  <2>1. ~Apt(1) /\ ~Apt(3) /\ Apt(5)
    BY <1>6, AptIs
  <2>2. ~Apt(4)
    <3>1. PICK keeps : keeps = Primary.keeps
      OBVIOUS
    <3>2. keeps \in SUBSET {"inspection", "financing", "appraisal"}
      BY <1>4, <1>6, <3>1 DEF Plans
    <3>3. Cardinality(keeps) \in Nat
      BY <3>2, ThreeAreFinite
    <3>4. ~(Cardinality(keeps) < Cardinality(keeps))
      BY <3>3
    <3> QED
      BY <1>4, <1>6, <3>1, <3>4, AptIs
  <2>3. \A j \in 1 .. 5 : Apt(j) => j \in {2, 5, 5}
    <3> TAKE j \in 1 .. 5
    <3>1. j = 1 \/ j = 2 \/ j = 3 \/ j = 4 \/ j = 5
      OBVIOUS
    <3> QED
      BY <2>1, <2>2, <3>1
  <2>4. 5 \in Concessions
    BY <2>1, <2>3, FirstThreeAreSaid
  <2> QED
    BY <1>3, <1>6, <2>4 DEF InvalidationConditions
<1>7. ASSUME Fallback.keeps # Primary.keeps
      PROVE  "contingency_trim" \in told \/ Cardinality(Concessions) = 3
  <2>1. ~HoldsCeiling
    BY <1>4, <1>7
  <2>2. Apt(4) /\ ~Apt(5)
    <3>1. Primary.keeps = {"inspection", "financing"} /\ Fallback.keeps = {"inspection"}
      BY <1>1, <1>2, <2>1, BranchesAre
    <3>2. PICK one : one = {"inspection"}
      OBVIOUS
    <3>3. IsFiniteSet(one) /\ Cardinality(one) = 1
      BY <3>2, FS_Singleton
    <3>4. "financing" \notin one
      BY <3>2
    <3>5. Cardinality(one \cup {"financing"}) = Cardinality(one) + 1
      BY <3>3, <3>4, FS_AddElement
    <3>6. one \cup {"financing"} = Primary.keeps /\ one = Fallback.keeps
      BY <3>1, <3>2
    <3>7. Cardinality(Primary.keeps) = 2 /\ Cardinality(Fallback.keeps) = 1
      BY <3>3, <3>5, <3>6
    <3> QED
      BY <2>1, <3>7, AptIs
  <2>3. CASE Apt(1) /\ Apt(2) /\ Apt(3)
    <3>1. \A k \in 1 .. 3 : k \in Concessions
      <4> TAKE k \in 1 .. 3
      <4>1. Apt(k) /\ k \in 1 .. 5
        <5>1. k = 1 \/ k = 2 \/ k = 3
          OBVIOUS
        <5> QED
          BY <2>3, <5>1
      <4>2. \A j \in 1 .. k : Apt(j) => j \in {1, 2, 3}
        OBVIOUS
      <4> QED
        BY <4>1, <4>2, FirstThreeAreSaid
    <3>2. 4 \notin Concessions
      <4>1. \A j \in 1 .. 4 : Apt(j)
        <5> TAKE j \in 1 .. 4
        <5>1. j = 1 \/ j = 2 \/ j = 3 \/ j = 4
          OBVIOUS
        <5> QED
          BY <2>2, <2>3, <5>1
      <4>2. {j \in 1 .. 4 : Apt(j)} = 1 .. 4
        BY <4>1
      <4>3. Cardinality(1 .. 4) = 4
        <5>1. 1 \in Int /\ 4 \in Int
          OBVIOUS
        <5>2. Cardinality(1 .. 4) = IF 1 > 4 THEN 0 ELSE 4 - 1 + 1
          BY <5>1, FS_Interval
        <5> QED
          BY <5>2
      <4> QED
        BY <4>2, <4>3 DEF Concessions
    <3>3. 5 \notin Concessions
      BY <2>2 DEF Concessions
    <3>4. \A k \in Concessions : k \in 1 .. 5
      BY DEF Concessions
    <3>5. Concessions = 1 .. 3
      <4>1. \A k \in Concessions : k \in 1 .. 3
        <5> TAKE k \in Concessions
        <5>1. k \in 1 .. 5 /\ k # 4 /\ k # 5
          BY <3>2, <3>3, <3>4
        <5> QED
          BY <5>1
      <4> QED
        BY <3>1, <4>1
    <3>6. Cardinality(1 .. 3) = 3
      <4>1. 1 \in Int /\ 3 \in Int
        OBVIOUS
      <4>2. Cardinality(1 .. 3) = IF 1 > 3 THEN 0 ELSE 3 - 1 + 1
        BY <4>1, FS_Interval
      <4> QED
        BY <4>2
    <3> QED
      BY <3>5, <3>6
  <2>4. CASE ~(Apt(1) /\ Apt(2) /\ Apt(3))
    <3>1. \E a, b, c : \A j \in 1 .. 4 : Apt(j) => j \in {a, b, c}
      <4>1. \A j \in 1 .. 4 : j = 1 \/ j = 2 \/ j = 3 \/ j = 4
        OBVIOUS
      <4>2. CASE ~Apt(1)
        <5>1. \A j \in 1 .. 4 : Apt(j) => j \in {2, 3, 4}
          BY <4>1, <4>2
        <5> QED
          BY <5>1
      <4>3. CASE ~Apt(2)
        <5>1. \A j \in 1 .. 4 : Apt(j) => j \in {1, 3, 4}
          BY <4>1, <4>3
        <5> QED
          BY <5>1
      <4>4. CASE ~Apt(3)
        <5>1. \A j \in 1 .. 4 : Apt(j) => j \in {1, 2, 4}
          BY <4>1, <4>4
        <5> QED
          BY <5>1
      <4> QED
        BY <2>4, <4>2, <4>3, <4>4
    <3>2. 4 \in 1 .. 5
      OBVIOUS
    <3>3. 4 \in Concessions
      BY <2>2, <3>1, <3>2, FirstThreeAreSaid
    <3> QED
      BY <1>3, <3>3
  <2> QED
    BY <2>3, <2>4
<1> QED
  BY <1>5, <1>6, <1>7
-----------------------------------------------------------------------------
LEMMA StrategyStep == StrategyTypeOK /\ [StrategyNext]_strategyVars => StrategyTypeOK'
<1> SUFFICES ASSUME StrategyTypeOK, [StrategyNext]_strategyVars
             PROVE  StrategyTypeOK'
  OBVIOUS
<1>1. CASE UNCHANGED strategyVars
  BY <1>1 DEF strategyVars, StrategyTypeOK
<1>2. ASSUME NEW days \in Waits, NEW rivals \in Rivals, NEW budget \in Budgets,
             RunOfferEngine(days, rivals, budget)
      PROVE  StrategyTypeOK'
  <2>1. Unit * pricing.fair \in {Unit * v : v \in FairValues}
    BY DEF StrategyTypeOK
  <2> QED
    BY <1>2, <2>1 DEF RunOfferEngine, StrategyTypeOK, OfferInputs
<1>3. ASSUME NEW review \in {"approved", "rejected"}, ReviewOffer(review)
      PROVE  StrategyTypeOK'
  <2>1. offer \in [review : {"pending", "approved", "rejected"}, input : OfferInputs]
    BY <1>3 DEF StrategyTypeOK, ReviewOffer, HasOffer, NoOffer
  <2>2. offer' \in [review : {"pending", "approved", "rejected"}, input : OfferInputs]
    BY <1>3, <2>1 DEF ReviewOffer
  <2> QED
    BY <1>3, <2>2 DEF StrategyTypeOK, ReviewOffer
<1>4. ASSUME NEW fair \in FairValues \ {Absent}, NEW likely \in FairValues \ {Absent},
             NEW review \in BOOLEAN, RunPricingEngine(fair, likely, review)
      PROVE  StrategyTypeOK'
  BY <1>4 DEF RunPricingEngine, StrategyTypeOK
<1>5. ASSUME NEW v \in Scores \ {Absent}, RunLeverageEngine(v)
      PROVE  StrategyTypeOK'
  BY <1>5 DEF RunLeverageEngine, StrategyTypeOK
<1>6. ASSUME NEW budget \in Budgets, NEW fast \in BOOLEAN, EditProfile(budget, fast)
      PROVE  StrategyTypeOK'
  BY <1>6 DEF EditProfile, StrategyTypeOK
<1>7. CASE CutPrice
  BY <1>7 DEF CutPrice, StrategyTypeOK
<1> QED
  BY <1>1, <1>2, <1>3, <1>4, <1>5, <1>6, <1>7 DEF StrategyNext

\* For every price, score, budget and rival (the offer engine and playbook.ts):
\* no scenario and no what-if asks for more than the budget, a playbook is ready
\* exactly when its branches are shown, the fallback pays no less than the first
\* branch and says what it costs, and clearing an uncertainty never makes it worse.
THEOREM StrategiesAreSound == StrategySpec => []StrategySound
<1>1. StrategyInit => StrategyTypeOK
  BY StrategyAssumption DEF StrategyInit, StrategyTypeOK, NoPricing, Absent
<1>2. StrategyTypeOK => StrategySound
  BY BudgetIsKept, ReadyIs, BranchesClimb, CostsAreTold, SameIsSaid, ClearingDoes DEF StrategySound
<1> QED
  BY <1>1, <1>2, StrategyStep, PTL DEF StrategySpec
-----------------------------------------------------------------------------
(***************************************************************************)
(* THE ADVICE OF A ROOM, which is computed from the facts of the moment.   *)
(***************************************************************************)
Effects == {"blocks", "review_required", "warns"}
Ids == {"contract", "flood", "milestone", "milestone-risk", "financing-credit", "document",
        "missing", "negotiation", "confidence", "missing-too", "financing-letter",
        "financing-approval", "withheld", "agreement"}

LEMMA TitlesAreNumbered == \A id \in Ids : TitleOrder[id] \in 1 .. 14
<1>1. DOMAIN Titles = 1 .. 14
  BY DEF Titles
<1>2. /\ Titles[1] = "contract" /\ Titles[2] = "flood" /\ Titles[3] = "milestone"
      /\ Titles[4] = "milestone-risk" /\ Titles[5] = "financing-credit" /\ Titles[6] = "document"
      /\ Titles[7] = "missing" /\ Titles[8] = "negotiation" /\ Titles[9] = "confidence"
      /\ Titles[10] = "missing-too" /\ Titles[11] = "financing-letter"
      /\ Titles[12] = "financing-approval" /\ Titles[13] = "withheld" /\ Titles[14] = "agreement"
  BY DEF Titles
<1> SUFFICES ASSUME NEW id \in Ids
             PROVE  TitleOrder[id] \in 1 .. 14
  OBVIOUS
<1>3. \E i \in DOMAIN Titles : Titles[i] = id
  <2>1. 1 \in 1 .. 14 /\ 2 \in 1 .. 14 /\ 3 \in 1 .. 14 /\ 4 \in 1 .. 14 /\ 5 \in 1 .. 14
        /\ 6 \in 1 .. 14 /\ 7 \in 1 .. 14 /\ 8 \in 1 .. 14 /\ 9 \in 1 .. 14 /\ 10 \in 1 .. 14
        /\ 11 \in 1 .. 14 /\ 12 \in 1 .. 14 /\ 13 \in 1 .. 14 /\ 14 \in 1 .. 14
    OBVIOUS
  <2> QED
    BY <1>1, <1>2, <2>1 DEF Ids
<1>4. id \in {Titles[i] : i \in DOMAIN Titles}
  BY <1>3
<1>5. TitleOrder[id] = CHOOSE i \in DOMAIN Titles : Titles[i] = id
  BY <1>4 DEF TitleOrder
<1> QED
  BY <1>1, <1>3, <1>5

\* What a blocker may say.
LEMMA BlockersAre ==
  ASSUME NEW b \in Blockers
  PROVE  /\ b.id \in Ids /\ b.effect \in {"blocks", "warns"}
         /\ "tour" \in b.on => b.id = "agreement" /\ "offer" \in b.on
         /\ "offer" \in b.on /\ "negotiate" \notin b.on => document.type = "loan_estimate"
         /\ \/ "tour" \in b.on \/ "offer" \in b.on \/ "negotiate" \in b.on \/ "close" \in b.on
<1>1. CASE b \in AgreementBlockers
  BY <1>1 DEF AgreementBlockers, When, Blocker, Ids
<1>2. CASE b \in FinancingBlockers
  BY <1>2 DEF FinancingBlockers, When, Blocker, Ids
<1>3. CASE b \in ConfidenceBlockers
  BY <1>3 DEF ConfidenceBlockers, When, Blocker, Ids
<1>4. CASE b \in DocumentBlockers
  <2>1. PICK on : on = DocumentCheckpoints
    OBVIOUS
  <2>2. /\ b = Blocker("document", IF document.status = "running" THEN "warns" ELSE "blocks", on)
        /\ on # {}
    BY <1>4, <2>1 DEF DocumentBlockers, When
  <2>3. /\ on \in {{"negotiate"}, {"offer", "close"}, {"close"}}
        /\ "offer" \in on => document.type = "loan_estimate"
    BY <2>1, <2>2 DEF DocumentCheckpoints
  <2> QED
    BY <2>2, <2>3 DEF Blocker, Ids
<1>5. CASE b \in NegotiationBlockers
  BY <1>5 DEF NegotiationBlockers, When, Blocker, Ids
<1>6. CASE b \in CloseBlockers
  BY <1>6 DEF CloseBlockers, When, Blocker, Ids
<1> QED
  BY <1>1, <1>2, <1>3, <1>4, <1>5, <1>6 DEF Blockers

LEMMA BlockedIs ==
  ASSUME NEW checkpoint
  PROVE  Blocked(checkpoint) <=> \E b \in Blockers : checkpoint \in b.on /\ b.effect = "blocks"
BY DEF Blocked, CheckpointState, Scoped

LEMMA FinancingAtClose == \A b \in FinancingBlockers : b \in Blockers /\ "close" \in b.on /\ b.effect \in {"blocks", "warns"}
BY DEF FinancingBlockers, Blockers, When, Blocker

LEMMA InOrder == CheckpointsInOrder
<1>1. Blocked("tour") => Blocked("offer")
  BY BlockedIs, BlockersAre
<1>2. Blocked("offer") /\ ~Blocked("negotiate") => document.type = "loan_estimate"
  BY BlockedIs, BlockersAre
<1>3. ~Blocked("close") => \A b \in FinancingBlockers : b.effect = "warns"
  BY BlockedIs, FinancingAtClose
<1> QED
  BY <1>1, <1>2, <1>3 DEF CheckpointsInOrder

LEMMA ConditionsAre ==
  ASSUME NEW role, NEW overview, NEW c \in Conditions(role, overview)
  PROVE  c.id \in Ids /\ c.effect \in Effects
<1>1. CASE c \in {[id |-> b.id, effect |-> b.effect] : b \in Blockers}
  BY <1>1, BlockersAre DEF Effects
<1>2. CASE c \in RiskConditions(role, overview.exposed)
  <2>1. PICK r \in Risks(role, overview.exposed) :
          c = [id |-> r.id, effect |-> IF r.review = "review_required" THEN r.review ELSE "warns"]
    BY <1>2 DEF RiskConditions
  <2>2. r.id \in {"flood", "milestone-risk"}
    BY <2>1 DEF Risks, When
  <2> QED
    BY <2>1, <2>2 DEF Effects, Ids
<1>3. CASE c \in ConfidenceConditions(overview)
  BY <1>3 DEF ConfidenceConditions, When, Effects, Ids
<1> QED
  BY <1>1, <1>2, <1>3 DEF Conditions

\* Where something more than a warning is left, it is among the four that are kept.
LEMMA GraveIsKept ==
  ASSUME NEW conditions, \A c \in conditions : c.id \in Ids /\ c.effect \in Effects,
         NEW grave \in conditions, grave.effect # "warns"
  PROVE  \E c \in Kept(conditions) : c.effect # "warns"
<1> DEFINE rank == [c \in conditions |-> EffectOrder[c.effect] + TitleOrder[c.id]]
           ranks == {rank[c] : c \in conditions}
<1>1. \A c \in conditions :
        /\ rank[c] \in Nat /\ c.effect \in Effects
        /\ c.effect # "warns" => rank[c] < 200
        /\ c.effect = "warns" => rank[c] > 200
  <2> TAKE c \in conditions
  <2>1. /\ EffectOrder["blocks"] = 0 /\ EffectOrder["review_required"] = 100
        /\ EffectOrder["warns"] = 200
    BY DEF EffectOrder
  <2>2. TitleOrder[c.id] \in 1 .. 14 /\ c.effect \in Effects
    BY TitlesAreNumbered
  <2>3. PICK t : t = TitleOrder[c.id]
    OBVIOUS
  <2>4. rank[c] = EffectOrder[c.effect] + t /\ t \in 1 .. 14
    BY <2>2, <2>3
  <2> HIDE DEF rank
  <2> QED
    BY <2>1, <2>2, <2>4 DEF Effects
<1> HIDE DEF rank
<1>2. ranks \in SUBSET Nat /\ ranks # {}
  BY <1>1
<1>3. PICK x \in ranks : \A y \in ranks : x <= y
  <2> HIDE DEF ranks
  <2> QED
    BY <1>2, LeastOf
<1>4. PICK c \in conditions : x = rank[c]
  BY <1>3
<1>5. \A q \in ranks : ~ (q < x)
  <2> HIDE DEF ranks
  <2> TAKE q \in ranks
  <2>1. q \in Nat /\ x \in Nat /\ x <= q
    BY <1>2, <1>3
  <2> QED
    BY <2>1
<1>6. c.effect # "warns"
  <2>1. rank[c] <= rank[grave] /\ rank[c] \in Nat /\ rank[grave] \in Nat /\ rank[grave] < 200
    BY <1>1, <1>3, <1>4
  <2>2. rank[c] < 200
    BY <2>1
  <2> QED
    BY <1>1, <2>1, <2>2
<1>7. Cardinality({q \in ranks : q < x}) < 4
  <2> HIDE DEF ranks
  <2>1. {q \in ranks : q < x} = {}
    BY <1>5
  <2> QED
    BY <2>1, FS_EmptySet
<1>8. c \in Cut(conditions, rank)
  BY <1>3, <1>4, <1>7 DEF Cut
<1>9. Kept(conditions) = Cut(conditions, rank)
  BY DEF Kept, rank
<1> QED
  BY <1>6, <1>8, <1>9

LEMMA TourMeans ==
  ASSUME NEW role, NEW overview, Kind(role, overview) = "tour"
  PROVE  \A c \in Conditions(role, overview) : c.effect = "warns"
<1> DEFINE all == Conditions(role, overview)
<1>1. ~HasEffect(Kept(all), "blocks") /\ ~HasEffect(Kept(all), "review_required")
  BY DEF Kind, CurrentStage
<1>3. \A c \in all : c.id \in Ids /\ c.effect \in Effects
  BY ConditionsAre
<1>4. Kept(all) \subseteq all
  BY DEF Kept, Cut
<1> HIDE DEF all
<1>5. \A c \in Kept(all) : c.effect = "warns"
  BY <1>1, <1>3, <1>4 DEF HasEffect, Effects
<1>6. \A c \in all : c.effect = "warns"
  BY <1>3, <1>5, GraveIsKept
<1> QED
  BY <1>6 DEF all

LEMMA AdviceClear == AdviceIsClear
<1> SUFFICES ASSUME NEW overview \in Overviews
             PROVE  LET buyers == Kind("buyer", overview)  brokers == Kind("broker", overview)
                    IN /\ buyers = "tour" =>
                            /\ \A c \in Conditions("buyer", overview) : c.effect = "warns"
                            /\ \A checkpoint \in Checkpoints : ~Blocked(checkpoint)
                       /\ brokers = "tour" => buyers = "tour" /\ transaction.milestone \notin UnderReview
                       /\ buyers = "skip" => brokers = "skip"
  BY DEF AdviceIsClear
<1>1. ASSUME Kind("buyer", overview) = "tour"
      PROVE  /\ \A c \in Conditions("buyer", overview) : c.effect = "warns"
             /\ \A checkpoint \in Checkpoints : ~Blocked(checkpoint)
  <2>1. \A c \in Conditions("buyer", overview) : c.effect = "warns"
    BY <1>1, TourMeans
  <2>2. \A b \in Blockers : b.effect # "blocks"
    <3> TAKE b \in Blockers
    <3>1. [id |-> b.id, effect |-> b.effect] \in Conditions("buyer", overview)
      BY DEF Conditions
    <3> QED
      BY <2>1, <3>1
  <2> QED
    BY <2>1, <2>2, BlockedIs
<1>2. ASSUME Kind("broker", overview) = "tour"
      PROVE  Kind("buyer", overview) = "tour" /\ transaction.milestone \notin UnderReview
  <2>1. \A c \in Conditions("broker", overview) : c.effect = "warns"
    BY <1>2, TourMeans
  <2>2. transaction.milestone \notin UnderReview
    <3> SUFFICES ASSUME transaction.milestone \in UnderReview
                 PROVE  FALSE
      OBVIOUS
    <3>1. PICK r : r = [id |-> "milestone-risk", review |-> "review_required",
             severity |-> IF transaction.milestone = "missing_required" THEN "high" ELSE "medium"]
      OBVIOUS
    <3>2. r \in Risks("broker", overview.exposed) /\ r.review = "review_required"
      BY <3>1 DEF Risks, When
    <3>3. PICK c : c = [id |-> r.id, effect |-> "review_required"]
      OBVIOUS
    <3>4. c \in RiskConditions("broker", overview.exposed)
      BY <3>2, <3>3 DEF RiskConditions
    <3>5. c \in Conditions("broker", overview)
      BY <3>4 DEF Conditions
    <3>6. c.effect # "warns"
      BY <3>3
    <3> QED
      BY <2>1, <3>5, <3>6
  <2>3. Risks("broker", overview.exposed) = Risks("buyer", overview.exposed)
    BY <2>2 DEF Risks, When
  <2>4. Conditions("broker", overview) = Conditions("buyer", overview)
        /\ Direction("broker", overview) = Direction("buyer", overview)
    BY <2>3 DEF Conditions, RiskConditions, Direction
  <2>5. Kind("broker", overview) = Kind("buyer", overview)
    BY <2>4 DEF Kind
  <2> QED
    BY <1>2, <2>2, <2>5
<1>3. ASSUME Kind("buyer", overview) = "skip"
      PROVE  Kind("broker", overview) = "skip"
  <2>1. Direction("buyer", overview) = "negative"
    BY <1>3 DEF Kind, CurrentStage
  <2>2. \/ /\ overview.leaning.confidence >= 72 /\ overview.leaning.weak
           /\ \E r \in Risks("buyer", overview.exposed) : r.severity = "high"
        \/ overview.leaning.conflicts /\ overview.leaning.confidence >= 68
    BY <2>1 DEF Direction
  <2>3. Risks("buyer", overview.exposed) \subseteq Risks("broker", overview.exposed)
    BY DEF Risks, When
  <2>4. Direction("broker", overview) = "negative"
    BY <2>2, <2>3 DEF Direction
  <2> QED
    BY <2>4 DEF Kind
<1> QED
  BY <1>1, <1>2, <1>3

\* Whatever the facts of the room (the readiness of a deal): a checkpoint that
\* comes later is never easier than one before it, "tour it next" is said only to
\* a buyer whom nothing holds, and the broker is told no more than the buyer.
THEOREM AdviceIsSound == ReadinessSpec => []ReadinessSound
<1>1. ReadinessSound
  BY InOrder, AdviceClear DEF ReadinessSound
<1> QED
  BY <1>1, PTL
-----------------------------------------------------------------------------
\* WHAT THE STAFF WRITES AT ITS DESK.

LEMMA GreatestOf ==
  ASSUME NEW n \in Nat, NEW S, S \subseteq 1 .. n, S # {}
  PROVE  Max(S) \in S /\ \A k \in S : k <= Max(S)
<1>1. PICK x \in S : \A k \in S : k <= x
  BY LastOf
<1>2. \A k \in S : x >= k
  BY <1>1
<1> QED
  BY <1>2 DEF Max

\* A sequence of whatever it is one of, and what an entry more makes of it.
IsSequence(s) == \E S : s \in Seq(S)

LEMMA Appended ==
  ASSUME NEW s, IsSequence(s), NEW e
  PROVE  /\ Len(s) \in Nat /\ DOMAIN s = 1 .. Len(s)
         /\ IsSequence(Append(s, e))
         /\ Len(Append(s, e)) = Len(s) + 1
         /\ DOMAIN Append(s, e) = 1 .. Len(s) + 1
         /\ \A k \in 1 .. Len(s) : Append(s, e)[k] = s[k]
         /\ Append(s, e)[Len(s) + 1] = e
<1>1. PICK S : s \in Seq(S)
  BY DEF IsSequence
<1>2. PICK T : T = S \cup {e}
  OBVIOUS
<1>3. s \in Seq(T) /\ e \in T
  <2>1. S \subseteq T
    BY <1>2
  <2>2. s \in Seq(T)
    BY <1>1, <2>1
  <2> QED
    BY <1>2, <2>2
<1>4. /\ Append(s, e) \in Seq(T)
      /\ Len(Append(s, e)) = Len(s) + 1
      /\ \A k \in 1 .. Len(s) : Append(s, e)[k] = s[k]
      /\ Append(s, e)[Len(s) + 1] = e
  BY <1>3, AppendProperties
<1>5. Len(s) \in Nat /\ DOMAIN s = 1 .. Len(s) /\ DOMAIN Append(s, e) = 1 .. Len(Append(s, e))
  BY <1>1, <1>4
<1> QED
  BY <1>4, <1>5 DEF IsSequence

\* The audit as a table: what one entry more changes in what is read from it.
AuditGrows(e) == IsSequence(audit) /\ audit' = Append(audit, e)

LEMMA AuditIs ==
  ASSUME NEW e, AuditGrows(e)
  PROVE  \E n \in Nat : /\ n = Len(audit) /\ DOMAIN audit = 1 .. n
                        /\ DOMAIN audit' = 1 .. n + 1 /\ IsSequence(audit')
                        /\ \A k \in 1 .. n : audit'[k] = audit[k]
                        /\ audit'[n + 1] = e
                        /\ \A k \in 1 .. n + 1 : k \in 1 .. n \/ k = n + 1
                        /\ \A k \in 1 .. n : k \in 1 .. n + 1 /\ k # n + 1 /\ k < n + 1
<1>1. PICK n \in Nat : n = Len(audit)
  BY Appended DEF AuditGrows
<1>2. /\ DOMAIN audit = 1 .. n /\ DOMAIN audit' = 1 .. n + 1 /\ IsSequence(audit')
      /\ \A k \in 1 .. n : audit'[k] = audit[k]
      /\ audit'[n + 1] = e
  BY <1>1, Appended DEF AuditGrows
<1>3. \A k \in 1 .. n + 1 : k \in 1 .. n \/ k = n + 1
  OBVIOUS
<1>4. \A k \in 1 .. n : k \in 1 .. n + 1 /\ k # n + 1 /\ k < n + 1
  OBVIOUS
<1> QED
  BY <1>1, <1>2, <1>3, <1>4

\* A set of entries that does not change tells what it told.
LEMMA SameEntries ==
  ASSUME NEW e, AuditGrows(e), NEW ks, ks \subseteq DOMAIN audit, NEW first
  PROVE  /\ LastAfter(ks, first)' = LastAfter(ks, first)
         /\ ks # {} => Max(ks) \in ks /\ audit'[Max(ks)] = audit[Max(ks)]
         /\ Chained(ks, first)' <=> Chained(ks, first)
<1>1. PICK n \in Nat : /\ n = Len(audit) /\ DOMAIN audit = 1 .. n
                       /\ \A k \in 1 .. n : audit'[k] = audit[k]
  BY AuditIs
<1>2. ASSUME NEW ls, ls \subseteq ks
      PROVE  /\ LastAfter(ls, first)' = LastAfter(ls, first)
             /\ ls # {} => Max(ls) \in ls /\ audit'[Max(ls)] = audit[Max(ls)]
  <2>1. CASE ls = {}
    BY <2>1 DEF LastAfter
  <2>2. CASE ls # {}
    <3>1. ls \subseteq 1 .. n
      BY <1>1, <1>2
    <3>2. Max(ls) \in ls
      BY <2>2, <3>1, GreatestOf
    <3> QED
      BY <1>1, <2>2, <3>1, <3>2 DEF LastAfter
  <2> QED
    BY <2>1, <2>2
<1>3. \A k \in ks : Earlier(ks, k) \subseteq ks
  BY DEF Earlier
<1>4. \A k \in ks : LastAfter(Earlier(ks, k), first)' = LastAfter(Earlier(ks, k), first)
  <2> TAKE k \in ks
  <2>1. Earlier(ks, k)' = Earlier(ks, k)
    BY DEF Earlier
  <2> QED
    BY <1>2, <1>3, <2>1 DEF LastAfter
<1>5. \A k \in ks : audit'[k] = audit[k]
  BY <1>1
<1>6. Chained(ks, first)' <=> \A k \in ks : audit'[k].before = LastAfter(Earlier(ks, k), first)'
  BY DEF Chained, Earlier
<1> QED
  BY <1>2, <1>4, <1>5, <1>6 DEF Chained

\* An entry more is the last, and goes on from what was told last.
LEMMA MoreEntries ==
  ASSUME NEW e, AuditGrows(e), NEW ks, ks \subseteq DOMAIN audit, NEW first,
         NEW more, more = ks \cup {Len(audit) + 1}
  PROVE  /\ Max(more) = Len(audit) + 1
         /\ LastAfter(more, first)' = e.after
         /\ Earlier(more, Len(audit) + 1) = ks
         /\ \A k \in ks : Earlier(more, k) = Earlier(ks, k)
         /\ Chained(ks, first) /\ e.before = LastAfter(ks, first) => Chained(more, first)'
<1>1. PICK n \in Nat : /\ n = Len(audit) /\ DOMAIN audit = 1 .. n
                       /\ \A k \in 1 .. n : audit'[k] = audit[k]
                       /\ audit'[n + 1] = e
                       /\ \A k \in 1 .. n : k \in 1 .. n + 1 /\ k # n + 1 /\ k < n + 1
  BY AuditIs
<1>2. more \subseteq 1 .. n + 1 /\ more # {} /\ n + 1 \in Nat /\ n + 1 \in more
  BY <1>1
<1>3. Max(more) \in more /\ \A k \in more : k <= Max(more)
  BY <1>2, GreatestOf
<1>4. Max(more) = n + 1
  <2>1. n + 1 <= Max(more) /\ Max(more) \in 1 .. n + 1
    BY <1>2, <1>3
  <2> QED
    BY <2>1
<1>5. LastAfter(more, first)' = e.after
  BY <1>1, <1>2, <1>4 DEF LastAfter
<1>6. Earlier(more, n + 1) = ks
  <2>1. \A l \in ks : l < n + 1
    BY <1>1
  <2>2. \A l \in more : l < n + 1 => l \in ks
    BY <1>1
  <2> QED
    BY <1>1, <2>1, <2>2 DEF Earlier
<1>7. \A k \in ks : Earlier(more, k) = Earlier(ks, k)
  <2> TAKE k \in ks
  <2>1. ~ (n + 1 < k)
    BY <1>1
  <2> QED
    BY <1>1, <2>1 DEF Earlier
<1>8. ASSUME Chained(ks, first), e.before = LastAfter(ks, first)
      PROVE  Chained(more, first)'
  <2>1. Chained(ks, first)'
    BY <1>8, SameEntries
  <2>2. ASSUME NEW k \in more
        PROVE  audit'[k].before = LastAfter(Earlier(more, k), first)'
    <3>1. CASE k \in ks
      <4>1. audit'[k].before = LastAfter(Earlier(ks, k), first)'
        BY <2>1, <3>1 DEF Chained, Earlier
      <4> QED
        BY <1>7, <3>1, <4>1 DEF LastAfter
    <3>2. CASE k = n + 1
      <4>1. LastAfter(ks, first)' = LastAfter(ks, first)
        BY SameEntries
      <4> QED
        BY <1>1, <1>6, <1>8, <3>2, <4>1 DEF LastAfter
    <3> QED
      BY <1>1, <2>2, <3>1, <3>2
  <2> QED
    BY <2>2 DEF Chained, Earlier
<1> QED
  BY <1>1, <1>4, <1>5, <1>6, <1>7, <1>8

\* Which entries are about an id afterwards.
LEMMA EntriesAfter ==
  ASSUME NEW e, AuditGrows(e), NEW id, NEW actions
  PROVE  /\ Entries(id, actions) \subseteq DOMAIN audit
         /\ e.id = id /\ e.action \in actions =>
              Entries(id, actions)' = Entries(id, actions) \cup {Len(audit) + 1}
         /\ ~ (e.id = id /\ e.action \in actions) =>
              Entries(id, actions)' = Entries(id, actions)
<1>1. PICK n \in Nat : /\ n = Len(audit) /\ DOMAIN audit = 1 .. n
                       /\ DOMAIN audit' = 1 .. n + 1
                       /\ \A k \in 1 .. n : audit'[k] = audit[k]
                       /\ audit'[n + 1] = e
                       /\ \A k \in 1 .. n + 1 : k \in 1 .. n \/ k = n + 1
                       /\ \A k \in 1 .. n : k \in 1 .. n + 1 /\ k # n + 1
  BY AuditIs
<1>2. n + 1 \in 1 .. n + 1
  OBVIOUS
<1>3. Entries(id, actions)' =
        Entries(id, actions) \cup {k \in {n + 1} : e.id = id /\ e.action \in actions}
  BY <1>1, <1>2 DEF Entries
<1> QED
  BY <1>1, <1>3 DEF Entries

-----------------------------------------------------------------------------
ItemRow == [status : {"open", "in_review"} \cup Closed, assignee : Staff \cup {"nobody"},
            priority : {"normal", "urgent"}]
QueueOk == items \in [Items -> ItemRow] /\ \A i \in Items : ItemAudited(i)

\* The entries of an id and some actions, told by name of what they are afterwards.
LEMMA EntriesTell ==
  ASSUME NEW e, AuditGrows(e), NEW i, NEW actions, NEW first
  PROVE  LET old == Entries(i, actions)
         IN /\ ~ (e.id = i /\ e.action \in actions) =>
                 /\ Chained(Entries(i, actions), first)' <=> Chained(old, first)
                 /\ LastAfter(Entries(i, actions), first)' = LastAfter(old, first)
            /\ e.id = i /\ e.action \in actions =>
                 /\ Chained(old, first) /\ e.before = LastAfter(old, first) =>
                      Chained(Entries(i, actions), first)'
                 /\ LastAfter(Entries(i, actions), first)' = e.after
<1>1. PICK A, B : A = Entries(i, actions) /\ B = Entries(i, actions)'
  OBVIOUS
<1>2. /\ A \subseteq DOMAIN audit
      /\ e.id = i /\ e.action \in actions => B = A \cup {Len(audit) + 1}
      /\ ~ (e.id = i /\ e.action \in actions) => B = A
  BY <1>1, EntriesAfter
<1>3. /\ Chained(Entries(i, actions), first)' <=> Chained(B, first)'
      /\ LastAfter(Entries(i, actions), first)' = LastAfter(B, first)'
  BY <1>1 DEF Chained, LastAfter, Earlier
<1>4. CASE e.id = i /\ e.action \in actions
  <2>1. /\ LastAfter(B, first)' = e.after
        /\ Chained(A, first) /\ e.before = LastAfter(A, first) => Chained(B, first)'
    BY <1>2, <1>4, MoreEntries
  <2> QED
    BY <1>1, <1>3, <1>4, <2>1
<1>5. CASE ~ (e.id = i /\ e.action \in actions)
  <2>1. LastAfter(A, first)' = LastAfter(A, first) /\ (Chained(A, first)' <=> Chained(A, first))
    BY <1>2, SameEntries
  <2>2. Chained(B, first)' <=> Chained(A, first)'
    BY <1>2, <1>5
  <2>3. LastAfter(B, first)' = LastAfter(A, first)'
    BY <1>2, <1>5
  <2> QED
    BY <1>1, <1>3, <1>5, <2>1, <2>2, <2>3
<1> QED
  BY <1>4, <1>5

\* The status of an item is told by the last claim or closing.
Moves(i) == Entries(i, {"claimed"} \cup Closed)
MovesTell(i) ==
  /\ \A k, l \in Moves(i) : audit[k].action \in Closed => l <= k
  /\ items[i].status = IF Moves(i) = {} THEN "open"
                       ELSE IF audit[Max(Moves(i))].action = "claimed" THEN "in_review"
                       ELSE audit[Max(Moves(i))].action

LEMMA MovesRest ==
  ASSUME NEW e, AuditGrows(e), NEW i,
         ~ (e.id = i /\ e.action \in {"claimed"} \cup Closed),
         MovesTell(i), items'[i].status = items[i].status
  PROVE  MovesTell(i)'
<1>1. Moves(i)' = Moves(i) /\ Moves(i) \subseteq DOMAIN audit
  BY EntriesAfter DEF Moves
<1>2. Moves(i) # {} => audit'[Max(Moves(i))] = audit[Max(Moves(i))]
  BY <1>1, SameEntries
<1>3. \A k \in Moves(i) : audit'[k] = audit[k]
  BY <1>1, AuditIs
<1>4. \A k, l \in Moves(i) : audit'[k].action \in Closed => l <= k
  BY <1>3 DEF MovesTell
<1>5. items'[i].status = IF Moves(i) = {} THEN "open"
                         ELSE IF audit'[Max(Moves(i))].action = "claimed" THEN "in_review"
                         ELSE audit'[Max(Moves(i))].action
  BY <1>2 DEF MovesTell
<1> QED
  BY <1>1, <1>4, <1>5 DEF MovesTell

LEMMA MovesGrow ==
  ASSUME NEW e, AuditGrows(e), NEW i, e.id = i, e.action \in {"claimed"} \cup Closed,
         MovesTell(i), items[i].status \notin Closed,
         items'[i].status = IF e.action = "claimed" THEN "in_review" ELSE e.action
  PROVE  MovesTell(i)'
<1>1. PICK A, B : A = Moves(i) /\ B = Moves(i)'
  OBVIOUS
<1>2. PICK n \in Nat : /\ n = Len(audit) /\ DOMAIN audit = 1 .. n
                       /\ \A k \in 1 .. n : audit'[k] = audit[k]
                       /\ audit'[n + 1] = e
                       /\ \A k \in 1 .. n : k \in 1 .. n + 1 /\ k # n + 1 /\ k < n + 1
  BY AuditIs
<1>3. B = A \cup {n + 1} /\ A \subseteq 1 .. n
  BY <1>1, <1>2, EntriesAfter DEF Moves
<1>4. Max(B) = n + 1
  <2>1. A \subseteq DOMAIN audit /\ B = A \cup {Len(audit) + 1}
    BY <1>2, <1>3
  <2> QED
    BY <1>2, <2>1, MoreEntries, ZenonT(60)
<1>5. \A k \in A : audit[k].action \notin Closed
  <2> SUFFICES ASSUME NEW k \in A, audit[k].action \in Closed
               PROVE  FALSE
    OBVIOUS
  <2>1. Max(A) \in A /\ k <= Max(A)
    BY <1>3, GreatestOf
  <2>2. Max(A) <= k
    BY <1>1, <2>1 DEF MovesTell
  <2>3. Max(A) = k
    <3>1. Max(A) \in 1 .. n /\ k \in 1 .. n
      BY <1>3, <2>1
    <3> QED
      BY <2>1, <2>2, <3>1
  <2>4. "claimed" \notin Closed
    BY DEF Closed
  <2> QED
    BY <1>1, <2>3, <2>4 DEF MovesTell
<1>6. \A k, l \in B : audit'[k].action \in Closed => l <= k
  <2> SUFFICES ASSUME NEW k \in B, NEW l \in B, audit'[k].action \in Closed
               PROVE  l <= k
    OBVIOUS
  <2>1. k = n + 1
    BY <1>2, <1>3, <1>5
  <2>2. l \in 1 .. n \/ l = n + 1
    BY <1>3
  <2> QED
    BY <2>1, <2>2
<1>7. B # {} /\ audit'[Max(B)] = e
  BY <1>2, <1>3, <1>4
<1>8. "claimed" \notin Closed
  BY DEF Closed
<1>9. items'[i].status = IF B = {} THEN "open"
                         ELSE IF audit'[Max(B)].action = "claimed" THEN "in_review"
                         ELSE audit'[Max(B)].action
  BY <1>7
<1> QED
  BY <1>1, <1>6, <1>9 DEF MovesTell

\* An entry about another item tells nothing of this one.
LEMMA ItemRests ==
  ASSUME NEW e, AuditGrows(e), NEW i, e.id # i, ItemAudited(i), items'[i] = items[i]
  PROVE  ItemAudited(i)'
<1>1. /\ Chained(Entries(i, {"claimed"}), "nobody")
      /\ items[i].assignee = LastAfter(Entries(i, {"claimed"}), "nobody")
      /\ Chained(Entries(i, {"priority"}), "normal")
      /\ items[i].priority = LastAfter(Entries(i, {"priority"}), "normal")
      /\ MovesTell(i)
  BY DEF ItemAudited, MovesTell, Moves
<1>2. /\ Chained(Entries(i, {"claimed"}), "nobody")'
      /\ items'[i].assignee = LastAfter(Entries(i, {"claimed"}), "nobody")'
  BY <1>1, EntriesTell
<1>3. /\ Chained(Entries(i, {"priority"}), "normal")'
      /\ items'[i].priority = LastAfter(Entries(i, {"priority"}), "normal")'
  BY <1>1, EntriesTell
<1>4. MovesTell(i)'
  BY <1>1, MovesRest
<1> QED
  BY <1>2, <1>3, <1>4 DEF ItemAudited, MovesTell, Moves

LEMMA ItemWritten ==
  ASSUME QueueOk, NEW i \in Items, NEW row \in ItemRow, items' = [items EXCEPT ![i] = row],
         NEW e, AuditGrows(e), e.id = i,
         \/ /\ e.action = "claimed" /\ items[i].status \notin Closed
            /\ row.status = "in_review" /\ row.priority = items[i].priority
            /\ e.before = items[i].assignee /\ row.assignee = e.after
         \/ /\ e.action \in Closed /\ items[i].status \notin Closed
            /\ row.status = e.action /\ row.priority = items[i].priority
            /\ row.assignee = items[i].assignee
         \/ /\ e.action = "priority"
            /\ row.status = items[i].status /\ row.assignee = items[i].assignee
            /\ e.before = items[i].priority /\ row.priority = e.after
  PROVE  QueueOk'
<1>1. items' \in [Items -> ItemRow]
  BY DEF QueueOk
<1>2. items'[i] = row /\ \A k \in Items \ {i} : items'[k] = items[k]
  BY DEF QueueOk
<1>3. \A k \in Items \ {i} : ItemAudited(k)'
  <2> TAKE k \in Items \ {i}
  <2>1. ItemAudited(k)
    BY DEF QueueOk
  <2> QED
    BY <1>2, <2>1, ItemRests
<1>4. /\ Chained(Entries(i, {"claimed"}), "nobody")
      /\ items[i].assignee = LastAfter(Entries(i, {"claimed"}), "nobody")
      /\ Chained(Entries(i, {"priority"}), "normal")
      /\ items[i].priority = LastAfter(Entries(i, {"priority"}), "normal")
      /\ MovesTell(i)
  BY DEF QueueOk, ItemAudited, MovesTell, Moves
<1>5. "claimed" \notin Closed /\ "priority" \notin Closed
  BY DEF Closed
<1>6. /\ Chained(Entries(i, {"claimed"}), "nobody")'
      /\ items'[i].assignee = LastAfter(Entries(i, {"claimed"}), "nobody")'
  <2>1. CASE e.action = "claimed"
    BY <1>2, <1>4, <1>5, <2>1, EntriesTell
  <2>2. CASE e.action # "claimed"
    BY <1>2, <1>4, <1>5, <2>2, EntriesTell
  <2> QED
    BY <2>1, <2>2
<1>7. /\ Chained(Entries(i, {"priority"}), "normal")'
      /\ items'[i].priority = LastAfter(Entries(i, {"priority"}), "normal")'
  <2>1. CASE e.action = "priority"
    BY <1>2, <1>4, <1>5, <2>1, EntriesTell
  <2>2. CASE e.action # "priority"
    BY <1>2, <1>4, <1>5, <2>2, EntriesTell
  <2> QED
    BY <2>1, <2>2
<1>8. MovesTell(i)'
  <2>1. CASE e.action = "priority"
    BY <1>2, <1>4, <1>5, <2>1, MovesRest
  <2>2. CASE e.action = "claimed"
    BY <1>2, <1>4, <1>5, <2>2, MovesGrow
  <2>3. CASE e.action \in Closed
    BY <1>2, <1>4, <1>5, <2>3, MovesGrow
  <2> QED
    BY <2>1, <2>2, <2>3
<1>9. ItemAudited(i)'
  BY <1>6, <1>7, <1>8 DEF ItemAudited, MovesTell, Moves
<1> QED
  BY <1>1, <1>3, <1>9 DEF QueueOk

-----------------------------------------------------------------------------
ActivationTold(ks, k) ==
  audit[k].after = audit[k].id /\ audit[k].before = Replaced(audit[k].id, Earlier(ks, k))

TemplatesOk ==
  /\ \A v \in DOMAIN templates : templates[v] \in BOOLEAN
  /\ ActiveVersions = IF Activations = {} THEN {} ELSE {audit[Max(Activations)].id}
  /\ \A k \in Activations : ActivationTold(Activations, k)

LEMMA ActivationsAfter ==
  ASSUME NEW e, AuditGrows(e)
  PROVE  /\ Activations \subseteq DOMAIN audit
         /\ e.action = "activated" => Activations' = Activations \cup {Len(audit) + 1}
         /\ e.action # "activated" => Activations' = Activations
<1>1. PICK n \in Nat : /\ n = Len(audit) /\ DOMAIN audit = 1 .. n
                       /\ DOMAIN audit' = 1 .. n + 1
                       /\ \A k \in 1 .. n : audit'[k] = audit[k]
                       /\ audit'[n + 1] = e
                       /\ \A k \in 1 .. n + 1 : k \in 1 .. n \/ k = n + 1
                       /\ \A k \in 1 .. n : k \in 1 .. n + 1 /\ k # n + 1
  BY AuditIs
<1>2. n + 1 \in 1 .. n + 1
  OBVIOUS
<1>3. Activations' = Activations \cup {k \in {n + 1} : e.action = "activated"}
  BY <1>1, <1>2 DEF Activations
<1> QED
  BY <1>1, <1>3 DEF Activations

\* What is told of an activation stays so.
LEMMA ActivationStays ==
  ASSUME NEW e, AuditGrows(e), NEW ks, ks \subseteq DOMAIN audit, NEW more,
         more = ks \/ more = ks \cup {Len(audit) + 1}, NEW k \in ks, ActivationTold(ks, k)
  PROVE  ActivationTold(more, k)'
<1>1. Earlier(more, k) = Earlier(ks, k) /\ Earlier(ks, k) \subseteq DOMAIN audit
  <2>1. CASE more = ks
    BY <2>1 DEF Earlier
  <2>2. CASE more = ks \cup {Len(audit) + 1}
    <3>1. Earlier(more, k) = Earlier(ks, k)
      <4>1. Len(audit) \in Nat /\ k \in 1 .. Len(audit)
        BY AuditIs
      <4>2. ~ (Len(audit) + 1 < k)
        BY <4>1
      <4> QED
        BY <2>2, <4>2 DEF Earlier
    <3> QED
      BY <3>1 DEF Earlier
  <2> QED
    BY <2>1, <2>2
<1>2. LastAfter(Earlier(ks, k), 0)' = LastAfter(Earlier(ks, k), 0)
  BY <1>1, SameEntries
<1>3. audit'[k] = audit[k]
  BY AuditIs
<1>4. LastAfter(Earlier(more, k), 0)' = LastAfter(Earlier(ks, k), 0)'
  BY <1>1 DEF LastAfter, Earlier
<1> QED
  BY <1>2, <1>3, <1>4 DEF ActivationTold, Replaced

LEMMA VersionCreated ==
  ASSUME TemplatesOk, NEW by, NEW v, IsSequence(audit), CreateVersion(by, v)
  PROVE  TemplatesOk'
<1>1. PICK e : e = [by |-> by, action |-> "created", id |-> v, before |-> 0, after |-> v]
  OBVIOUS
<1>2. AuditGrows(e) /\ e.action = "created"
  BY <1>1 DEF CreateVersion, WriteAudit, AuditGrows
<1>3. /\ v \notin DOMAIN templates
      /\ templates' = [u \in DOMAIN templates \cup {v} |-> u # v /\ templates[u]]
  BY DEF CreateVersion
<1>4. DOMAIN templates' = DOMAIN templates \cup {v}
  BY <1>3
<1>5. \A u \in DOMAIN templates' : templates'[u] = (u # v /\ templates[u])
  BY <1>3, <1>4
<1>6. \A u \in DOMAIN templates : (templates'[u] <=> templates[u])
  BY <1>3, <1>4, <1>5
<1>7. ~templates'[v]
  BY <1>4, <1>5
<1>8. ActiveVersions' = ActiveVersions
  BY <1>3, <1>4, <1>6, <1>7, Zenon DEF ActiveVersions
<1>9. \A u \in DOMAIN templates' : templates'[u] \in BOOLEAN
  BY <1>5, Zenon
<1>10. Activations' = Activations /\ Activations \subseteq DOMAIN audit
  BY <1>2, ActivationsAfter
<1>11. Activations # {} => audit'[Max(Activations)] = audit[Max(Activations)]
  BY <1>2, <1>10, SameEntries
<1>12. \A k \in Activations : ActivationTold(Activations, k)'
  <2> TAKE k \in Activations
  <2>1. PICK A : A = Activations
    OBVIOUS
  <2>2. ActivationTold(A, k)'
    BY <1>2, <1>10, <2>1, ActivationStays DEF TemplatesOk
  <2> QED
    BY <1>10, <2>1, <2>2 DEF ActivationTold, Replaced, Earlier, LastAfter
<1>13. ActiveVersions' = IF Activations' = {} THEN {} ELSE {audit'[Max(Activations')].id}
  BY <1>8, <1>10, <1>11 DEF TemplatesOk
<1> QED
  BY <1>9, <1>10, <1>12, <1>13 DEF TemplatesOk

LEMMA VersionActivated ==
  ASSUME TemplatesOk, NEW by, NEW v, IsSequence(audit), ActivateVersion(by, v)
  PROVE  TemplatesOk'
<1>1. PICK old : old = IF ActiveVersions \ {v} = {} THEN 0 ELSE CHOOSE u \in ActiveVersions : TRUE
  OBVIOUS
<1>2. PICK e : e = [by |-> by, action |-> "activated", id |-> v, before |-> old, after |-> v]
  OBVIOUS
<1>3. /\ AuditGrows(e) /\ e.action = "activated" /\ e.id = v /\ e.before = old /\ e.after = v
  BY <1>1, <1>2 DEF ActivateVersion, WriteAudit, AuditGrows
<1>4. v \in DOMAIN templates /\ templates' = [u \in DOMAIN templates |-> u = v]
  BY DEF ActivateVersion
<1>5. DOMAIN templates' = DOMAIN templates /\ \A u \in DOMAIN templates : templates'[u] = (u = v)
  BY <1>4
<1>6. \A u \in DOMAIN templates' : templates'[u] \in BOOLEAN
  BY <1>5, Zenon
<1>7. ActiveVersions' = {v}
  BY <1>4, <1>5, Zenon DEF ActiveVersions
<1>8. PICK A, B : A = Activations /\ B = Activations'
  OBVIOUS
<1>9. A \subseteq DOMAIN audit /\ B = A \cup {Len(audit) + 1}
  BY <1>3, <1>8, ActivationsAfter
<1>10. Max(B) = Len(audit) + 1 /\ Earlier(B, Len(audit) + 1) = A
  BY <1>3, <1>9, MoreEntries
<1>11. audit'[Len(audit) + 1] = e
  BY <1>3, AuditIs
<1>12. old = Replaced(v, A)
  <2>1. CASE A = {}
    <3>1. ActiveVersions = {}
      BY <1>8, <2>1 DEF TemplatesOk
    <3>2. LastAfter(A, 0) = 0
      BY <2>1 DEF LastAfter
    <3> QED
      BY <1>1, <3>1, <3>2 DEF Replaced
  <2>2. CASE A # {}
    <3>1. PICK w : w = audit[Max(A)].id
      OBVIOUS
    <3>2. ActiveVersions = {w}
      BY <1>8, <2>2, <3>1 DEF TemplatesOk
    <3>3. Max(A) \in A
      BY <1>3, <1>9, <2>2, SameEntries
    <3>4. LastAfter(A, 0) = w
      BY <1>8, <2>2, <3>1, <3>3 DEF LastAfter, TemplatesOk, ActivationTold
    <3>5. CASE w = v
      BY <1>1, <3>2, <3>4, <3>5 DEF Replaced
    <3>6. CASE w # v
      <4>1. ActiveVersions \ {v} # {} /\ (CHOOSE u \in ActiveVersions : TRUE) = w
        BY <3>2, <3>6
      <4> QED
        BY <1>1, <3>4, <3>6, <4>1 DEF Replaced
    <3> QED
      BY <3>5, <3>6
  <2> QED
    BY <2>1, <2>2
<1>13. \A k \in B : ActivationTold(B, k)'
  <2> TAKE k \in B
  <2>1. CASE k \in A
    <3>1. ActivationTold(A, k)
      BY <1>8, <2>1 DEF TemplatesOk
    <3> QED
      BY <1>3, <1>9, <2>1, <3>1, ActivationStays
  <2>2. CASE k = Len(audit) + 1
    <3>1. LastAfter(A, 0)' = LastAfter(A, 0)
      BY <1>3, <1>9, SameEntries
    <3>2. LastAfter(Earlier(B, k), 0)' = LastAfter(A, 0)'
      BY <1>10, <2>2 DEF LastAfter
    <3>3. audit'[k].after = v /\ audit'[k].id = v /\ audit'[k].before = old
      BY <1>3, <1>11, <2>2
    <3> QED
      BY <1>12, <3>1, <3>2, <3>3 DEF ActivationTold, Replaced
  <2> QED
    BY <1>9, <2>1, <2>2
<1>14. \A k \in Activations' : ActivationTold(Activations, k)'
  <2> TAKE k \in Activations'
  <2>1. ActivationTold(B, k)'
    BY <1>8, <1>13
  <2> QED
    BY <1>8, <2>1 DEF ActivationTold, Replaced, LastAfter, Earlier
<1>15. ActiveVersions' = IF Activations' = {} THEN {} ELSE {audit'[Max(Activations')].id}
  BY <1>3, <1>7, <1>8, <1>9, <1>10, <1>11
<1> QED
  BY <1>6, <1>14, <1>15 DEF TemplatesOk
-----------------------------------------------------------------------------
SettingOk == Chained(DOMAIN audit, "default") /\ setting = LastAfter(DOMAIN audit, "default")

LEMMA SettingWritten ==
  ASSUME SettingOk, NEW by, NEW value, IsSequence(audit), UpsertByKey(by, value)
  PROVE  SettingOk'
<1>1. PICK e : e = [by |-> by, action |-> "set", id |-> "setting", before |-> setting, after |-> value]
  OBVIOUS
<1>2. AuditGrows(e) /\ e.before = setting /\ e.after = value /\ setting' = value
  BY <1>1 DEF UpsertByKey, WriteAudit, AuditGrows
<1>3. PICK A, B : A = DOMAIN audit /\ B = DOMAIN audit'
  OBVIOUS
<1>4. B = A \cup {Len(audit) + 1}
  <2>1. PICK n \in Nat : /\ n = Len(audit) /\ DOMAIN audit = 1 .. n
                         /\ DOMAIN audit' = 1 .. n + 1
                         /\ \A k \in 1 .. n + 1 : k \in 1 .. n \/ k = n + 1
                         /\ \A k \in 1 .. n : k \in 1 .. n + 1 /\ k # n + 1
    BY <1>2, AuditIs
  <2> QED
    BY <1>3, <2>1
<1>5. Chained(A, "default") /\ e.before = LastAfter(A, "default")
  BY <1>2, <1>3 DEF SettingOk
<1>6. Chained(B, "default")' /\ LastAfter(B, "default")' = value
  BY <1>2, <1>3, <1>4, <1>5, MoreEntries
<1>7. Chained(DOMAIN audit, "default")' /\ LastAfter(DOMAIN audit, "default")' = value
  BY <1>3, <1>6 DEF Chained, LastAfter, Earlier
<1> QED
  BY <1>2, <1>7 DEF SettingOk
-----------------------------------------------------------------------------
OverridesOk ==
  /\ IsSequence(overrides)
  /\ \A k \in DOMAIN audit : audit[k].id \in DOMAIN overrides
  /\ \A r \in DOMAIN overrides : OverrideAudited(r)

LEMMA OverrideRests ==
  ASSUME NEW e, AuditGrows(e), NEW r, e.id # r, OverrideAudited(r), overrides'[r] = overrides[r]
  PROVE  OverrideAudited(r)'
<1>1. PICK X, U : X = Entries(r, {"executed"}) /\ U = Entries(r, {"reversed"})
  OBVIOUS
<1>2. X = Entries(r, {"executed"})' /\ U = Entries(r, {"reversed"})'
  BY <1>1, EntriesAfter
<1>3. \A k \in DOMAIN audit : audit'[k] = audit[k] /\ k \in DOMAIN audit'
  BY AuditIs
<1>4. PICK k \in DOMAIN audit :
        /\ X = {k}
        /\ IF overrides[r] = "nobody" THEN U = {}
           ELSE \E l \in DOMAIN audit : U = {l} /\ k < l /\ audit[l].by = overrides[r]
  BY <1>1 DEF OverrideAudited
<1>5. IF overrides'[r] = "nobody" THEN U = {}
      ELSE \E l \in DOMAIN audit' : U = {l} /\ k < l /\ audit'[l].by = overrides'[r]
  BY <1>3, <1>4
<1> QED
  BY <1>2, <1>3, <1>4, <1>5 DEF OverrideAudited

LEMMA OverrideExecuted ==
  ASSUME OverridesOk, NEW by, IsSequence(audit), ExecuteOverride(by)
  PROVE  OverridesOk'
<1>1. PICK m \in Nat : /\ m = Len(overrides) /\ DOMAIN overrides = 1 .. m
                       /\ IsSequence(overrides') /\ Len(overrides') = m + 1
                       /\ DOMAIN overrides' = 1 .. m + 1
                       /\ \A r \in 1 .. m : overrides'[r] = overrides[r]
                       /\ overrides'[m + 1] = "nobody"
  BY Appended DEF OverridesOk, ExecuteOverride
<1>2. PICK e : e = [by |-> by, action |-> "executed", id |-> m + 1, before |-> 0, after |-> 0]
  OBVIOUS
<1>3. AuditGrows(e) /\ e.id = m + 1 /\ e.action = "executed"
  BY <1>1, <1>2 DEF ExecuteOverride, WriteAudit, AuditGrows
<1>4. PICK n \in Nat : /\ n = Len(audit) /\ DOMAIN audit = 1 .. n
                       /\ DOMAIN audit' = 1 .. n + 1
                       /\ \A k \in 1 .. n : audit'[k] = audit[k]
                       /\ audit'[n + 1] = e
                       /\ \A k \in 1 .. n + 1 : k \in 1 .. n \/ k = n + 1
  BY <1>3, AuditIs
<1>5. \A r \in 1 .. m : r \in 1 .. m + 1 /\ r # m + 1
  OBVIOUS
<1>6. \A k \in DOMAIN audit' : audit'[k].id \in DOMAIN overrides'
  <2>1. m + 1 \in 1 .. m + 1
    OBVIOUS
  <2> QED
    BY <1>1, <1>3, <1>4, <1>5, <2>1 DEF OverridesOk
<1>7. \A r \in 1 .. m : OverrideAudited(r)'
  BY <1>1, <1>3, <1>5, OverrideRests DEF OverridesOk
<1>8. OverrideAudited(m + 1)'
  <2>1. Entries(m + 1, {"executed"}) = {} /\ Entries(m + 1, {"reversed"}) = {}
    BY <1>1, <1>5 DEF OverridesOk, Entries
  <2>2. /\ Entries(m + 1, {"executed"})' = {n + 1}
        /\ Entries(m + 1, {"reversed"})' = {}
    <3>1. e.action \in {"executed"} /\ e.action \notin {"reversed"}
      BY <1>3
    <3>2. Entries(m + 1, {"executed"})' = Entries(m + 1, {"executed"}) \cup {Len(audit) + 1}
      BY <1>3, <3>1, EntriesAfter
    <3>3. Entries(m + 1, {"reversed"})' = Entries(m + 1, {"reversed"})
      BY <1>3, <3>1, EntriesAfter
    <3> QED
      BY <1>4, <2>1, <3>2, <3>3
  <2>3. n + 1 \in DOMAIN audit'
    BY <1>4
  <2> QED
    BY <1>1, <2>2, <2>3 DEF OverrideAudited
<1>9. \A r \in 1 .. m + 1 : r \in 1 .. m \/ r = m + 1
  OBVIOUS
<1> QED
  BY <1>1, <1>6, <1>7, <1>8, <1>9 DEF OverridesOk

LEMMA OverrideReversed ==
  ASSUME OverridesOk, NEW by, NEW r \in DOMAIN overrides, IsSequence(audit), ReverseOverride(by, r)
  PROVE  OverridesOk'
<1>1. /\ by # "nobody" /\ overrides[r] = "nobody"
      /\ overrides' = [overrides EXCEPT ![r] = by]
  BY DeskAssumption DEF ReverseOverride
<1>2. PICK e : e = [by |-> by, action |-> "reversed", id |-> r, before |-> 0, after |-> 0]
  OBVIOUS
<1>3. AuditGrows(e) /\ e.id = r /\ e.action = "reversed" /\ e.by = by
  BY <1>2 DEF ReverseOverride, WriteAudit, AuditGrows
<1>4. PICK n \in Nat : /\ n = Len(audit) /\ DOMAIN audit = 1 .. n
                       /\ DOMAIN audit' = 1 .. n + 1
                       /\ \A k \in 1 .. n : audit'[k] = audit[k]
                       /\ audit'[n + 1] = e
                       /\ \A k \in 1 .. n + 1 : k \in 1 .. n \/ k = n + 1
                       /\ \A k \in 1 .. n : k \in 1 .. n + 1 /\ k < n + 1
  BY <1>3, AuditIs
<1>5. IsSequence(overrides') /\ DOMAIN overrides' = DOMAIN overrides
  <2>1. PICK S : overrides \in Seq(S)
    BY DEF OverridesOk, IsSequence
  <2>2. PICK T : T = S \cup {by}
    OBVIOUS
  <2>3. S \subseteq T /\ by \in T
    BY <2>2
  <2>4. overrides \in Seq(T)
    BY <2>1, <2>3
  <2>5. overrides' \in Seq(T)
    BY <1>1, <2>3, <2>4, ExceptSeq
  <2> QED
    BY <1>1, <2>5 DEF IsSequence
<1>6. overrides'[r] = by /\ \A s \in DOMAIN overrides \ {r} : overrides'[s] = overrides[s]
  BY <1>1
<1>7. \A k \in DOMAIN audit' : audit'[k].id \in DOMAIN overrides'
  BY <1>3, <1>4, <1>5 DEF OverridesOk
<1>8. \A s \in DOMAIN overrides \ {r} : OverrideAudited(s)'
  BY <1>3, <1>6, OverrideRests DEF OverridesOk
<1>9. OverrideAudited(r)'
  <2>1. PICK k \in DOMAIN audit : Entries(r, {"executed"}) = {k} /\ Entries(r, {"reversed"}) = {}
    BY <1>1 DEF OverridesOk, OverrideAudited
  <2>2. Entries(r, {"executed"})' = {k} /\ Entries(r, {"reversed"})' = {n + 1}
    <3>1. e.action \notin {"executed"} /\ e.action \in {"reversed"}
      BY <1>3
    <3>2. Entries(r, {"executed"})' = Entries(r, {"executed"})
      BY <1>3, <3>1, EntriesAfter
    <3>3. Entries(r, {"reversed"})' = Entries(r, {"reversed"}) \cup {Len(audit) + 1}
      BY <1>3, <3>1, EntriesAfter
    <3> QED
      BY <1>4, <2>1, <3>2, <3>3
  <2>3. k \in DOMAIN audit' /\ n + 1 \in DOMAIN audit' /\ k < n + 1
    BY <1>4
  <2> QED
    BY <1>1, <1>3, <1>4, <1>6, <2>2, <2>3 DEF OverrideAudited
<1> QED
  BY <1>5, <1>7, <1>8, <1>9 DEF OverridesOk
-----------------------------------------------------------------------------
\* Back along the parents of notes, as the recursion that defines it says.
ParentsBefore == \A n \in DOMAIN notes : notes[n].parent \in 0 .. n - 1

Walk(who, walk, m) ==
  IF m = 0 THEN {} ELSE IF ~CanRead(who, m) THEN {} ELSE {m} \cup walk[notes[m].parent]

LEMMA WalkExists ==
  ASSUME IsSequence(notes), ParentsBefore, NEW who
  PROVE  \E walk : walk = [m \in 0 .. Len(notes) |-> Walk(who, walk, m)]
<1>1. PICK size \in Nat : size = Len(notes) /\ DOMAIN notes = 1 .. size
  BY Appended
<1> DEFINE Reaches(top) == \E walk : walk = [m \in 0 .. top |-> Walk(who, walk, m)]
           Missing == {top \in 0 .. size : ~Reaches(top)}
<1>2. SUFFICES ASSUME Missing # {}
               PROVE  FALSE
  <2>1. size \in 0 .. size
    BY <1>1
  <2>2. Missing = {} => Reaches(size)
    BY <2>1
  <2> QED
    BY <1>1, <2>2
<1>3. PICK top \in Missing : \A other \in Missing : top <= other
  <2>1. Missing \in SUBSET Nat
    BY <1>1
  <2> HIDE DEF Missing
  <2> QED
    BY <1>2, <2>1, LeastOf
<1>4. top \in 0 .. size /\ ~Reaches(top)
  BY <1>3
<1>5. CASE top = 0
  <2>1. PICK walk : walk = [m \in 0 .. 0 |-> {}]
    OBVIOUS
  <2>2. \A m \in 0 .. 0 : m = 0
    OBVIOUS
  <2>3. \A m \in 0 .. 0 : Walk(who, walk, m) = {}
    BY <2>2 DEF Walk
  <2>4. walk = [m \in 0 .. 0 |-> Walk(who, walk, m)]
    BY <2>1, <2>3
  <2> QED
    BY <1>4, <1>5, <2>4
<1>6. CASE top # 0
  <2>1. top - 1 \in 0 .. size /\ top - 1 < top
    BY <1>1, <1>4, <1>6
  <2>2. Reaches(top - 1)
    <3>1. top - 1 \notin Missing
      <4>1. ~(top <= top - 1)
        BY <1>4
      <4> HIDE DEF Missing
      <4> QED
        BY <1>3, <4>1
    <3> QED
      BY <2>1, <3>1
  <2>3. PICK short : short = [m \in 0 .. top - 1 |-> Walk(who, short, m)]
    BY <2>2
  <2>4. PICK walk : walk = [m \in 0 .. top |-> Walk(who, short, m)]
    OBVIOUS
  <2>5. \A m \in 0 .. top - 1 : walk[m] = short[m]
    <3> TAKE m \in 0 .. top - 1
    <3>1. m \in 0 .. top
      BY <1>4
    <3> QED
      BY <2>3, <2>4, <3>1
  <2>6. \A m \in 0 .. top : Walk(who, walk, m) = Walk(who, short, m)
    <3> TAKE m \in 0 .. top
    <3>1. CASE m = 0
      BY <3>1 DEF Walk
    <3>2. CASE m # 0
      <4>1. m \in DOMAIN notes
        BY <1>1, <1>4, <3>2
      <4>2. notes[m].parent \in 0 .. m - 1
        BY <4>1 DEF ParentsBefore
      <4>3. notes[m].parent \in 0 .. top - 1
        BY <1>4, <4>2
      <4> QED
        BY <2>5, <3>2, <4>3 DEF Walk
    <3> QED
      BY <3>1, <3>2
  <2>7. walk = [m \in 0 .. top |-> Walk(who, walk, m)]
    BY <2>4, <2>6
  <2> QED
    BY <1>4, <2>7
<1> QED
  BY <1>5, <1>6

LEMMA WalkBackIs ==
  ASSUME IsSequence(notes), ParentsBefore, NEW who, NEW n \in DOMAIN notes, CanRead(who, n)
  PROVE  WalkBack(who, n) = {n} \cup WalkBack(who, notes[n].parent)
<1>1. PICK size \in Nat : size = Len(notes) /\ DOMAIN notes = 1 .. size
  BY Appended
<1>2. PICK back : back = CHOOSE walk : walk = [m \in 0 .. Len(notes) |-> Walk(who, walk, m)]
  OBVIOUS
<1>3. back = [m \in 0 .. Len(notes) |-> Walk(who, back, m)]
  BY <1>2, WalkExists
<1>4. \A m : WalkBack(who, m) = back[m]
  BY <1>2 DEF WalkBack, Walk
<1>5. n \in 0 .. Len(notes) /\ n # 0
  BY <1>1
<1>6. back[n] = Walk(who, back, n)
  BY <1>3, <1>5
<1> QED
  BY <1>4, <1>5, <1>6 DEF Walk
NotesOk ==
  /\ IsSequence(notes)
  /\ \A n \in DOMAIN notes : /\ notes[n].parent \in 0 .. n - 1
                             /\ notes[n].parent # 0 => CanRead(notes[n].author, notes[n].parent)

LEMMA NoteAdded ==
  ASSUME NotesOk, NEW by, NEW visibility, NEW parent \in 0 .. Len(notes), NEW action, NEW before,
         parent # 0 => CanRead(by, parent), AddNote(by, visibility, parent, action, before)
  PROVE  NotesOk'
<1>1. PICK row : row = [visibility |-> visibility, author |-> by, parent |-> parent]
  OBVIOUS
<1>2. PICK m \in Nat : /\ m = Len(notes) /\ DOMAIN notes = 1 .. m
                       /\ IsSequence(notes') /\ DOMAIN notes' = 1 .. m + 1
                       /\ \A n \in 1 .. m : notes'[n] = notes[n]
                       /\ notes'[m + 1] = row
  BY <1>1, Appended DEF NotesOk, AddNote
<1>3. \A n \in 1 .. m : \A who : CanRead(who, n)' <=> CanRead(who, n)
  BY <1>2 DEF CanRead
<1>4. ASSUME NEW n \in 1 .. m
      PROVE  /\ notes'[n].parent \in 0 .. n - 1
             /\ notes'[n].parent # 0 => CanRead(notes[n].author, notes[n].parent)'
  <2>1. PICK p, a : p = notes[n].parent /\ a = notes[n].author
    OBVIOUS
  <2>2. p \in 0 .. n - 1 /\ (p # 0 => CanRead(a, p))
    BY <1>2, <2>1 DEF NotesOk
  <2>3. p # 0 => p \in 1 .. m
    BY <2>2
  <2>4. p # 0 => CanRead(a, p)'
    BY <1>3, <2>2, <2>3
  <2>5. notes'[n].parent = p /\ notes'[n].author = a
    BY <1>2, <2>1
  <2> QED
    BY <2>2, <2>4, <2>5 DEF CanRead
<1>5. /\ notes'[m + 1].parent \in 0 .. (m + 1) - 1
      /\ notes'[m + 1].parent # 0 => CanRead(notes[m + 1].author, notes[m + 1].parent)'
  <2>1. notes'[m + 1].parent = parent /\ notes'[m + 1].author = by
    BY <1>1, <1>2
  <2>2. parent # 0 => parent \in 1 .. m
    BY <1>2
  <2>3. parent # 0 => CanRead(by, parent)'
    BY <1>3, <2>2
  <2>4. parent \in 0 .. (m + 1) - 1
    BY <1>2
  <2> QED
    BY <2>1, <2>3, <2>4 DEF CanRead
<1>6. \A n \in 1 .. m + 1 : n \in 1 .. m \/ n = m + 1
  OBVIOUS
<1> QED
  BY <1>2, <1>4, <1>5, <1>6 DEF NotesOk

LEMMA NotesTell ==
  ASSUME NotesOk, NEW n \in DOMAIN notes
  PROVE  /\ \A admin \in Admins :
              /\ notes[n].parent # 0 => History(admin, notes[n].parent) \subseteq
                   History(admin, n) \cup {m \in DOMAIN notes : notes[m].parent = notes[n].parent}
              /\ \E leaf \in DOMAIN notes :
                   n \in History(admin, leaf) /\ \A m \in DOMAIN notes : notes[m].parent # leaf
         /\ notes[n].author \in Brokers /\ notes[n].parent # 0 =>
              CanRead(notes[n].author, notes[n].parent)
<1>1. PICK size \in Nat : size = Len(notes) /\ DOMAIN notes = 1 .. size
  BY Appended DEF NotesOk
<1>2. ParentsBefore
  BY DEF NotesOk, ParentsBefore
<1>3. ASSUME NEW admin \in Admins, NEW m \in DOMAIN notes
      PROVE  WalkBack(admin, m) = {m} \cup WalkBack(admin, notes[m].parent)
  <2>1. CanRead(admin, m)
    BY DEF CanRead
  <2> QED
    BY <1>2, <2>1, WalkBackIs DEF NotesOk
<1>4. ASSUME NEW admin \in Admins, notes[n].parent # 0
      PROVE  History(admin, notes[n].parent) \subseteq
               History(admin, n) \cup {m \in DOMAIN notes : notes[m].parent = notes[n].parent}
  <2>1. PICK p : p = notes[n].parent
    OBVIOUS
  <2>2. WalkBack(admin, p) \subseteq WalkBack(admin, n)
    BY <1>3, <2>1
  <2> QED
    BY <2>1, <2>2 DEF History
<1>5. ASSUME NEW admin \in Admins
      PROVE  \E leaf \in DOMAIN notes :
               n \in History(admin, leaf) /\ \A m \in DOMAIN notes : notes[m].parent # leaf
  <2>1. PICK Made : Made = {m \in DOMAIN notes : n \in WalkBack(admin, m)}
    OBVIOUS
  <2>2. n \in Made /\ Made \subseteq 1 .. size
    BY <1>1, <1>3, <2>1
  <2>3. PICK leaf \in Made : \A m \in Made : m <= leaf
    BY <2>2, LastOf
  <2>4. leaf \in DOMAIN notes /\ n \in History(admin, leaf)
    BY <2>1 DEF History
  <2>5. ASSUME NEW m \in DOMAIN notes, notes[m].parent = leaf
        PROVE  FALSE
    <3>1. n \in WalkBack(admin, m)
      BY <1>3, <2>1, <2>5
    <3>2. m <= leaf
      BY <2>1, <2>3, <3>1
    <3>3. leaf \in 0 .. m - 1 /\ m \in 1 .. size
      BY <1>1, <2>5 DEF NotesOk
    <3> QED
      BY <3>2, <3>3
  <2> QED
    BY <2>4, <2>5
<1> QED
  BY <1>4, <1>5 DEF NotesOk
-----------------------------------------------------------------------------
\* Until a table is at work all of them are as they began.
DeskIInv ==
  /\ IsSequence(audit)
  /\ desk \in {"none", "queues"} => QueueOk
  /\ desk \in {"none", "templates"} => TemplatesOk
  /\ desk \in {"none", "settings"} => SettingOk
  /\ desk \in {"none", "overrides"} => OverridesOk
  /\ desk \in {"none", "notes"} => NotesOk

LEMMA NothingAudited ==
  ASSUME audit = <<>>
  PROVE  /\ IsSequence(audit) /\ DOMAIN audit = {} /\ Activations = {}
         /\ \A id, actions : Entries(id, actions) = {}
<1>1. audit \in Seq({}) /\ DOMAIN audit = {}
  OBVIOUS
<1> QED
  BY <1>1 DEF IsSequence, Activations, Entries

LEMMA DeskInitially == DeskInit => DeskIInv
<1> SUFFICES ASSUME DeskInit
             PROVE  DeskIInv
  OBVIOUS
<1>1. /\ IsSequence(audit) /\ DOMAIN audit = {} /\ Activations = {}
      /\ \A id, actions : Entries(id, actions) = {}
  BY NothingAudited DEF DeskInit
<1>2. QueueOk
  <2>1. PICK row : row = [status |-> "open", assignee |-> "nobody", priority |-> "normal"]
    OBVIOUS
  <2>2. row \in ItemRow
    BY <2>1 DEF ItemRow
  <2>3. items = [i \in Items |-> row]
    BY <2>1 DEF DeskInit
  <2>4. items \in [Items -> ItemRow]
    BY <2>2, <2>3
  <2>5. \A i \in Items : items[i].status = "open" /\ items[i].assignee = "nobody"
                         /\ items[i].priority = "normal"
    BY <2>1, <2>3
  <2>6. \A first : Chained({}, first) /\ LastAfter({}, first) = first
    BY DEF Chained, LastAfter
  <2>7. \A i \in Items : ItemAudited(i)
    BY <1>1, <2>5, <2>6 DEF ItemAudited
  <2> QED
    BY <2>4, <2>7 DEF QueueOk
<1>3. TemplatesOk
  <2>1. DOMAIN templates = {}
    BY DEF DeskInit
  <2> QED
    BY <1>1, <2>1 DEF TemplatesOk, ActiveVersions
<1>4. SettingOk
  BY <1>1 DEF DeskInit, SettingOk, Chained, LastAfter
<1>5. OverridesOk
  <2>1. overrides \in Seq({}) /\ DOMAIN overrides = {}
    BY DEF DeskInit
  <2> QED
    BY <1>1, <2>1 DEF OverridesOk, IsSequence
<1>6. NotesOk
  <2>1. notes \in Seq({}) /\ DOMAIN notes = {}
    BY DEF DeskInit
  <2> QED
    BY <2>1 DEF NotesOk, IsSequence
<1> QED
  BY <1>1, <1>2, <1>3, <1>4, <1>5, <1>6 DEF DeskIInv

\* Every operation writes the audit.
LEMMA AuditStays ==
  ASSUME IsSequence(audit), NEW by, NEW action, NEW id, NEW before, NEW after,
         WriteAudit(by, action, id, before, after)
  PROVE  IsSequence(audit')
BY Appended DEF WriteAudit

LEMMA ItemsStep ==
  ASSUME QueueOk, IsSequence(audit), NEW by \in Staff, NEW i \in Items,
         \/ ClaimForReview(by, i) \/ UpdatePriority(by, i)
         \/ \E status \in Closed : CloseItem(by, i, status)
  PROVE  QueueOk'
<1>1. items[i] \in ItemRow
  BY DEF QueueOk
<1>2. PICK s, a, p : s = items[i].status /\ a = items[i].assignee /\ p = items[i].priority
  OBVIOUS
<1>3. /\ s \in {"open", "in_review"} \cup Closed /\ a \in Staff \cup {"nobody"}
      /\ p \in {"normal", "urgent"}
      /\ items[i] = [status |-> s, assignee |-> a, priority |-> p]
  BY <1>1, <1>2 DEF ItemRow
<1>4. CASE ClaimForReview(by, i)
  <2>a. PICK row : row = [items[i] EXCEPT !.status = "in_review", !.assignee = by]
    OBVIOUS
  <2>1. row \in ItemRow /\ row.status = "in_review" /\ row.assignee = by /\ row.priority = p
    BY <1>1, <1>2, <2>a DEF ItemRow
  <2>2. PICK e : e = [by |-> by, action |-> "claimed", id |-> i, before |-> a, after |-> by]
    OBVIOUS
  <2>3. items' = [items EXCEPT ![i] = row]
    BY <1>4, <2>a DEF ClaimForReview, QueueOk
  <2>4. AuditGrows(e) /\ s \notin Closed
    BY <1>2, <1>4, <2>2 DEF ClaimForReview, WriteAudit, AuditGrows
  <2> QED
    BY <1>2, <2>1, <2>2, <2>3, <2>4, ItemWritten
<1>5. CASE UpdatePriority(by, i)
  <2>1. PICK other \in {"normal", "urgent"} : other = IF p = "urgent" THEN "normal" ELSE "urgent"
    OBVIOUS
  <2>2. PICK row : row = [status |-> s, assignee |-> a, priority |-> other]
    OBVIOUS
  <2>a. row = [items[i] EXCEPT !.priority = other]
    BY <1>3, <2>2
  <2>3. PICK e : e = [by |-> by, action |-> "priority", id |-> i, before |-> p, after |-> other]
    OBVIOUS
  <2>4. items' = [items EXCEPT ![i] = row]
    BY <1>2, <1>5, <2>1, <2>a DEF UpdatePriority, QueueOk
  <2>5. AuditGrows(e)
    BY <1>2, <1>5, <2>1, <2>3 DEF UpdatePriority, WriteAudit, AuditGrows
  <2>6. row \in ItemRow
    BY <1>3, <2>2 DEF ItemRow
  <2> QED
    BY <1>2, <2>2, <2>3, <2>4, <2>5, <2>6, ItemWritten
<1>6. ASSUME NEW status \in Closed, CloseItem(by, i, status)
      PROVE  QueueOk'
  <2>1. PICK row : row = [status |-> status, assignee |-> a, priority |-> p]
    OBVIOUS
  <2>a. row = [items[i] EXCEPT !.status = status]
    BY <1>3, <2>1
  <2>2. PICK e : e = [by |-> by, action |-> status, id |-> i, before |-> s, after |-> status]
    OBVIOUS
  <2>3. items' = [items EXCEPT ![i] = row]
    BY <1>6, <2>a DEF CloseItem, QueueOk
  <2>4. AuditGrows(e) /\ s \notin Closed
    BY <1>2, <1>6, <2>2 DEF CloseItem, WriteAudit, AuditGrows
  <2>5. row \in ItemRow
    BY <1>3, <2>1 DEF ItemRow
  <2> QED
    BY <1>2, <2>1, <2>2, <2>3, <2>4, <2>5, ItemWritten
<1> QED
  BY <1>4, <1>5, <1>6

LEMMA DeskStep == DeskIInv /\ [DeskNext]_deskVars => DeskIInv'
<1> SUFFICES ASSUME DeskIInv, [DeskNext]_deskVars
             PROVE  DeskIInv'
  OBVIOUS
<1>0. /\ IsSequence(audit)
      /\ desk \in {"none", "queues"} => QueueOk
      /\ desk \in {"none", "templates"} => TemplatesOk
      /\ desk \in {"none", "settings"} => SettingOk
      /\ desk \in {"none", "overrides"} => OverridesOk
      /\ desk \in {"none", "notes"} => NotesOk
  BY DEF DeskIInv
<1>1. ASSUME NEW by \in Staff, NEW i \in Items,
             \/ ClaimForReview(by, i) \/ UpdatePriority(by, i)
             \/ \E status \in Closed : CloseItem(by, i, status)
      PROVE  DeskIInv'
  <2>1. desk \in {"none", "queues"} /\ desk' = "queues"
    BY <1>1 DEF ClaimForReview, UpdatePriority, CloseItem, QueueOthers, DeskRests
  <2>2. IsSequence(audit')
    BY <1>0, <1>1, AuditStays DEF ClaimForReview, UpdatePriority, CloseItem
  <2>3. QueueOk'
    BY <1>0, <1>1, <2>1, ItemsStep
  <2> QED
    BY <2>1, <2>2, <2>3 DEF DeskIInv
<1>2. ASSUME NEW by \in Staff, NEW v \in Versions, CreateVersion(by, v) \/ ActivateVersion(by, v)
      PROVE  DeskIInv'
  <2>1. desk \in {"none", "templates"} /\ desk' = "templates"
    BY <1>2 DEF CreateVersion, ActivateVersion, TemplateOthers, DeskRests
  <2>2. IsSequence(audit')
    BY <1>0, <1>2, AuditStays DEF CreateVersion, ActivateVersion
  <2>3. TemplatesOk'
    BY <1>0, <1>2, <2>1, VersionCreated, VersionActivated
  <2> QED
    BY <2>1, <2>2, <2>3 DEF DeskIInv
<1>3. ASSUME NEW by \in Staff, NEW value \in SettingValues, UpsertByKey(by, value)
      PROVE  DeskIInv'
  <2>1. desk \in {"none", "settings"} /\ desk' = "settings"
    BY <1>3 DEF UpsertByKey, DeskRests
  <2>2. IsSequence(audit')
    BY <1>0, <1>3, AuditStays DEF UpsertByKey
  <2>3. SettingOk'
    BY <1>0, <1>3, <2>1, SettingWritten
  <2> QED
    BY <2>1, <2>2, <2>3 DEF DeskIInv
<1>4. ASSUME NEW by \in Staff,
             ExecuteOverride(by) \/ \E r \in DOMAIN overrides : ReverseOverride(by, r)
      PROVE  DeskIInv'
  <2>1. desk \in {"none", "overrides"} /\ desk' = "overrides"
    BY <1>4 DEF ExecuteOverride, ReverseOverride, OverrideOthers, DeskRests
  <2>2. IsSequence(audit')
    BY <1>0, <1>4, AuditStays DEF ExecuteOverride, ReverseOverride
  <2>3. OverridesOk'
    BY <1>0, <1>4, <2>1, OverrideExecuted, OverrideReversed
  <2> QED
    BY <2>1, <2>2, <2>3 DEF DeskIInv
<1>5. ASSUME NEW by \in Staff, NEW visibility \in Visibilities,
             \/ CreateNote(by, visibility)
             \/ \E n \in DOMAIN notes : EditNote(by, n, visibility)
      PROVE  DeskIInv'
  <2>1. PICK parent, action, before :
          /\ AddNote(by, visibility, parent, action, before)
          /\ parent \in {0} \cup DOMAIN notes
          /\ parent # 0 => CanRead(by, parent)
    BY <1>5 DEF CreateNote, EditNote
  <2>2. desk \in {"none", "notes"} /\ desk' = "notes"
    BY <2>1 DEF AddNote, NoteOthers, DeskRests
  <2>3. IsSequence(audit')
    BY <1>0, <2>1, AuditStays DEF AddNote
  <2>4. parent \in 0 .. Len(notes) /\ (parent # 0 => CanRead(by, parent))
    <3>1. Len(notes) \in Nat /\ DOMAIN notes = 1 .. Len(notes)
      BY <1>0, <2>2, Appended DEF NotesOk
    <3> QED
      BY <2>1, <3>1
  <2>5. NotesOk'
    BY <1>0, <2>1, <2>2, <2>4, NoteAdded
  <2> QED
    BY <2>2, <2>3, <2>5 DEF DeskIInv
<1>6. CASE UNCHANGED deskVars
  <2>1. /\ IsSequence(audit') /\ desk' = desk
        /\ QueueOk' <=> QueueOk
        /\ TemplatesOk' <=> TemplatesOk
        /\ SettingOk' <=> SettingOk
    BY <1>0, <1>6 DEF deskVars, QueueOk, ItemAudited, Entries, LastAfter, Chained, Earlier,
       TemplatesOk, ActiveVersions, Activations, ActivationTold, Replaced, SettingOk
  <2>2. /\ OverridesOk' <=> OverridesOk
        /\ NotesOk' <=> NotesOk
    BY <1>6 DEF deskVars, OverridesOk, OverrideAudited, Entries, NotesOk, CanRead
  <2> QED
    BY <1>0, <2>1, <2>2 DEF DeskIInv
<1> QED
  BY <1>1, <1>2, <1>3, <1>4, <1>5, <1>6 DEF DeskNext

LEMMA DeskImplied == DeskIInv => DeskSound
<1> SUFFICES ASSUME DeskIInv
             PROVE  DeskSound
  OBVIOUS
<1>1. QueueAudited
  BY DEF DeskIInv, QueueOk, QueueAudited
<1>2. TemplatesAudited
  BY DEF DeskIInv, TemplatesOk, TemplatesAudited, ActivationTold
<1>3. SettingAudited
  BY DEF DeskIInv, SettingOk, SettingAudited
<1>4. OverridesAudited
  BY DEF DeskIInv, OverridesOk, OverridesAudited
<1>5. NotesTraced
  BY NotesTell DEF DeskIInv, NotesTraced
<1> QED
  BY <1>1, <1>2, <1>3, <1>4, <1>5 DEF DeskSound

LEMMA DeskIsSound == DeskSpec => []DeskSound
<1>1. DeskSpec => []DeskIInv
  BY DeskInitially, DeskStep, PTL DEF DeskSpec
<1> QED
  BY <1>1, DeskImplied, PTL
-----------------------------------------------------------------------------
\* WHAT THE COORDINATORS SEE OF SHOWINGS.

RequestRow == [status : {"draft"} \cup ActiveStatuses \cup Terminal,
               agentId : Agents \cup {Nobody}, submittedAt : Nat \cup {Never},
               assignedAt : Nat \cup {Never}, updatedAt : Nat]
WorkRow == [status : {"none", "pending", "confirmed", "in_progress"},
            agentId : Agents \cup {Nobody}, queue : BOOLEAN, showami : BOOLEAN]

QueueTypeOK ==
  /\ request \in RequestRow /\ work \in WorkRow /\ signed \in BOOLEAN
  /\ clock \in Nat /\ since \in Nat

\* An agent of before is left in a request only while its assignment waits in the
\* queue of the broker, where it is nobody's.
AgentsLeft ==
  /\ request.status \in {"submitted", "blocked"} /\ request.agentId # Nobody =>
       work.queue /\ work.status = "pending"
  /\ request.status = "draft" => request.agentId = Nobody
  /\ work.queue => work.agentId = Nobody /\ ~work.showami

\* Which instant a request is late from, and when it took its status.
TimesFollow ==
  /\ since <= request.updatedAt /\ request.updatedAt <= clock
  /\ request.submittedAt <= since /\ request.assignedAt <= request.updatedAt
  /\ request.status = "assigned" => since <= request.assignedAt

QueueIInv == QueueTypeOK /\ AgentsLeft /\ TimesFollow

LEMMA PatchKeeps ==
  ASSUME QueueTypeOK, TimesFollow, NEW row \in RequestRow, Patch(row),
         row.submittedAt = request.submittedAt
           \/ (row.submittedAt = clock /\ row.status # request.status),
         row.assignedAt = request.assignedAt \/ row.assignedAt = clock,
         row.status = "assigned" =>
           row.assignedAt = clock \/ (row.assignedAt = request.assignedAt /\ request.status = "assigned")
  PROVE  /\ request' = [row EXCEPT !.updatedAt = clock]
         /\ request' \in RequestRow
         /\ request'.status = row.status /\ request'.agentId = row.agentId
         /\ clock' = clock /\ signed' = signed /\ since' \in Nat
         /\ TimesFollow'
<1>1. /\ request' = [row EXCEPT !.updatedAt = clock]
      /\ since' = IF row.status = request.status THEN since ELSE clock
      /\ clock' = clock /\ signed' = signed
  BY DEF Patch, QueueRests
<1>2. clock \in Nat /\ since \in Nat /\ request \in RequestRow
  BY DEF QueueTypeOK
<1>3. request' \in RequestRow
  BY <1>1, <1>2 DEF RequestRow
<1>4. /\ request'.status = row.status /\ request'.agentId = row.agentId
      /\ request'.submittedAt = row.submittedAt /\ request'.assignedAt = row.assignedAt
      /\ request'.updatedAt = clock
  BY <1>1, <1>2 DEF RequestRow
<1>5. since' \in Nat /\ since' <= clock /\ since <= clock
  BY <1>1, <1>2 DEF TimesFollow, RequestRow
<1>6. /\ request.submittedAt \in Nat \cup {Never} /\ request.assignedAt \in Nat \cup {Never}
      /\ row.submittedAt \in Nat \cup {Never} /\ row.assignedAt \in Nat \cup {Never}
      /\ request.updatedAt \in Nat
  BY <1>2 DEF RequestRow
<1>7. row.submittedAt <= since' /\ row.assignedAt <= clock
  BY <1>1, <1>2, <1>5, <1>6 DEF TimesFollow, Never
<1>8. row.status = "assigned" => since' <= row.assignedAt
  BY <1>1, <1>2, <1>5, <1>6 DEF TimesFollow, Never
<1>9. TimesFollow'
  BY <1>1, <1>4, <1>5, <1>7, <1>8, <1>2 DEF TimesFollow
<1> QED
  BY <1>1, <1>3, <1>4, <1>5, <1>9

LEMMA QueueStep ==
  QueueIInv /\ [ShowingDeskNext]_deskOfShowings => QueueIInv'
<1> SUFFICES ASSUME QueueIInv, [ShowingDeskNext]_deskOfShowings
             PROVE  QueueIInv'
  OBVIOUS
<1>0. QueueTypeOK /\ AgentsLeft /\ TimesFollow
  BY DEF QueueIInv
<1>a. /\ request \in RequestRow /\ work \in WorkRow /\ clock \in Nat /\ since \in Nat
      /\ signed \in BOOLEAN /\ Nobody \notin Agents
  BY <1>0, ShowingDeskAssumption DEF QueueTypeOK
<1>b. NoWork \in WorkRow /\ NoWork.queue = FALSE
  BY DEF NoWork, WorkRow
<1>1. CASE UNCHANGED <<clock, request, since, work, signed>>
  BY <1>0, <1>1 DEF QueueIInv, QueueTypeOK, AgentsLeft, TimesFollow
<1>2. CASE Submit
  <2>1. PICK row : row = [request EXCEPT !.status = "submitted", !.submittedAt = clock]
    OBVIOUS
  <2>2. row \in RequestRow
    BY <1>a, <2>1 DEF RequestRow, ActiveStatuses
  <2>3. /\ row.status = "submitted" /\ row.agentId = request.agentId
        /\ row.submittedAt = clock /\ row.assignedAt = request.assignedAt
    BY <1>a, <2>1 DEF RequestRow
  <2>4. Patch(row) /\ request.status = "draft" /\ work' = work
    BY <1>2, <2>1 DEF Submit
  <2>5. /\ request' \in RequestRow /\ request'.status = "submitted"
        /\ request'.agentId = request.agentId
        /\ clock' = clock /\ signed' = signed /\ since' \in Nat /\ TimesFollow'
    BY <1>0, <2>2, <2>3, <2>4, PatchKeeps
  <2>6. QueueTypeOK'
    BY <1>a, <2>4, <2>5 DEF QueueTypeOK
  <2>7. AgentsLeft'
    BY <1>0, <2>4, <2>5 DEF AgentsLeft
  <2> QED
    BY <2>5, <2>6, <2>7 DEF QueueIInv
<1>3. ASSUME NEW g \in Agents, AssignAgent(g)
      PROVE  QueueIInv'
  <2>1. PICK row : row = [request EXCEPT !.status = "assigned", !.agentId = g, !.assignedAt = clock]
    OBVIOUS
  <2>2. row \in RequestRow
    BY <1>a, <2>1 DEF RequestRow, ActiveStatuses
  <2>3. /\ row.status = "assigned" /\ row.agentId = g
        /\ row.submittedAt = request.submittedAt /\ row.assignedAt = clock
    BY <1>a, <2>1 DEF RequestRow
  <2>4. Patch(row) /\ work' = work
    BY <1>3, <2>1 DEF AssignAgent
  <2>5. /\ request' \in RequestRow /\ request'.status = "assigned"
        /\ clock' = clock /\ signed' = signed /\ since' \in Nat /\ TimesFollow'
    BY <1>0, <2>2, <2>3, <2>4, PatchKeeps
  <2>6. QueueTypeOK'
    BY <1>a, <2>4, <2>5 DEF QueueTypeOK
  <2>7. AgentsLeft'
    BY <1>0, <2>4, <2>5 DEF AgentsLeft
  <2> QED
    BY <2>5, <2>6, <2>7 DEF QueueIInv
<1>4. ASSUME NEW from, NEW to \in {"submitted", "blocked", "confirmed"} \cup Terminal,
             Step(from, to),
             to = "submitted" => request.status = "blocked",
             to = "blocked" => request.status = "submitted"
      PROVE  QueueIInv'
  <2>1. PICK row : row = [request EXCEPT !.status = to]
    OBVIOUS
  <2>2. row \in RequestRow
    BY <1>a, <2>1 DEF RequestRow, ActiveStatuses
  <2>3. /\ row.status = to /\ row.agentId = request.agentId
        /\ row.submittedAt = request.submittedAt /\ row.assignedAt = request.assignedAt
    BY <1>a, <2>1 DEF RequestRow
  <2>4. Patch(row) /\ work' = work
    BY <1>4, <2>1 DEF Step
  <2>a. to # "assigned" /\ to # "draft"
    BY DEF Terminal
  <2>5. /\ request' \in RequestRow /\ request'.status = to
        /\ request'.agentId = request.agentId
        /\ clock' = clock /\ signed' = signed /\ since' \in Nat /\ TimesFollow'
    BY <1>0, <2>2, <2>3, <2>4, <2>a, PatchKeeps
  <2>6. QueueTypeOK'
    BY <1>a, <2>4, <2>5 DEF QueueTypeOK
  <2>7. AgentsLeft'
    BY <1>0, <1>4, <2>a, <2>4, <2>5 DEF AgentsLeft
  <2> QED
    BY <2>5, <2>6, <2>7 DEF QueueIInv
<1>5. CASE HandMade
  BY <1>4, <1>5 DEF HandMade, Terminal, Step
<1>6. ASSUME NEW g \in Agents \cup {Nobody}, NEW showami \in BOOLEAN,
             CreateAssignmentRecord(g, showami)
      PROVE  QueueIInv'
  <2>1. PICK queue \in BOOLEAN : queue = (~showami /\ g = Nobody)
    OBVIOUS
  <2>2. /\ work = NoWork
        /\ work' = [status |-> "pending", agentId |-> g, queue |-> queue, showami |-> showami]
    BY <1>6, <2>1 DEF CreateAssignmentRecord
  <2>3. PICK row : row = IF queue THEN [request EXCEPT !.status = "blocked"]
                         ELSE [request EXCEPT !.status = "assigned", !.agentId = g, !.assignedAt = clock]
    OBVIOUS
  <2>4. Patch(row)
    BY <1>6, <2>1, <2>3 DEF CreateAssignmentRecord
  <2>5. row \in RequestRow
    BY <1>a, <2>3 DEF RequestRow, ActiveStatuses
  <2>6. /\ row.submittedAt = request.submittedAt
        /\ row.assignedAt = IF queue THEN request.assignedAt ELSE clock
        /\ row.status = IF queue THEN "blocked" ELSE "assigned"
    BY <1>a, <2>3 DEF RequestRow
  <2>7. /\ request' \in RequestRow /\ request'.status = row.status
        /\ clock' = clock /\ signed' = signed /\ since' \in Nat /\ TimesFollow'
    BY <1>0, <2>4, <2>5, <2>6, PatchKeeps
  <2>8. work' \in WorkRow
    BY <2>2 DEF WorkRow
  <2>9. QueueTypeOK'
    BY <1>a, <2>7, <2>8 DEF QueueTypeOK
  <2>10. /\ work'.status = "pending" /\ work'.agentId = g /\ work'.queue = queue
         /\ work'.showami = showami
    BY <2>2
  <2>11. AgentsLeft'
    BY <2>1, <2>6, <2>7, <2>10 DEF AgentsLeft
  <2> QED
    BY <2>7, <2>9, <2>11 DEF QueueIInv
<1>7. ASSUME NEW next \in {"confirmed", "in_progress", "completed", "canceled"},
             NEW g \in Agents \cup {Nobody}, AdvanceAssignment(next, g)
      PROVE  QueueIInv'
  <2>1. PICK agent \in Agents \cup {Nobody} :
          agent = IF g # Nobody /\ work.showami THEN g ELSE work.agentId
    BY <1>a DEF WorkRow
  <2>2. /\ next # "canceled" => agent # Nobody
        /\ work' = IF next \in {"completed", "canceled"} THEN NoWork
                   ELSE [work EXCEPT !.status = next, !.agentId = agent]
    BY <1>7, <2>1 DEF AdvanceAssignment
  <2>3. ~work.queue \/ next = "canceled"
    BY <1>0, <2>1, <2>2 DEF AgentsLeft
  <2>4. work' \in WorkRow
    BY <1>a, <1>b, <2>1, <2>2 DEF WorkRow
  <2>5. ~work'.queue
    BY <1>a, <1>b, <2>2, <2>3 DEF WorkRow
  <2>6. CASE next = "in_progress"
    <3>1. UNCHANGED <<request, since, clock, signed>>
      BY <1>7, <2>6 DEF AdvanceAssignment, QueueRests
    <3>2. QueueTypeOK'
      BY <1>a, <2>4, <3>1 DEF QueueTypeOK
    <3>3. ~work.queue
      BY <2>3, <2>6
    <3>4. AgentsLeft'
      BY <1>0, <2>5, <3>1, <3>3 DEF AgentsLeft
    <3>5. TimesFollow'
      BY <1>0, <3>1 DEF TimesFollow
    <3> QED
      BY <3>2, <3>4, <3>5 DEF QueueIInv
  <2>7. CASE next = "canceled"
    <3>1. PICK row : row = [request EXCEPT !.status = IF work.showami THEN "blocked" ELSE "submitted",
                                           !.agentId = Nobody]
      OBVIOUS
    <3>2. Patch(row)
      BY <1>7, <2>7, <3>1 DEF AdvanceAssignment
    <3>3. row \in RequestRow
      BY <1>a, <3>1 DEF RequestRow, ActiveStatuses
    <3>4. /\ row.submittedAt = request.submittedAt /\ row.assignedAt = request.assignedAt
          /\ row.status \in {"blocked", "submitted"} /\ row.agentId = Nobody
      BY <1>a, <3>1 DEF RequestRow
    <3>5. /\ request' \in RequestRow /\ request'.status = row.status /\ request'.agentId = Nobody
          /\ clock' = clock /\ signed' = signed /\ since' \in Nat /\ TimesFollow'
      BY <1>0, <3>2, <3>3, <3>4, PatchKeeps
    <3>6. QueueTypeOK'
      BY <1>a, <2>4, <3>5 DEF QueueTypeOK
    <3>7. AgentsLeft'
      BY <2>5, <3>4, <3>5 DEF AgentsLeft
    <3> QED
      BY <3>5, <3>6, <3>7 DEF QueueIInv
  <2>8. CASE next \in {"confirmed", "completed"}
    <3>1. PICK row : row = [request EXCEPT !.status = next, !.agentId = agent]
      OBVIOUS
    <3>2. Patch(row)
      BY <1>7, <2>1, <2>8, <3>1 DEF AdvanceAssignment
    <3>3. row \in RequestRow
      BY <1>a, <2>8, <3>1 DEF RequestRow, ActiveStatuses, Terminal
    <3>4. /\ row.submittedAt = request.submittedAt /\ row.assignedAt = request.assignedAt
          /\ row.status = next
      BY <1>a, <3>1 DEF RequestRow
    <3>5. /\ request' \in RequestRow /\ request'.status = next
          /\ clock' = clock /\ signed' = signed /\ since' \in Nat /\ TimesFollow'
      BY <1>0, <2>8, <3>2, <3>3, <3>4, PatchKeeps
    <3>6. QueueTypeOK'
      BY <1>a, <2>4, <3>5 DEF QueueTypeOK
    <3>7. AgentsLeft'
      BY <2>5, <2>8, <3>4, <3>5 DEF AgentsLeft
    <3> QED
      BY <3>5, <3>6, <3>7 DEF QueueIInv
  <2> QED
    BY <2>6, <2>7, <2>8
<1>8. CASE TimePasses
  <2>1. clock' = clock + 1 /\ UNCHANGED <<request, since, work, signed>>
    BY <1>8 DEF TimePasses
  <2>2. QueueTypeOK' /\ AgentsLeft'
    BY <1>0, <2>1 DEF QueueTypeOK, AgentsLeft
  <2>3. TimesFollow'
    <3>1. request.updatedAt \in Nat
      BY <1>a DEF RequestRow
    <3> QED
      BY <1>0, <1>a, <2>1, <3>1 DEF TimesFollow
  <2> QED
    BY <2>2, <2>3 DEF QueueIInv
<1>9. CASE SignedChanges
  BY <1>0, <1>9 DEF SignedChanges, QueueIInv, QueueTypeOK, AgentsLeft, TimesFollow
<1>10. ASSUME NEW from, NEW to, NEW cap,
              CreateWindow(from, to, cap) \/ \E w \in DOMAIN windows : UpdateWindow(w, from, to, cap)
       PROVE  QueueIInv'
  BY <1>1, <1>10 DEF CreateWindow, UpdateWindow, WindowsRest, At
<1>11. ASSUME \E w \in DOMAIN windows, status \in {"available", "unavailable"} : SetStatus(w, status)
       PROVE  QueueIInv'
  BY <1>1, <1>11 DEF SetStatus, WindowsRest, At
<1>12. ASSUME Register \/ \E i \in DOMAIN visits : \/ MarkReminded(i) \/ MarkAttended(i) \/ MarkNoShow(i)
                              \/ CancelVisit(i) \/ RecordConversion(i)
       PROVE  QueueIInv'
  BY <1>1, <1>12 DEF Register, MarkReminded, MarkAttended, MarkNoShow, CancelVisit,
                     RecordConversion, Move, VisitsRest, At
<1>13. CASE UNCHANGED deskOfShowings
  BY <1>1, <1>13 DEF deskOfShowings
<1> QED
  BY <1>2, <1>3, <1>5, <1>6, <1>7, <1>8, <1>9, <1>10, <1>11, <1>12, <1>13 DEF ShowingDeskNext

LEMMA QueueTells == QueueIInv => NoRequestOverlooked /\ StaleIsTrue
<1> SUFFICES ASSUME QueueIInv
             PROVE  NoRequestOverlooked /\ StaleIsTrue
  OBVIOUS
<1>0. QueueTypeOK /\ AgentsLeft /\ TimesFollow
  BY DEF QueueIInv
<1>a. /\ request \in RequestRow /\ clock \in Nat /\ since \in Nat /\ signed \in BOOLEAN
  BY <1>0 DEF QueueTypeOK
<1>b. /\ request.status \in {"draft"} \cup ActiveStatuses \cup Terminal
      /\ request.agentId \in Agents \cup {Nobody}
      /\ request.submittedAt \in Nat \cup {Never} /\ request.assignedAt \in Nat \cup {Never}
      /\ request.updatedAt \in Nat
  BY <1>a DEF RequestRow
<1>1. request.status \in ActiveStatuses /\ Bucket = "none" =>
        request.status = "submitted" /\ request.agentId # Nobody
  BY <1>b DEF Bucket, ActiveStatuses
<1>2. request.agentId # Nobody => "no_agent_coverage" \notin Failures
  BY <1>b DEF Failures, ActiveStatuses, Terminal
<1>3. Stale \/ ~signed <=> Failures # {}
  <2>1. Stale => request.status \in Failures
    BY DEF Failures
  <2>2. ~signed => "missing_agreement" \in Failures
    BY DEF Failures
  <2>3. ~Stale /\ signed => Failures = {}
    BY DEF Failures
  <2> QED
    BY <2>1, <2>2, <2>3
<1>4. ASSUME NEW f \in Filters
      PROVE  Listed(f) <=>
         /\ Bucket # "none" \/ request.status = "submitted"
         /\ f.status \in {"all", request.status}
         /\ (f.assignment = "unassigned" => request.agentId = Nobody)
         /\ (f.assignment = "assigned" => Bucket # "incoming" /\ request.agentId # Nobody)
         /\ (f.age = "stale" => Failures # {} /\ Stale) /\ OfAge(f.age)
         /\ (f.failing => Stale \/ ~signed)
  <2>1. /\ f.status \in ActiveStatuses \cup {"all"} /\ f.failing \in BOOLEAN
        /\ f.assignment \in {"all", "unassigned", "assigned"}
    BY DEF Filters
  <2>2. request.status \in (IF f.status = "all" THEN ActiveStatuses ELSE {f.status})
          <=> /\ Bucket # "none" \/ request.status = "submitted"
              /\ f.status \in {"all", request.status}
    <3>1. Bucket # "none" \/ request.status = "submitted" <=> request.status \in ActiveStatuses
      BY DEF Bucket, ActiveStatuses
    <3>2. "all" \notin ActiveStatuses
      BY DEF ActiveStatuses
    <3> QED
      BY <2>1, <3>1, <3>2
  <2>3. (f.assignment # "all" => (request.agentId = Nobody) = (f.assignment = "unassigned"))
          <=> /\ (f.assignment = "unassigned" => request.agentId = Nobody)
              /\ (f.assignment = "assigned" => Bucket # "incoming" /\ request.agentId # Nobody)
    <3>1. Bucket = "incoming" => request.agentId = Nobody
      BY DEF Bucket, ActiveStatuses
    <3> QED
      BY <2>1, <3>1
  <2>4. OfAge(f.age) <=> (f.age = "stale" => Failures # {} /\ Stale) /\ OfAge(f.age)
    BY <1>3 DEF OfAge
  <2> QED
    BY <1>3, <2>2, <2>3, <2>4 DEF Listed
<1>5. NoRequestOverlooked
  BY <1>0, <1>1, <1>2, <1>4 DEF NoRequestOverlooked, AgentsLeft
<1>6. /\ request.status = "submitted" => (Stale <=> clock - Older(request.submittedAt, 0) > 2)
      /\ request.status = "blocked" => (Stale <=> clock - request.updatedAt > 4)
      /\ request.status = "assigned" => (Stale <=> clock - Older(request.assignedAt, 0) > 1)
  BY DEF Stale
<1>7. Older(request.submittedAt, 0) \in Nat /\ Older(request.submittedAt, 0) <= since
  BY <1>0, <1>a, <1>b DEF Older, Never, TimesFollow
<1>8. request.status = "assigned" =>
        /\ Older(request.assignedAt, 0) = request.assignedAt /\ request.assignedAt \in Nat
        /\ since <= request.assignedAt /\ request.assignedAt <= request.updatedAt
  BY <1>0, <1>a, <1>b DEF Older, Never, TimesFollow
<1>9. since <= request.updatedAt
  BY <1>0 DEF TimesFollow
<1>10. StaleIsTrue
  BY <1>a, <1>b, <1>6, <1>7, <1>8, <1>9 DEF StaleIsTrue
<1> QED
  BY <1>5, <1>10

-----------------------------------------------------------------------------
WindowRow == [startAt : Nat, endAt : Nat, cap : {NoCap, 1}, status : {"available", "unavailable"},
              form : [startUtc : Nat, endUtc : Nat, duration : Nat]]

FormsAgree(row) ==
  /\ row.form = NoForm \/ row.form = Form(row.startAt, row.endAt)
  /\ IsValid(row.startAt, row.endAt, row.cap)

WindowsIInv ==
  /\ windows \in Seq(WindowRow)
  /\ \A w \in DOMAIN windows : FormsAgree(windows[w])

LEMMA WindowMade ==
  ASSUME NEW from \in Nat, NEW to \in Nat, NEW cap \in {NoCap, 1}, IsValid(from, to, cap),
         NEW status \in {"available", "unavailable"}, NEW form, form \in {NoForm, Form(from, to)}
  PROVE  LET row == [startAt |-> from, endAt |-> to, cap |-> cap, status |-> status, form |-> form]
         IN row \in WindowRow /\ FormsAgree(row)
<1>1. to - from \in Nat
  BY DEF IsValid
<1>2. form \in [startUtc : Nat, endUtc : Nat, duration : Nat]
  BY <1>1 DEF NoForm, Form
<1> QED
  BY <1>2 DEF WindowRow, FormsAgree

LEMMA WindowsStep ==
  WindowsIInv /\ [ShowingDeskNext]_deskOfShowings => WindowsIInv'
<1> SUFFICES ASSUME WindowsIInv, [ShowingDeskNext]_deskOfShowings
             PROVE  WindowsIInv'
  OBVIOUS
<1>0. windows \in Seq(WindowRow) /\ \A w \in DOMAIN windows : FormsAgree(windows[w])
  BY DEF WindowsIInv
<1>a. \A w \in DOMAIN windows : windows[w] \in WindowRow
  BY <1>0
<1>b. Instants \subseteq Nat
  BY ShowingDeskAssumption DEF Instants
<1>1. CASE UNCHANGED windows
  BY <1>1 DEF WindowsIInv
<1>2. ASSUME NEW from \in Instants, NEW to \in Instants, NEW cap \in {NoCap, 1},
             CreateWindow(from, to, cap)
      PROVE  WindowsIInv'
  <2>1. PICK row : row = [startAt |-> from, endAt |-> to, cap |-> cap, status |-> "available",
                          form |-> Form(from, to)]
    OBVIOUS
  <2>2. IsValid(from, to, cap)
    BY <1>2 DEF CreateWindow
  <2>3. row \in WindowRow /\ FormsAgree(row)
    BY <1>b, <2>1, <2>2, WindowMade
  <2>4. windows' = Append(windows, row)
    BY <1>2, <2>1 DEF CreateWindow
  <2>5. /\ windows' \in Seq(WindowRow)
        /\ Len(windows') = Len(windows) + 1
        /\ windows'[Len(windows) + 1] = row
        /\ \A i \in 1 .. Len(windows) : windows'[i] = windows[i]
    BY <1>0, <2>3, <2>4, AppendProperties
  <2>6. DOMAIN windows = 1 .. Len(windows) /\ Len(windows) \in Nat
        /\ DOMAIN windows' = 1 .. Len(windows) + 1
    BY <1>0, <2>5
  <2>7. \A i \in 1 .. Len(windows) + 1 : i \in 1 .. Len(windows) \/ i = Len(windows) + 1
    BY <2>6
  <2> QED
    BY <1>0, <2>3, <2>5, <2>6, <2>7 DEF WindowsIInv
<1>3. ASSUME NEW w \in DOMAIN windows, NEW row \in WindowRow, FormsAgree(row),
             windows' = [windows EXCEPT ![w] = row]
      PROVE  WindowsIInv'
  <2>1. windows' \in Seq(WindowRow) /\ DOMAIN windows' = DOMAIN windows
    BY <1>0, <1>3, ExceptSeq
  <2>2. \A i \in DOMAIN windows : windows'[i] = IF i = w THEN row ELSE windows[i]
    BY <1>3
  <2> QED
    BY <1>0, <1>3, <2>1, <2>2 DEF WindowsIInv
<1>4. ASSUME NEW from \in Instants, NEW to \in Instants, NEW cap \in {NoCap, 1},
             NEW w \in DOMAIN windows, UpdateWindow(w, from, to, cap)
      PROVE  WindowsIInv'
  <2>1. PICK old \in WindowRow : old = windows[w]
    BY <1>a
  <2>2. PICK form : form = IF from # old.startAt \/ to # old.endAt \/ cap # old.cap
                             THEN Form(from, to) ELSE old.form
    OBVIOUS
  <2>3. PICK row : row = [startAt |-> from, endAt |-> to, cap |-> cap, status |-> old.status,
                          form |-> form]
    OBVIOUS
  <2>4. IsValid(from, to, cap) /\ windows' = [windows EXCEPT ![w] = row]
    BY <1>4, <2>1, <2>2, <2>3 DEF UpdateWindow
  <2>5. form \in {NoForm, Form(from, to)}
    BY <1>0, <2>1, <2>2 DEF FormsAgree
  <2>6. old.status \in {"available", "unavailable"} /\ from \in Nat /\ to \in Nat
    BY <1>b DEF WindowRow
  <2>7. row \in WindowRow /\ FormsAgree(row)
    BY <2>3, <2>4, <2>5, <2>6, WindowMade
  <2> QED
    BY <1>3, <2>4, <2>7
<1>5. ASSUME NEW w \in DOMAIN windows, NEW status \in {"available", "unavailable"},
             SetStatus(w, status)
      PROVE  WindowsIInv'
  <2>1. PICK old \in WindowRow : old = windows[w]
    BY <1>a
  <2>2. PICK row : row = [old EXCEPT !.status = status]
    OBVIOUS
  <2>3. row \in WindowRow /\ row.startAt = old.startAt /\ row.endAt = old.endAt
        /\ row.cap = old.cap /\ row.form = old.form
    BY <2>2 DEF WindowRow
  <2>4. FormsAgree(row)
    BY <1>0, <2>1, <2>3 DEF FormsAgree
  <2>5. windows' = [windows EXCEPT ![w] = row]
    BY <1>5, <2>1, <2>2 DEF SetStatus
  <2> QED
    BY <1>3, <2>3, <2>4, <2>5
<1>6. ASSUME Submit \/ HandMade \/ TimePasses \/ SignedChanges
             \/ \E g \in Agents : AssignAgent(g)
      PROVE  UNCHANGED windows
  BY <1>6 DEF Submit, HandMade, Step, TimePasses, SignedChanges, AssignAgent, Patch, QueueRests, At
<1>7. ASSUME NEW g \in Agents \cup {Nobody},
             \/ \E showami \in BOOLEAN : CreateAssignmentRecord(g, showami)
             \/ \E next \in {"confirmed", "in_progress", "completed", "canceled"} :
                  AdvanceAssignment(next, g)
      PROVE  UNCHANGED windows
  <2>1. ASSUME NEW showami \in BOOLEAN, CreateAssignmentRecord(g, showami)
        PROVE  UNCHANGED windows
    BY <2>1 DEF CreateAssignmentRecord, Patch, QueueRests, At
  <2>2. ASSUME NEW next \in {"confirmed", "in_progress", "completed", "canceled"},
               AdvanceAssignment(next, g)
        PROVE  UNCHANGED windows
    <3>1. CASE next = "canceled"
      BY <2>2, <3>1 DEF AdvanceAssignment, Patch, QueueRests, At
    <3>2. CASE next = "in_progress"
      BY <2>2, <3>2 DEF AdvanceAssignment, Patch, QueueRests, At
    <3>3. CASE next \notin {"canceled", "in_progress"}
      BY <2>2, <3>3 DEF AdvanceAssignment, Patch, QueueRests, At
    <3> QED
      BY <3>1, <3>2, <3>3
  <2> QED
    BY <1>7, <2>1, <2>2
<1>8. ASSUME Register \/ \E i \in DOMAIN visits : \/ MarkReminded(i) \/ MarkAttended(i) \/ MarkNoShow(i)
                              \/ CancelVisit(i) \/ RecordConversion(i)
      PROVE  UNCHANGED windows
  BY <1>8 DEF Register, MarkReminded, MarkAttended, MarkNoShow, CancelVisit,
              RecordConversion, Move, VisitsRest, At
<1> QED
  BY <1>1, <1>2, <1>4, <1>5, <1>6, <1>7, <1>8 DEF ShowingDeskNext, deskOfShowings

LEMMA WindowsTell == WindowsIInv => WindowsTrue
<1> SUFFICES ASSUME WindowsIInv, NEW w \in DOMAIN windows
             PROVE  LET row == windows[w]
    IN /\ row.form # NoForm => row.form = Form(row.startAt, row.endAt)
       /\ IsValid(row.startAt, row.endAt, row.cap)
       /\ \A from \in Instants : \A to \in (from + 1) .. MaxInstant :
            InRange(w, from, to) <=> \E t \in Instants : /\ from <= t /\ t < to
                                                         /\ row.startAt <= t /\ t < row.endAt
  BY DEF WindowsTrue
<1>1. windows[w] \in WindowRow /\ FormsAgree(windows[w])
  BY DEF WindowsIInv
<1>2. PICK a \in Nat, b \in Nat : a = windows[w].startAt /\ b = windows[w].endAt
  BY <1>1 DEF WindowRow
<1>3. Hydrated(windows[w]) = Form(a, b) /\ a < b
  BY <1>1, <1>2 DEF FormsAgree, Hydrated, IsValid
<1>4. ASSUME NEW from \in Instants, NEW to \in (from + 1) .. MaxInstant
      PROVE  InRange(w, from, to) <=> \E t \in Instants : from <= t /\ t < to /\ a <= t /\ t < b
  <2>1. from \in Nat /\ to \in Nat /\ MaxInstant \in Nat /\ from < to /\ to <= MaxInstant
    BY ShowingDeskAssumption DEF Instants
  <2>2. InRange(w, from, to) <=> a < to /\ from < b
    BY <1>3 DEF InRange, Form
  <2>3. ASSUME a < to, from < b
        PROVE  \E t \in Instants : from <= t /\ t < to /\ a <= t /\ t < b
    <3>1. CASE from <= a
      BY <1>3, <2>1, <2>3, <3>1 DEF Instants
    <3>2. CASE a < from
      BY <1>3, <2>1, <2>3, <3>2 DEF Instants
    <3> QED
      BY <2>1, <3>1, <3>2
  <2>4. ASSUME NEW t \in Instants, from <= t /\ t < to /\ a <= t /\ t < b
        PROVE  a < to /\ from < b
    BY <2>1, <2>4 DEF Instants
  <2> QED
    BY <2>2, <2>3, <2>4
<1> QED
  BY <1>1, <1>2, <1>4 DEF FormsAgree
-----------------------------------------------------------------------------
VisitStatuses == {"created", "reminded", "attended", "noShow", "converted", "canceled"}
VisitRow == [status : VisitStatuses, after : {{}}]

VisitsIInv ==
  /\ visits \in Seq(VisitRow)
  /\ \A i \in DOMAIN visits : visits[i].status \in LiveVisit => i = Len(visits)

LEMMA VisitsStep ==
  VisitsIInv /\ [ShowingDeskNext]_deskOfShowings => VisitsIInv'
<1> SUFFICES ASSUME VisitsIInv, [ShowingDeskNext]_deskOfShowings
             PROVE  VisitsIInv'
  OBVIOUS
<1>0. /\ visits \in Seq(VisitRow)
      /\ \A i \in DOMAIN visits : visits[i].status \in LiveVisit => i = Len(visits)
  BY DEF VisitsIInv
<1>1. CASE UNCHANGED visits
  BY <1>1 DEF VisitsIInv
<1>2. CASE Register
  <2>1. CASE With({"converted"}) # {} \/ With(LiveVisit) # {}
    BY <1>1, <1>2, <2>1 DEF Register
  <2>2. CASE With({"converted"}) = {} /\ With(LiveVisit) = {}
    <3>1. PICK row : row = [status |-> "created", after |-> {}]
      OBVIOUS
    <3>2. visits' = Append(visits, row)
      BY <1>2, <2>2, <3>1 DEF Register
    <3>3. row \in VisitRow
      BY <3>1 DEF VisitRow, VisitStatuses
    <3>4. /\ visits' \in Seq(VisitRow)
          /\ Len(visits') = Len(visits) + 1
          /\ \A i \in 1 .. Len(visits) : visits'[i] = visits[i]
      BY <1>0, <3>2, <3>3, AppendProperties
    <3>5. DOMAIN visits = 1 .. Len(visits) /\ Len(visits) \in Nat
          /\ DOMAIN visits' = 1 .. Len(visits) + 1
      BY <1>0, <3>4
    <3>6. \A i \in 1 .. Len(visits) + 1 : i \in 1 .. Len(visits) \/ i = Len(visits) + 1
      BY <3>5
    <3>7. \A i \in DOMAIN visits : visits[i].status \notin LiveVisit
      BY <2>2 DEF With
    <3> QED
      BY <3>4, <3>5, <3>6, <3>7 DEF VisitsIInv
  <2> QED
    BY <2>1, <2>2
<1>3. ASSUME NEW i \in DOMAIN visits, NEW to \in VisitStatuses, Move(i, to),
             to = "reminded" => From[to] = {"created"}, to # "created"
      PROVE  VisitsIInv'
  <2>1. PICK row : row = [visits[i] EXCEPT !.status = to]
    OBVIOUS
  <2>2. visits[i] \in VisitRow
    BY <1>0
  <2>3. row \in VisitRow /\ row.status = to
    BY <2>1, <2>2 DEF VisitRow
  <2>4. visits' = [visits EXCEPT ![i] = row]
    BY <1>3, <2>1 DEF Move
  <2>5. visits' \in Seq(VisitRow) /\ Len(visits') = Len(visits) /\ DOMAIN visits' = DOMAIN visits
    BY <1>0, <2>3, <2>4, ExceptSeq
  <2>6. \A k \in DOMAIN visits : visits'[k] = IF k = i THEN row ELSE visits[k]
    BY <2>4
  <2>7. to \in LiveVisit => visits[i].status \in LiveVisit
    BY <1>3 DEF Move, LiveVisit
  <2> QED
    BY <1>0, <2>3, <2>5, <2>6, <2>7 DEF VisitsIInv
<1>4. ASSUME NEW i \in DOMAIN visits,
             MarkReminded(i) \/ MarkAttended(i) \/ MarkNoShow(i) \/ CancelVisit(i) \/ RecordConversion(i)
      PROVE  VisitsIInv'
  <2>1. From["reminded"] = {"created"}
    BY DEF From
  <2> QED
    BY <1>3, <1>4, <2>1 DEF VisitStatuses, MarkReminded, MarkAttended, MarkNoShow, CancelVisit,
                     RecordConversion
<1>5. ASSUME Submit \/ HandMade \/ TimePasses \/ SignedChanges
             \/ \E g \in Agents : AssignAgent(g)
      PROVE  UNCHANGED visits
  BY <1>5 DEF Submit, HandMade, Step, TimePasses, SignedChanges, AssignAgent, Patch, QueueRests, At
<1>6. ASSUME NEW g \in Agents \cup {Nobody},
             \/ \E showami \in BOOLEAN : CreateAssignmentRecord(g, showami)
             \/ \E next \in {"confirmed", "in_progress", "completed", "canceled"} :
                  AdvanceAssignment(next, g)
      PROVE  UNCHANGED visits
  <2>1. ASSUME NEW showami \in BOOLEAN, CreateAssignmentRecord(g, showami)
        PROVE  UNCHANGED visits
    BY <2>1 DEF CreateAssignmentRecord, Patch, QueueRests, At
  <2>2. ASSUME NEW next \in {"confirmed", "in_progress", "completed", "canceled"},
               AdvanceAssignment(next, g)
        PROVE  UNCHANGED visits
    <3>1. CASE next = "canceled"
      BY <2>2, <3>1 DEF AdvanceAssignment, Patch, QueueRests, At
    <3>2. CASE next = "in_progress"
      BY <2>2, <3>2 DEF AdvanceAssignment, Patch, QueueRests, At
    <3>3. CASE next \notin {"canceled", "in_progress"}
      BY <2>2, <3>3 DEF AdvanceAssignment, Patch, QueueRests, At
    <3> QED
      BY <3>1, <3>2, <3>3
  <2> QED
    BY <1>6, <2>1, <2>2
<1>7. ASSUME \/ \E from, to \in Instants, cap \in {NoCap, 1} :
                  \/ CreateWindow(from, to, cap)
                  \/ \E w \in DOMAIN windows : UpdateWindow(w, from, to, cap)
             \/ \E w \in DOMAIN windows, status \in {"available", "unavailable"} : SetStatus(w, status)
      PROVE  UNCHANGED visits
  BY <1>7 DEF CreateWindow, UpdateWindow, SetStatus, WindowsRest, At
<1> QED
  BY <1>1, <1>2, <1>4, <1>5, <1>6, <1>7 DEF ShowingDeskNext, deskOfShowings

LEMMA VisitsTell == VisitsIInv => VisitorsTold
<1> SUFFICES ASSUME VisitsIInv, NEW i \in DOMAIN visits
             PROVE  /\ visits[i].after = {}
                    /\ visits[i].status \in LiveVisit => i = Len(visits)
                    /\ \A to \in DOMAIN From :
                         visits[i].status \in From[to] <=> to \in CanTransition[visits[i].status]
  BY DEF VisitorsTold
<1>1. visits[i] \in VisitRow
  BY DEF VisitsIInv
<1>2. visits[i].after = {} /\ visits[i].status \in VisitStatuses
  BY <1>1 DEF VisitRow
<1>3. \A s \in VisitStatuses : \A to \in DOMAIN From : s \in From[to] <=> to \in CanTransition[s]
  BY DEF VisitStatuses, From, CanTransition, LiveVisit
<1> QED
  BY <1>2, <1>3 DEF VisitsIInv
-----------------------------------------------------------------------------
ShowingDeskIInv == QueueIInv /\ WindowsIInv /\ VisitsIInv

LEMMA ShowingDeskInitially == ShowingDeskInit => ShowingDeskIInv
<1> SUFFICES ASSUME ShowingDeskInit
             PROVE  ShowingDeskIInv
  OBVIOUS
<1>1. QueueIInv
  <2>1. PICK row : row = [status |-> "draft", agentId |-> Nobody, submittedAt |-> Never,
                          assignedAt |-> Never, updatedAt |-> 0]
    OBVIOUS
  <2>2. row \in RequestRow /\ NoWork \in WorkRow
    BY <2>1 DEF RequestRow, WorkRow, NoWork
  <2>3. request = row /\ work = NoWork /\ clock = 0 /\ since = 0 /\ signed = FALSE
    BY <2>1 DEF ShowingDeskInit
  <2>4. QueueTypeOK
    BY <2>2, <2>3 DEF QueueTypeOK
  <2>5. AgentsLeft
    BY <2>1, <2>3 DEF AgentsLeft, NoWork
  <2>6. TimesFollow
    BY <2>1, <2>3 DEF TimesFollow, Never
  <2> QED
    BY <2>4, <2>5, <2>6 DEF QueueIInv
<1>2. WindowsIInv
  <2>1. PICK row : row = [startAt |-> 0, endAt |-> 1, cap |-> NoCap, status |-> "available",
                          form |-> NoForm]
    OBVIOUS
  <2>2. IsValid(0, 1, NoCap)
    BY ShowingDeskAssumption DEF IsValid
  <2>3. row \in WindowRow /\ FormsAgree(row)
    BY <2>1, <2>2, WindowMade
  <2>4. windows = <<row>>
    BY <2>1 DEF ShowingDeskInit
  <2> QED
    BY <2>3, <2>4 DEF WindowsIInv
<1>3. VisitsIInv
  BY DEF ShowingDeskInit, VisitsIInv
<1> QED
  BY <1>1, <1>2, <1>3 DEF ShowingDeskIInv

LEMMA ShowingDeskImplied == ShowingDeskIInv => ShowingDeskSound
BY QueueTells, WindowsTell, VisitsTell DEF ShowingDeskIInv, ShowingDeskSound

\* What coordinators and visitors are told of showings, however requests are routed,
\* patched and moved by hand: no request is overlooked, what waits too long is
\* called so, windows are found where they were asked for, and a visitor has one
\* live row.
LEMMA ShowingDeskIsSound == ShowingDeskSpec => [](ShowingDeskIInv /\ ShowingDeskSound)
<1>1. ShowingDeskIInv /\ [ShowingDeskNext]_deskOfShowings => ShowingDeskIInv'
  BY QueueStep, WindowsStep, VisitsStep DEF ShowingDeskIInv
<1> QED
  BY <1>1, ShowingDeskInitially, ShowingDeskImplied, PTL DEF ShowingDeskSpec
-----------------------------------------------------------------------------
(***************************************************************************)
(* WHAT IS REMEMBERED OF A BUYER.  A half-life from one look to the next   *)
(* halves all that events weigh, so no sum has to be worked out.           *)
(***************************************************************************)

\* Powers of two (Pow2), of as many half-lives as there are.
LEMMA PowersDouble ==
  /\ \A n \in 0 .. MaxHalfLives + 1 : Pow2[n] \in Nat /\ Pow2[n] > 0
  /\ \A n \in 1 .. MaxHalfLives + 1 : Pow2[n] = 2 * Pow2[n - 1]
<1> DEFINE size == MaxHalfLives + 1
<1>1. size \in Nat
  BY MemoryAssumption
<1>2. Pow2 = CHOOSE f : f = [n \in 0 .. size |-> Double(f, n)]
  BY DEF Pow2, Double
<1> HIDE DEF size
<1>3. /\ \A n \in 0 .. size : Pow2[n] \in Nat /\ Pow2[n] > 0
      /\ \A n \in 1 .. size : Pow2[n] = 2 * Pow2[n - 1]
  BY <1>1, <1>2, DoublingIs
<1> QED
  BY <1>3 DEF size

LEMMA OneIsPositive == One \in Nat /\ One > 0
<1>1. MaxHalfLives + 1 \in 0 .. MaxHalfLives + 1
  BY MemoryAssumption
<1>2. Pow2[MaxHalfLives + 1] \in Nat /\ Pow2[MaxHalfLives + 1] > 0
  BY <1>1, PowersDouble
<1> QED
  BY <1>2 DEF One
-----------------------------------------------------------------------------
(* What events weigh. *)

\* An event of the time before now.
Past(events) ==
  /\ IsFiniteSet(events)
  /\ \A e \in events : e.home \in Homes /\ e.at \in 0 .. halfLives /\ e.strength \in Nat

WeightOf(e, now) == e.strength * Pow2[MaxHalfLives + 1 - (now - e.at)]

LEMMA WeightsHalve ==
  ASSUME halfLives \in 0 .. MaxHalfLives, NEW e, e.at \in 0 .. halfLives, e.strength \in Nat
  PROVE  /\ WeightOf(e, halfLives) \in Nat /\ WeightOf(e, halfLives + 1) \in Nat
         /\ WeightOf(e, halfLives) = 2 * WeightOf(e, halfLives + 1)
<1> DEFINE k == MaxHalfLives + 1 - (halfLives - e.at)
<1>1. k \in 1 .. MaxHalfLives + 1 /\ k \in 0 .. MaxHalfLives + 1 /\ k - 1 \in 0 .. MaxHalfLives + 1
  BY MemoryAssumption
<1>2. MaxHalfLives + 1 - (halfLives + 1 - e.at) = k - 1
  BY MemoryAssumption
<1> HIDE DEF k
<1>3. Pow2[k] \in Nat /\ Pow2[k - 1] \in Nat /\ Pow2[k] = 2 * Pow2[k - 1]
  BY <1>1, PowersDouble
<1>4. WeightOf(e, halfLives) = e.strength * Pow2[k]
  BY DEF WeightOf, k
<1>5. WeightOf(e, halfLives + 1) = e.strength * Pow2[k - 1]
  BY <1>2 DEF WeightOf
<1> QED
  BY <1>3, <1>4, <1>5

LEMMA WeighHalves ==
  ASSUME halfLives \in 0 .. MaxHalfLives, NEW events, Past(events)
  PROVE  /\ Weigh(events, halfLives) \in Nat /\ Weigh(events, halfLives + 1) \in Nat
         /\ Weigh(events, halfLives) = 2 * Weigh(events, halfLives + 1)
<1> DEFINE f == [e \in events |-> WeightOf(e, halfLives)]
           h == [e \in events |-> WeightOf(e, halfLives + 1)]
<1>1. \A e \in events : f[e] \in Nat /\ h[e] \in Nat /\ h[e] \in Int /\ f[e] = 2 * h[e]
  <2> TAKE e \in events
  <2>1. e.at \in 0 .. halfLives /\ e.strength \in Nat
    BY DEF Past
  <2> QED
    BY <2>1, WeightsHalve
<1>2. Weigh(events, halfLives) = SumFunctionOnSet(f, events)
  BY DEF Weigh, SumFunction, WeightOf
<1>3. Weigh(events, halfLives + 1) = SumFunctionOnSet(h, events)
  BY DEF Weigh, SumFunction, WeightOf
<1>4. IsFiniteSet(events)
  BY DEF Past
<1> HIDE DEF f, h
<1> QED
  BY <1>1, <1>2, <1>3, <1>4, SumDoubles, SumIsNat
-----------------------------------------------------------------------------
(* Evidence.  A half-life later it is half of what it was. *)

Weighed(e) ==
  /\ e.for \in Nat /\ e.against \in Nat /\ e.total = e.for + e.against /\ e.homes \in Nat

Halved(e, later) ==
  /\ e.for = 2 * later.for /\ e.against = 2 * later.against
  /\ e.total = 2 * later.total /\ e.homes = later.homes

LEMMA EvidenceHalves ==
  ASSUME halfLives \in 0 .. MaxHalfLives, NEW events, Past(events), NEW f
  PROVE  /\ Weighed(EvidenceOf(events, f, halfLives))
         /\ Weighed(EvidenceOf(events, f, halfLives + 1))
         /\ Halved(EvidenceOf(events, f, halfLives), EvidenceOf(events, f, halfLives + 1))
<1> DEFINE about == {e \in events : f \in e.features}
           good == {e \in about : e.liked}
           bad == {e \in about : ~e.liked}
           n == Cardinality(HomesIn(about))
<1>1. Past(about) /\ Past(good) /\ Past(bad)
  <2>1. IsFiniteSet(about) /\ IsFiniteSet(good) /\ IsFiniteSet(bad)
    <3>1. about \in SUBSET events /\ good \in SUBSET events /\ bad \in SUBSET events
      OBVIOUS
    <3> QED
      BY <3>1, FS_Subset DEF Past
  <2> QED
    BY <2>1 DEF Past
<1>2. n \in Nat
  <2>1. HomesIn(about) \in SUBSET Homes
    BY <1>1 DEF HomesIn, Past
  <2> QED
    BY <2>1, FS_Subset, FS_CardinalityType, MemoryAssumption
<1> DEFINE weighed(now) == [for |-> Weigh(good, now), against |-> Weigh(bad, now),
                             total |-> Weigh(good, now) + Weigh(bad, now), homes |-> n]
<1>3. \A now : EvidenceOf(events, f, now) = weighed(now)
  BY DEF EvidenceOf
<1>4. /\ Weigh(good, halfLives) \in Nat /\ Weigh(good, halfLives + 1) \in Nat
      /\ Weigh(good, halfLives) = 2 * Weigh(good, halfLives + 1)
  <2> HIDE DEF good
  <2> QED
    BY <1>1, WeighHalves
<1>5. /\ Weigh(bad, halfLives) \in Nat /\ Weigh(bad, halfLives + 1) \in Nat
      /\ Weigh(bad, halfLives) = 2 * Weigh(bad, halfLives + 1)
  <2> HIDE DEF bad
  <2> QED
    BY <1>1, WeighHalves
<1> HIDE DEF good, bad, n
<1>6. Weighed(weighed(halfLives)) /\ Weighed(weighed(halfLives + 1))
  BY <1>2, <1>4, <1>5 DEF Weighed
<1>7. Halved(weighed(halfLives), weighed(halfLives + 1))
  BY <1>2, <1>4, <1>5 DEF Halved
<1> QED
  BY <1>3, <1>6, <1>7

\* w: the difference of the two sides, t: their total, one: the unit, h: homes.
Bar(w, t, h, one) == 100 * w * h * Least(5 * t, 11 * one)
Floor(t, one, c) == c * Most(t, one) * 3 * 11 * one

LEMMA BarBound ==
  ASSUME NEW w \in Nat, NEW t \in Nat, w <= t, NEW h \in Nat, h <= 3, NEW one \in Nat, one > 0
  PROVE  Bar(w, t, h, one) <= 500 * h * (t * t)
<1> DEFINE m == Least(5 * t, 11 * one)
<1>1. m \in Nat /\ m <= 5 * t
  BY DEF Least
<1> HIDE DEF m
<1>2. w * m <= t * m
  BY <1>1
<1>3. t * m <= t * (5 * t)
  BY <1>1
<1>4. w * m \in Nat /\ t * t \in Nat /\ t * (5 * t) = 5 * (t * t)
  BY <1>1
<1>5. w * m <= 5 * (t * t)
  BY <1>1, <1>2, <1>3, <1>4
<1>6. h * (w * m) <= h * (5 * (t * t))
  BY <1>4, <1>5
<1>7. 100 * w * h * m = 100 * (h * (w * m)) /\ h * (5 * (t * t)) = 5 * (h * (t * t))
  BY <1>1
<1> QED
  BY <1>1, <1>4, <1>6, <1>7 DEF Bar, m

LEMMA DurableIsHeavy ==
  ASSUME NEW w \in Nat, NEW t \in Nat, w <= t, NEW h \in Nat, h <= 3, NEW one \in Nat, one > 0,
         Bar(w, t, h, one) >= Floor(t, one, 72)
  PROVE  10 * t >= 14 * one
<1>1. SUFFICES ASSUME 10 * t < 14 * one PROVE FALSE
  OBVIOUS
<1>2. Bar(w, t, h, one) <= 1500 * (t * t)
  <2> DEFINE p == t * t
  <2>1. p \in Nat
    OBVIOUS
  <2>2. Bar(w, t, h, one) \in Int
    BY DEF Bar, Least
  <2>3. Bar(w, t, h, one) <= 500 * h * p
    BY BarBound
  <2> HIDE DEF p
  <2>4. h * p <= 3 * p /\ h * p \in Nat /\ 500 * h * p = 500 * (h * p)
    BY <2>1
  <2>5. Bar(w, t, h, one) <= 1500 * p
    BY <2>1, <2>2, <2>3, <2>4
  <2> QED
    BY <2>5 DEF p
<1>3. Floor(t, one, 72) = 2376 * (Most(t, one) * one)
  BY DEF Floor, Most
<1>4. Bar(w, t, h, one) \in Int /\ t * t \in Nat /\ t * one \in Nat /\ one * one \in Nat
  BY DEF Bar, Least
<1>5. CASE t >= one
  <2>1. Most(t, one) = t
    BY <1>5 DEF Most
  <2>2. 2376 * (t * one) <= 1500 * (t * t)
    BY <1>2, <1>3, <1>4, <2>1
  <2>3. 10 * (t * t) < 14 * (t * one)
    <3>1. t > 0
      BY <1>5
    <3> QED
      BY <1>1, <3>1
  <2>4. t * one > 0
    BY <1>5
  <2> QED
    BY <1>4, <2>2, <2>3, <2>4
<1>6. CASE t < one
  <2>1. Most(t, one) = one
    BY <1>6 DEF Most
  <2>2. 2376 * (one * one) <= 1500 * (t * t)
    BY <1>2, <1>3, <1>4, <2>1
  <2>3. t * t <= one * one
    <3>1. t * t <= t * one /\ t * one <= one * one
      BY <1>6
    <3> QED
      BY <1>4, <3>1
  <2>4. one * one > 0
    OBVIOUS
  <2> QED
    BY <1>4, <2>2, <2>3, <2>4
<1> QED
  BY <1>5, <1>6

LEMMA TwoHomesWeigh ==
  ASSUME NEW w \in Nat, NEW t \in Nat, w <= t, NEW h \in Nat, h <= 2, NEW one \in Nat, one > 0,
         Bar(w, t, h, one) >= Floor(t, one, 38)
  PROVE  t >= one
<1>1. SUFFICES ASSUME t < one PROVE FALSE
  OBVIOUS
<1> DEFINE p == t * t
           q == one * one
<1>2. p \in Nat /\ q \in Nat /\ q > 0
  OBVIOUS
<1>3. p <= q
  <2>1. t * t <= t * one /\ t * one <= one * one
    BY <1>1
  <2>2. t * one \in Nat
    OBVIOUS
  <2> QED
    BY <2>1, <2>2
<1>4. Bar(w, t, h, one) \in Int /\ Bar(w, t, h, one) <= 500 * h * p
  BY BarBound DEF Bar, Least
<1>5. Floor(t, one, 38) = 1254 * q
  BY <1>1 DEF Floor, Most
<1> HIDE DEF p, q
<1>6. h * p <= 2 * p /\ h * p \in Nat /\ 500 * h * p = 500 * (h * p)
  BY <1>2
<1>7. 1254 * q <= 1000 * p
  BY <1>2, <1>4, <1>5, <1>6
<1> QED
  BY <1>2, <1>3, <1>7

\* Where the sides balance, and weigh little, there is no confidence.
LEMMA BalanceIsNoConfidence ==
  ASSUME NEW w \in Nat, NEW t \in Nat, 10 * w <= 3 * t, NEW h \in Nat, h <= 3,
         NEW one \in Nat, one > 0, 10 * t < 12 * one
  PROVE  ~(Bar(w, t, h, one) >= Floor(t, one, 38))
<1> DEFINE m == Least(5 * t, 11 * one)
           k == Most(t, one)
<1>1. m \in Nat /\ m <= 5 * t /\ k \in Nat /\ k >= t /\ k >= one
  BY DEF Least, Most
<1>2. Bar(w, t, h, one) = 100 * w * h * m /\ Floor(t, one, 38) = 38 * k * 3 * 11 * one
  BY DEF Bar, Floor
<1> HIDE DEF m, k
<1> DEFINE p == w * m
<1>3. p \in Nat /\ 100 * w * h * m = 100 * (h * p)
  BY <1>1
<1>4. 100 * p <= 150 * (t * t)
  <2>1. (10 * w) * m <= (3 * t) * m
    BY <1>1
  <2>2. (3 * t) * m <= (3 * t) * (5 * t)
    BY <1>1
  <2>3. (10 * w) * m = 10 * p /\ (3 * t) * (5 * t) = 15 * (t * t)
    BY <1>1
  <2>4. t * t \in Nat /\ (3 * t) * m \in Nat
    BY <1>1
  <2> HIDE DEF p
  <2> QED
    BY <1>3, <2>1, <2>2, <2>3, <2>4
<1>5. k * one >= one * one /\ k * one >= t * one /\ k * one \in Nat
  BY <1>1
<1>6. Floor(t, one, 38) = 1254 * (k * one)
  BY <1>1, <1>2
<1> HIDE DEF p
<1>7. h * p <= 3 * p /\ h * p \in Nat
  BY <1>3
<1> DEFINE a == t * t
           b == t * one
           c == one * one
           d == k * one
<1>8. a \in Nat /\ b \in Nat /\ c \in Nat /\ c > 0 /\ d \in Nat
  BY <1>5
<1>9. 10 * a <= 12 * b
  <2>1. t * (10 * t) <= t * (12 * one)
    OBVIOUS
  <2> QED
    BY <2>1
<1>10. Bar(w, t, h, one) = 100 * (h * p)
  BY <1>2, <1>3
<1>11. d >= b /\ d >= c /\ Floor(t, one, 38) = 1254 * d /\ 100 * p <= 150 * a
  BY <1>4, <1>5, <1>6
<1> HIDE DEF a, b, c, d
<1>12. 100 * (h * p) <= 450 * a
  BY <1>3, <1>7, <1>8, <1>11
<1>13. 450 * a <= 540 * b
  BY <1>8, <1>9
<1> QED
  BY <1>3, <1>7, <1>8, <1>10, <1>11, <1>12, <1>13

\* Twice the evidence carries at least the confidence of it, once that is not light.
LEMMA TwiceIsAsConfident ==
  ASSUME NEW w \in Nat, NEW t \in Nat, NEW h \in Nat, NEW one \in Nat, one > 0, NEW c \in Nat,
         t >= one, Bar(w, t, h, one) >= Floor(t, one, c)
  PROVE  Bar(2 * w, 2 * t, h, one) >= Floor(2 * t, one, c)
<1> DEFINE m == Least(5 * t, 11 * one)
           n == Least(5 * (2 * t), 11 * one)
           p == 100 * w * h
<1>1. m \in Nat /\ n \in Nat /\ m <= n
  BY DEF Least
<1>2. p \in Nat
  OBVIOUS
<1>3. Most(t, one) = t /\ Most(2 * t, one) = 2 * t
  BY DEF Most
<1>4. Bar(w, t, h, one) = p * m
  BY DEF Bar
<1>5. Bar(2 * w, 2 * t, h, one) = 2 * (p * n)
  <2>1. Bar(2 * w, 2 * t, h, one) = 100 * (2 * w) * h * n
    BY DEF Bar
  <2> HIDE DEF n
  <2> QED
    BY <1>1, <2>1
<1>6. Floor(2 * t, one, c) = 2 * Floor(t, one, c) /\ Floor(t, one, c) \in Nat
  BY <1>3 DEF Floor
<1> HIDE DEF m, n, p
<1>7. p * m <= p * n /\ p * m \in Nat /\ p * n \in Nat
  BY <1>1, <1>2
<1> QED
  BY <1>4, <1>5, <1>6, <1>7
-----------------------------------------------------------------------------
Difference(e) == Most(e.for - e.against, e.against - e.for)

LEMMA DifferenceIs ==
  ASSUME NEW e, Weighed(e)
  PROVE  /\ Difference(e) \in Nat /\ Difference(e) <= e.total /\ e.total \in Nat
         /\ Difference(e) = e.total - 2 * Least(e.for, e.against)
         /\ Least(e.for, e.against) \in Nat
         /\ Least(e.homes, 3) \in Nat /\ Least(e.homes, 3) <= 3
         /\ e.homes <= 2 => Least(e.homes, 3) <= 2
  BY DEF Weighed, Difference, Most, Least

LEMMA ConfidentIs ==
  ASSUME NEW e, NEW c
  PROVE  Confident(e, c) <=> Bar(Difference(e), e.total, Least(e.homes, 3), One) >= Floor(e.total, One, c)
  BY DEF Confident, Bar, Floor, Difference

LEMMA ConfidenceWeighs ==
  ASSUME NEW e, Weighed(e)
  PROVE  /\ Confident(e, 72) => 10 * e.total >= 14 * One
         /\ Confident(e, 38) /\ e.homes <= 2 => e.total >= One
<1>1. /\ Difference(e) \in Nat /\ Difference(e) <= e.total /\ e.total \in Nat
      /\ Least(e.homes, 3) \in Nat /\ Least(e.homes, 3) <= 3
      /\ e.homes <= 2 => Least(e.homes, 3) <= 2
  BY DifferenceIs
<1>2. One \in Nat /\ One > 0
  BY OneIsPositive
<1> QED
  BY <1>1, <1>2, ConfidentIs, DurableIsHeavy, TwoHomesWeigh

LEMMA ConfidenceBefore ==
  ASSUME NEW e, NEW later, Weighed(e), Weighed(later), Halved(e, later), NEW c \in Nat,
         Confident(later, c), later.total >= One
  PROVE  Confident(e, c)
<1> DEFINE w == Difference(later)
           t == later.total
           h == Least(later.homes, 3)
<1>1. w \in Nat /\ t \in Nat /\ h \in Nat
  BY DifferenceIs
<1>2. Difference(e) = 2 * w /\ e.total = 2 * t /\ Least(e.homes, 3) = h
  BY DEF Halved, Weighed, Difference, Most
<1>3. Bar(w, t, h, One) >= Floor(t, One, c)
  BY ConfidentIs
<1>4. Bar(2 * w, 2 * t, h, One) >= Floor(2 * t, One, c)
  <2> HIDE DEF w, t, h
  <2>1. t >= One
    BY DEF t
  <2> QED
    BY <1>1, <1>3, <2>1, OneIsPositive, TwiceIsAsConfident
<1> QED
  BY <1>2, <1>4, ConfidentIs

LEMMA ConflictHasNoSide ==
  ASSUME NEW e, Weighed(e), 100 * Least(e.for, e.against) >= 35 * e.total, ~Conflicting(e)
  PROVE  ~Confident(e, 38) /\ ~Confident(e, 72) /\ ~(10 * e.total >= 12 * One)
<1>1. 10 * e.total < 12 * One
  BY OneIsPositive, DifferenceIs DEF Conflicting
<1>2. 10 * Difference(e) <= 3 * e.total
  <2> DEFINE x == Least(e.for, e.against)
  <2>1. x \in Nat /\ Difference(e) = e.total - 2 * x /\ e.total \in Nat /\ 100 * x >= 35 * e.total
    BY DifferenceIs
  <2> HIDE DEF x
  <2> QED
    BY <2>1
<1>3. ~Confident(e, 38)
  <2>1. /\ Difference(e) \in Nat /\ e.total \in Nat
        /\ Least(e.homes, 3) \in Nat /\ Least(e.homes, 3) <= 3
    BY DifferenceIs
  <2> QED
    BY <1>1, <1>2, <2>1, OneIsPositive, ConfidentIs, BalanceIsNoConfidence
<1>4. ~Confident(e, 72)
  BY <1>1, ConfidenceWeighs, OneIsPositive, DifferenceIs
<1> QED
  BY <1>1, <1>3, <1>4, OneIsPositive, DifferenceIs

ReasonFits(e) ==
  LET reason == StatusReason(e)
  IN CASE Status(e) = "review" -> reason = "conflict"
       [] Status(e) = "durable" -> reason = "repeated"
       [] Status(e) = "emerging" -> reason = "directional"
       [] OTHER -> reason \in {"one home", "weak"}
                   \/ (reason = "directional" /\ e.homes >= 3 /\ e.total < One)

LEMMA ReasonOfStatus ==
  ASSUME NEW e, Weighed(e)
  PROVE  ReasonFits(e)
<1>1. e.homes \in Nat /\ e.total \in Nat /\ One \in Nat /\ One > 0
  BY OneIsPositive DEF Weighed
<1>2. /\ Confident(e, 72) => 10 * e.total >= 14 * One
      /\ Confident(e, 38) /\ e.homes <= 2 => e.total >= One
  BY ConfidenceWeighs
<1>3. CASE e.homes < 2
  <2>1. ~(e.homes >= 2) /\ ~(e.homes >= 3)
    BY <1>1, <1>3
  <2>2. Status(e) = "suppressed" /\ StatusReason(e) = "one home"
    BY <1>3, <2>1 DEF Status, StatusReason
  <2> QED
    BY <2>2 DEF ReasonFits
<1>4. CASE ~(e.homes < 2) /\ Conflicting(e)
  <2>1. e.homes >= 2
    BY <1>1, <1>4
  <2>2. Status(e) = "review" /\ StatusReason(e) = "conflict"
    BY <1>4, <2>1 DEF Status, StatusReason
  <2> QED
    BY <2>2 DEF ReasonFits
<1>5. CASE ~(e.homes < 2) /\ ~Conflicting(e) /\ Confident(e, 72) /\ e.homes >= 3
  <2>1. Status(e) = "durable" /\ StatusReason(e) = "repeated"
    BY <1>2, <1>5 DEF Status, StatusReason
  <2> QED
    BY <2>1 DEF ReasonFits
<1>6. CASE ~(e.homes < 2) /\ ~Conflicting(e) /\ ~(Confident(e, 72) /\ e.homes >= 3)
  <2>1. e.homes >= 2
    BY <1>1, <1>6
  <2>2. CASE ~Confident(e, 38)
    <3>1. Status(e) = "suppressed" /\ StatusReason(e) = "weak"
      BY <1>6, <2>2 DEF Status, StatusReason
    <3> QED
      BY <3>1 DEF ReasonFits
  <2>3. CASE Confident(e, 38) /\ e.total >= One
    <3>1. Status(e) = "emerging" /\ StatusReason(e) = "directional"
      BY <1>6, <2>1, <2>3 DEF Status, StatusReason
    <3> QED
      BY <3>1 DEF ReasonFits
  <2>4. CASE Confident(e, 38) /\ ~(e.total >= One)
    <3>1. Status(e) = "suppressed" /\ StatusReason(e) = "directional"
      BY <1>6, <2>4 DEF Status, StatusReason
    <3>2. e.homes >= 3 /\ e.total < One
      BY <1>1, <1>2, <2>4
    <3> QED
      BY <3>1, <3>2 DEF ReasonFits
  <2> QED
    BY <2>2, <2>3, <2>4
<1> QED
  BY <1>3, <1>4, <1>5, <1>6

LEMMA StatusFades ==
  ASSUME NEW e, NEW later, Weighed(e), Weighed(later), Halved(e, later)
  PROVE  Status(later) \in Fades(Status(e))
<1> DEFINE Firm(x) == x.homes >= 3 /\ Confident(x, 72) /\ 10 * x.total >= 14 * One
           Some(x) == x.homes >= 2 /\ Confident(x, 38) /\ x.total >= One
           Torn(x) == x.homes >= 2 /\ Conflicting(x)
           Ratio(x) == 100 * Least(x.for, x.against) >= 35 * x.total
<1>1. \A x : Status(x) = IF Torn(x) THEN "review" ELSE IF Firm(x) THEN "durable"
                         ELSE IF Some(x) THEN "emerging" ELSE "suppressed"
  BY DEF Status
<1>2. /\ e.total \in Nat /\ later.total \in Nat /\ e.total = 2 * later.total
      /\ e.homes \in Nat /\ e.homes = later.homes /\ One \in Nat /\ One > 0
  BY OneIsPositive DEF Weighed, Halved
<1>3. Ratio(e) <=> Ratio(later)
  <2>1. Least(e.for, e.against) = 2 * Least(later.for, later.against)
    BY DEF Weighed, Halved, Least
  <2>2. Least(later.for, later.against) \in Nat
    BY DifferenceIs
  <2> QED
    BY <1>2, <2>1, <2>2
<1>4. \A x : Conflicting(x) <=> Ratio(x) /\ 10 * x.total >= 12 * One
  BY DEF Conflicting
<1>5. Confident(e, 72) => 10 * e.total >= 14 * One
  BY ConfidenceWeighs
<1>6. /\ Confident(later, 72) /\ later.total >= One => Confident(e, 72)
      /\ Confident(later, 38) /\ later.total >= One => Confident(e, 38)
  BY ConfidenceBefore
<1>7. Ratio(later) /\ ~Conflicting(later) => ~Confident(later, 38) /\ ~Confident(later, 72)
  BY ConflictHasNoSide
<1> HIDE DEF Ratio
<1>8. Torn(later) => Torn(e)
  BY <1>2, <1>3, <1>4
<1>9. Firm(later) => Firm(e)
  <2>1. 10 * later.total >= 14 * One => later.total >= One /\ 10 * e.total >= 14 * One
    BY <1>2
  <2> QED
    BY <1>2, <1>6, <2>1
<1>10. Some(later) => Some(e)
  <2>1. later.total >= One => e.total >= One
    BY <1>2
  <2> QED
    BY <1>2, <1>6, <2>1
<1>11. Torn(e) /\ ~Torn(later) => ~Firm(later) /\ ~Some(later)
  BY <1>2, <1>3, <1>4, <1>7
<1> HIDE DEF Firm, Some, Torn
<1>12. CASE Torn(e)
  <2>1. Status(e) = "review" /\ Status(later) \in {"review", "suppressed"}
    BY <1>1, <1>11, <1>12
  <2> QED
    BY <2>1 DEF Fades
<1>13. CASE ~Torn(e) /\ Firm(e)
  <2>1. Status(e) = "durable" /\ Status(later) \in {"durable", "emerging", "suppressed"}
    BY <1>1, <1>8, <1>13
  <2> QED
    BY <2>1 DEF Fades
<1>14. CASE ~Torn(e) /\ ~Firm(e) /\ Some(e)
  <2>1. Status(e) = "emerging" /\ Status(later) \in {"emerging", "suppressed"}
    BY <1>1, <1>8, <1>9, <1>14
  <2> QED
    BY <2>1 DEF Fades
<1>15. CASE ~Torn(e) /\ ~Firm(e) /\ ~Some(e)
  <2>1. Status(e) = "suppressed" /\ Status(later) = "suppressed"
    BY <1>1, <1>8, <1>9, <1>10, <1>15
  <2> QED
    BY <2>1 DEF Fades
<1> QED
  BY <1>12, <1>13, <1>14, <1>15
-----------------------------------------------------------------------------
AllEvents == Events(saved, tours, opinions)

LEMMA OldSignalsFade ==
  ASSUME halfLives \in 0 .. MaxHalfLives, Past(AllEvents)
  PROVE  TimeOnlyFades /\ ReasonsMatch
<1> DEFINE events == AllEvents
           Names == UNION {e.features : e \in events}
           E(f) == EvidenceOf(events, f, halfLives)
           L(f) == EvidenceOf(events, f, halfLives + 1)
           SignalOf(f, e) == [feature |-> f, prefer |-> e.for >= e.against, status |-> Status(e)]
<1>1. \A f : Weighed(E(f)) /\ Weighed(L(f)) /\ Halved(E(f), L(f))
  BY EvidenceHalves
<1>2. /\ Signals(events, halfLives) = {SignalOf(f, E(f)) : f \in Names}
      /\ Signals(events, halfLives + 1) = {SignalOf(f, L(f)) : f \in Names}
  BY DEF Signals
<1>3. \A f : Status(L(f)) \in Fades(Status(E(f)))
  <2> TAKE f
  <2>1. Weighed(E(f)) /\ Weighed(L(f)) /\ Halved(E(f), L(f))
    BY <1>1
  <2> HIDE DEF E, L
  <2> QED
    BY <2>1, StatusFades
<1>4. \A f : (E(f).for >= E(f).against) = (L(f).for >= L(f).against)
  <2> TAKE f
  <2>1. Weighed(E(f)) /\ Weighed(L(f)) /\ Halved(E(f), L(f))
    BY <1>1
  <2> HIDE DEF E, L
  <2>2. E(f).for >= E(f).against <=> L(f).for >= L(f).against
    BY <2>1 DEF Weighed, Halved
  <2> QED
    BY <2>2
<1>5. \A f : ReasonFits(E(f))
  <2> TAKE f
  <2>1. Weighed(E(f))
    BY <1>1
  <2> HIDE DEF E
  <2> QED
    BY <2>1, ReasonOfStatus
<1>6. ReasonsMatch
  <2>1. \A f \in UNION {e.features : e \in Events(saved, tours, opinions)} :
          ReasonFits(EvidenceOf(Events(saved, tours, opinions), f, halfLives))
    BY <1>5 DEF AllEvents
  <2> QED
    BY <2>1, Zenon DEF ReasonsMatch, ReasonFits
<1>7. \A s \in Signals(events, halfLives) : \E t \in Signals(events, halfLives + 1) :
        t.feature = s.feature /\ t.prefer = s.prefer /\ t.status \in Fades(s.status)
  <2> TAKE s \in Signals(events, halfLives)
  <2> HIDE DEF E, L, Names
  <2>1. PICK f \in Names : s = SignalOf(f, E(f))
    BY <1>2
  <2>2. SignalOf(f, L(f)) \in Signals(events, halfLives + 1)
    BY <1>2
  <2>3. /\ SignalOf(f, L(f)).feature = s.feature /\ SignalOf(f, L(f)).prefer = s.prefer
        /\ SignalOf(f, L(f)).status = Status(L(f)) /\ s.status = Status(E(f))
    BY <1>4, <2>1
  <2> QED
    BY <1>3, <2>2, <2>3
<1> QED
  BY <1>6, <1>7 DEF TimeOnlyFades, AllEvents

\* A signal that is shown rests on two homes.
LEMMA ShownNeedTwo ==
  ASSUME NEW events, HomesIn(events) \subseteq Homes, NEW now, NEW wished,
         Influences(Snapshot(events, wished, now))
  PROVE  Cardinality(HomesIn(events)) >= 2
<1> DEFINE signals == Signals(events, now)
           shown == Visible(signals)
           state == IF events = {} THEN "cold_start"
                    ELSE IF Cardinality(HomesIn(events)) < 2 \/ shown = {} THEN "thin_history"
                    ELSE IF Cardinality(shown) >= 2 \/ \E s \in shown : s.status = "durable" THEN "durable"
                    ELSE "evolving"
           n == Cardinality(HomesIn(events))
<1>1. IsFiniteSet(HomesIn(events)) /\ n \in Nat
  BY FS_Subset, FS_CardinalityType, MemoryAssumption
<1>2. Snapshot(events, wished, now) = [at |-> now, wishes |-> wished, signals |-> signals, state |-> state]
  BY DEF Snapshot
<1> HIDE DEF signals, state
<1>3. state = "durable" \/ Cardinality(shown) >= 2
  BY <1>2 DEF Influences
<1>4. CASE state = "durable"
  <2>1. ~(n < 2)
    BY <1>4 DEF state
  <2> QED
    BY <1>1, <2>1
<1>5. CASE Cardinality(shown) >= 2
  <2>1. shown # {}
    <3>1. SUFFICES ASSUME shown = {} PROVE FALSE
      OBVIOUS
    <3>2. Cardinality(shown) = 0
      BY <3>1, FS_EmptySet
    <3> HIDE DEF shown
    <3> QED
      BY <1>5, <3>2
  <2>2. PICK s \in signals : s.status # "suppressed"
    BY <2>1 DEF Visible
  <2>3. PICK f : s = [feature |-> f, prefer |-> EvidenceOf(events, f, now).for >= EvidenceOf(events, f, now).against,
                      status |-> Status(EvidenceOf(events, f, now))]
    BY <2>2 DEF signals, Signals
  <2> DEFINE e == EvidenceOf(events, f, now)
             about == {x \in events : f \in x.features}
  <2>4. Status(e) # "suppressed" /\ e.homes = Cardinality(HomesIn(about))
    BY <2>2, <2>3 DEF EvidenceOf
  <2>5. HomesIn(about) \in SUBSET HomesIn(events)
    BY DEF HomesIn
  <2>6. Cardinality(HomesIn(about)) \in Nat /\ Cardinality(HomesIn(about)) <= n
    BY <1>1, <2>5, FS_Subset, FS_CardinalityType
  <2> HIDE DEF e, about
  <2>7. e.homes \in Nat /\ e.homes <= n
    BY <2>4, <2>6
  <2>8. e.homes >= 2
    BY <2>4, <2>7 DEF Status
  <2> QED
    BY <1>1, <2>7, <2>8
<1> QED
  BY <1>3, <1>4, <1>5

(* The watchlist: positions count its entries. *)

SavedEntry == [home : Homes, position : Int, at : 0 .. MaxHalfLives]
HomesOf(rows) == {e.home : e \in rows}

InPlace(rows) ==
  /\ rows \subseteq SavedEntry /\ IsFiniteSet(rows)
  /\ \A e, o \in rows : e.home = o.home => e = o
  /\ \A e, o \in rows : e.position = o.position => e = o
  /\ {e.position : e \in rows} = 0 .. Cardinality(rows) - 1

LEMMA InPlaceSizes ==
  ASSUME NEW rows, InPlace(rows)
  PROVE  /\ Cardinality(rows) \in Nat /\ Cardinality(HomesOf(rows)) = Cardinality(rows)
         /\ \A e \in rows : e.position \in 0 .. Cardinality(rows) - 1
<1> DEFINE f == [e \in rows |-> e.home]
<1>1. HomesOf(rows) = {f[e] : e \in rows}
  BY DEF HomesOf
<1>2. \A e, o \in rows : f[e] = f[o] => e = o
  BY DEF InPlace
<1>3. IsFiniteSet(rows) /\ Cardinality(rows) \in Nat
  BY FS_CardinalityType DEF InPlace
<1>4. Cardinality(HomesOf(rows)) = Cardinality(rows)
  <2> HIDE DEF f
  <2> QED
    BY ONLY <1>1, <1>2, <1>3, FiniteImage
<1>5. \A e \in rows : e.position \in 0 .. Cardinality(rows) - 1
  BY DEF InPlace
<1> QED
  BY <1>3, <1>4, <1>5

LEMMA AddedInPlace ==
  ASSUME NEW rows, InPlace(rows), NEW row \in SavedEntry,
         row.position = Cardinality(rows), row.home \notin HomesOf(rows)
  PROVE  InPlace(rows \cup {row})
<1> DEFINE n == Cardinality(rows)
<1>1. n \in Nat /\ \A e \in rows : e.position \in 0 .. n - 1
  BY InPlaceSizes
<1>2. \A e \in rows : e.home # row.home /\ e.position # row.position /\ e # row
  BY <1>1 DEF HomesOf
<1>3. IsFiniteSet(rows \cup {row}) /\ Cardinality(rows \cup {row}) = n + 1
  <2>1. row \notin rows
    BY <1>2
  <2> QED
    BY <2>1, FS_AddElement DEF InPlace
<1>4. {e.position : e \in rows \cup {row}} = 0 .. (n + 1) - 1
  <2>1. {e.position : e \in rows} = 0 .. n - 1
    BY DEF InPlace
  <2>2. {e.position : e \in rows \cup {row}} = {e.position : e \in rows} \cup {n}
    OBVIOUS
  <2> HIDE DEF n
  <2>3. (0 .. n - 1) \cup {n} = 0 .. (n + 1) - 1
    BY <1>1
  <2> QED
    BY <2>1, <2>2, <2>3
<1> QED
  BY <1>2, <1>3, <1>4 DEF InPlace

\* Of the entries left, one counts those it comes behind: it moves up behind the one gone.
LEMMA RankIs ==
  ASSUME NEW rows, InPlace(rows), NEW gone \in rows, NEW e \in rows \ {gone}
  PROVE  Cardinality({o \in rows \ {gone} : o.position < e.position})
           = IF e.position < gone.position THEN e.position ELSE e.position - 1
<1> DEFINE n == Cardinality(rows)
           below == {o \in rows \ {gone} : o.position < e.position}
           p == e.position
           g == gone.position
           f == [o \in below |-> o.position]
<1>1. n \in Nat /\ p \in 0 .. n - 1 /\ g \in 0 .. n - 1 /\ p # g
  BY InPlaceSizes DEF InPlace
<1>2. IsFiniteSet(below)
  <2>1. below \in SUBSET rows
    OBVIOUS
  <2> QED
    BY <2>1, FS_Subset DEF InPlace
<1>3. \A o, q \in below : f[o] = f[q] => o = q
  BY DEF InPlace
<1>4. Cardinality({f[o] : o \in below}) = Cardinality(below)
  <2> HIDE DEF f, below
  <2> QED
    BY <1>2, <1>3, FiniteImage
<1>5. {f[o] : o \in below} = (0 .. p - 1) \ {g}
  <2>1. ASSUME NEW o \in below PROVE f[o] \in (0 .. p - 1) \ {g}
    <3>1. o.position \in 0 .. n - 1 /\ o.position # g /\ o.position < p
      BY InPlaceSizes DEF InPlace
    <3> QED
      BY <1>1, <3>1
  <2>2. ASSUME NEW k \in (0 .. p - 1) \ {g} PROVE \E o \in below : f[o] = k
    <3>1. k \in 0 .. n - 1 /\ k < p /\ k # g
      BY <1>1
    <3>2. PICK o \in rows : o.position = k
      BY <3>1 DEF InPlace
    <3> QED
      BY <3>1, <3>2
  <2> QED
    BY <2>1, <2>2
<1>6. /\ IsFiniteSet(0 .. p - 1)
      /\ Cardinality(0 .. p - 1) = p
  <2>1. p \in Nat /\ p - 1 \in Int /\ 0 \in Int
    BY <1>1
  <2> HIDE DEF p
  <2>2. /\ IsFiniteSet(0 .. p - 1)
        /\ Cardinality(0 .. p - 1) = IF 0 > p - 1 THEN 0 ELSE (p - 1) - 0 + 1
    BY <2>1, FS_Interval
  <2> QED
    BY <2>1, <2>2
<1>7. Cardinality((0 .. p - 1) \ {g}) = IF g \in 0 .. p - 1 THEN p - 1 ELSE p
  BY <1>6, FS_RemoveElement
<1>8. Cardinality(below) = IF g \in 0 .. p - 1 THEN p - 1 ELSE p
  BY <1>4, <1>5, <1>7
<1> HIDE DEF below, p, g, n
<1>9. g \in 0 .. p - 1 <=> ~(p < g)
  BY <1>1
<1> QED
  BY <1>8, <1>9 DEF below, p, g

LEMMA RemovedInPlace ==
  ASSUME NEW rows, InPlace(rows), NEW gone \in rows
  PROVE  InPlace(Renumbered(rows \ {gone}))
<1> DEFINE n == Cardinality(rows)
           left == rows \ {gone}
           g == gone.position
           Rank(e) == Cardinality({o \in left : o.position < e.position})
           R == [e \in left |-> [e EXCEPT !.position = Rank(e)]]
<1>1. n \in Nat /\ g \in 0 .. n - 1
  BY InPlaceSizes
<1>2. \A e \in left : Rank(e) = IF e.position < g THEN e.position ELSE e.position - 1
  BY RankIs
<1>3. Renumbered(left) = {R[e] : e \in left}
  BY DEF Renumbered
<1>4. IsFiniteSet(left) /\ Cardinality(left) = n - 1
  BY FS_RemoveElement DEF InPlace
<1> HIDE DEF Rank
<1>5. \A e \in left : /\ e \in SavedEntry /\ e.position \in 0 .. n - 1 /\ e.position # g
                      /\ Rank(e) \in 0 .. n - 2
                      /\ R[e] \in SavedEntry /\ R[e].home = e.home /\ R[e].position = Rank(e)
  <2> TAKE e \in left
  <2>1. e \in SavedEntry /\ e.position \in 0 .. n - 1 /\ e.position # g
    BY InPlaceSizes DEF InPlace
  <2>2. Rank(e) \in 0 .. n - 2 /\ Rank(e) \in Int
    BY <1>1, <1>2, <2>1
  <2> QED
    BY <2>1, <2>2 DEF SavedEntry
<1>6. \A e, o \in left : R[e].home = R[o].home => e = o
  BY <1>5 DEF InPlace
<1>7. \A e, o \in left : R[e].position = R[o].position => e = o
  <2> TAKE e \in left, o \in left
  <2>1. SUFFICES ASSUME Rank(e) = Rank(o) PROVE e = o
    BY <1>5
  <2>2. e.position = o.position
    <3>1. e.position \in 0 .. n - 1 /\ o.position \in 0 .. n - 1 /\ e.position # g /\ o.position # g
      BY <1>5
    <3> QED
      BY <1>1, <1>2, <2>1, <3>1
  <2> QED
    BY <2>2 DEF InPlace
<1>8. IsFiniteSet({R[e] : e \in left}) /\ Cardinality({R[e] : e \in left}) = n - 1
  <2>1. \A e, o \in left : R[e] = R[o] => e = o
    BY <1>6
  <2> HIDE DEF R, left
  <2> QED
    BY <1>4, <2>1, FiniteImage
<1>9. {x.position : x \in {R[e] : e \in left}} = 0 .. (n - 1) - 1
  <2>1. ASSUME NEW e \in left PROVE R[e].position \in 0 .. (n - 1) - 1
    <3>1. R[e].position \in 0 .. n - 2
      BY <1>5
    <3> QED
      BY <1>1, <3>1
  <2>2. ASSUME NEW k \in 0 .. (n - 1) - 1 PROVE \E e \in left : R[e].position = k
    <3>1. PICK q \in 0 .. n - 1 : q = IF k < g THEN k ELSE k + 1
      BY <1>1
    <3>2. PICK e \in rows : e.position = q
      BY <3>1 DEF InPlace
    <3>3. e \in left
      BY <1>1, <3>1, <3>2
    <3>4. Rank(e) = k
      BY <1>1, <1>2, <3>1, <3>2, <3>3
    <3> QED
      BY <1>5, <3>3, <3>4
  <2> HIDE DEF R, left
  <2> QED
    BY <2>1, <2>2
<1> DEFINE new == {R[e] : e \in left}
<1>10. new \subseteq SavedEntry /\ \A x, y \in new : (x.home = y.home => x = y) /\ (x.position = y.position => x = y)
  <2> HIDE DEF R, left
  <2> QED
    BY <1>5, <1>6, <1>7
<1>11. InPlace(new)
  <2> HIDE DEF new
  <2>1. IsFiniteSet(new) /\ Cardinality(new) = n - 1 /\ {x.position : x \in new} = 0 .. (n - 1) - 1
    BY <1>8, <1>9 DEF new
  <2> QED
    BY <1>10, <2>1 DEF InPlace
<1> QED
  BY <1>3, <1>11

LEMMA DistinctSize ==
  ASSUME NEW order, NEW n \in Nat, DOMAIN order = 1 .. n,
         \A i, k \in 1 .. n : order[i] = order[k] => i = k
  PROVE  Cardinality(ToSet(order)) = n
<1> DEFINE S == DOMAIN order
<1>1. IsFiniteSet(S) /\ Cardinality(S) = n
  BY FS_Interval
<1>2. \A x, y \in S : order[x] = order[y] => x = y
  OBVIOUS
<1>3. ToSet(order) = {order[x] : x \in S}
  BY DEF ToSet
<1> HIDE DEF S
<1>4. Cardinality({order[x] : x \in S}) = Cardinality(S)
  BY ONLY <1>1, <1>2, FiniteImage
<1> QED
  BY <1>1, <1>3, <1>4

\* Each entry where the order has its home.
Reordered(rows, order) ==
  {[e EXCEPT !.position = (CHOOSE i \in DOMAIN order : order[i] = e.home) - 1] : e \in rows}

LEMMA ReorderedInPlace ==
  ASSUME NEW rows, InPlace(rows), NEW order, NEW n \in Nat, DOMAIN order = 1 .. n,
         \A i, k \in 1 .. n : order[i] = order[k] => i = k,
         ToSet(order) = HomesOf(rows)
  PROVE  InPlace(Reordered(rows, order))
<1> DEFINE Place(e) == (CHOOSE i \in DOMAIN order : order[i] = e.home) - 1
           R == [e \in rows |-> [e EXCEPT !.position = Place(e)]]
           new == {R[e] : e \in rows}
<1>1. Cardinality(rows) = n
  <2>1. Cardinality(ToSet(order)) = n
    BY DistinctSize
  <2> QED
    BY <2>1, InPlaceSizes
<1>2. \A e \in rows : Place(e) \in 0 .. n - 1 /\ order[Place(e) + 1] = e.home
  <2> TAKE e \in rows
  <2>1. \E i \in DOMAIN order : order[i] = e.home
    BY DEF ToSet, HomesOf
  <2>2. PICK i \in 1 .. n : i = (CHOOSE k \in DOMAIN order : order[k] = e.home) /\ order[i] = e.home
    BY <2>1
  <2>3. Place(e) = i - 1
    BY <2>2
  <2> QED
    BY <2>2, <2>3
<1>3. \A i \in 1 .. n : \E e \in rows : Place(e) = i - 1
  <2> TAKE i \in 1 .. n
  <2>1. PICK e \in rows : order[i] = e.home
    BY DEF ToSet, HomesOf
  <2>2. Place(e) + 1 \in 1 .. n /\ order[Place(e) + 1] = order[i]
    BY <1>2, <2>1
  <2>3. Place(e) + 1 = i
    BY <2>2
  <2> HIDE DEF Place
  <2>4. Place(e) \in Int
    BY <1>2
  <2> QED
    BY <2>3, <2>4
<1> HIDE DEF Place
<1>4. \A e \in rows : /\ R[e] \in SavedEntry /\ R[e].home = e.home /\ R[e].position = Place(e)
  <2> TAKE e \in rows
  <2>1. e \in SavedEntry /\ Place(e) \in Int
    BY <1>2 DEF InPlace
  <2> QED
    BY <2>1 DEF SavedEntry
<1>5. \A e, o \in rows : R[e].home = R[o].home => e = o
  BY <1>4 DEF InPlace
<1>6. \A e, o \in rows : R[e].position = R[o].position => e = o
  BY <1>2, <1>4 DEF InPlace
<1>7. IsFiniteSet(new) /\ Cardinality(new) = n
  <2>1. \A e, o \in rows : R[e] = R[o] => e = o
    BY <1>5
  <2>2. IsFiniteSet(rows)
    BY DEF InPlace
  <2> HIDE DEF R
  <2> QED
    BY <1>1, <2>1, <2>2, FiniteImage, SMTT(30)
<1>8. {x.position : x \in new} = 0 .. n - 1
  <2>1. \A e \in rows : R[e].position \in 0 .. n - 1
    BY <1>2, <1>4
  <2>2. ASSUME NEW k \in 0 .. n - 1 PROVE \E e \in rows : R[e].position = k
    <3>1. k + 1 \in 1 .. n /\ (k + 1) - 1 = k
      OBVIOUS
    <3> HIDE DEF R
    <3> QED
      BY <1>3, <1>4, <3>1
  <2> HIDE DEF R
  <2> QED
    BY <2>1, <2>2
<1>9. new \subseteq SavedEntry /\ \A x, y \in new : (x.home = y.home => x = y) /\ (x.position = y.position => x = y)
  <2> HIDE DEF R
  <2> QED
    BY <1>4, <1>5, <1>6
<1>10. InPlace(new)
  <2> HIDE DEF new
  <2> QED
    BY <1>7, <1>8, <1>9 DEF InPlace
<1>11. Reordered(rows, order) = new
  BY DEF Place, Reordered
<1> QED
  BY <1>10, <1>11

(* The comparison holds no home twice. *)

Distinct(homes) ==
  homes \in Seq(Homes) /\ \A k, l \in DOMAIN homes : homes[k] = homes[l] => k = l

LEMMA InsertedDistinct ==
  ASSUME NEW homes, Distinct(homes), NEW i \in 1 .. Len(homes) + 1, NEW home \in Homes,
         \A k \in DOMAIN homes : homes[k] # home
  PROVE  Distinct(InsertAt(homes, i, home))
<1> DEFINE n == Len(homes)
           new == InsertAt(homes, i, home)
           Old(l) == IF l < i THEN l ELSE l - 1
<1>1. homes \in Seq(Homes) /\ n \in Nat /\ DOMAIN homes = 1 .. n /\ i \in 1 .. n + 1
  BY LenProperties DEF Distinct
<1>2. /\ new \in Seq(Homes) /\ DOMAIN new = 1 .. n + 1
      /\ \A l \in 1 .. n + 1 :
           new[l] = IF l < i THEN homes[l] ELSE IF l = i THEN home ELSE homes[l - 1]
  <2>1. homes \in Seq(Homes) /\ i \in 1 .. Len(homes) + 1 /\ home \in Homes
    BY <1>1
  <2>2. WithAt(new, Homes, homes, i, home)
    BY ONLY <2>1, InsertAtProperties
  <2> HIDE DEF new
  <2> QED
    BY ONLY <2>2 DEF WithAt
<1> HIDE DEF new, n
<1>3. \A l \in 1 .. n + 1 : l # i => Old(l) \in 1 .. n /\ new[l] = homes[Old(l)]
  BY <1>1, <1>2
<1>4. ASSUME NEW k \in 1 .. n + 1, NEW l \in 1 .. n + 1, new[k] = new[l] PROVE k = l
  <2>0. new[i] = home
    BY <1>1, <1>2
  <2>1. CASE k = i /\ l # i
    <3>1. new[l] # home
      <4> HIDE DEF Old
      <4> QED
        BY <1>1, <1>3, <2>1
    <3> QED
      BY <1>4, <2>0, <2>1, <3>1
  <2>2. CASE k # i /\ l = i
    <3>1. new[k] # home
      <4> HIDE DEF Old
      <4> QED
        BY <1>1, <1>3, <2>2
    <3> QED
      BY <1>4, <2>0, <2>2, <3>1
  <2>3. CASE k # i /\ l # i
    <3>1. Old(k) = Old(l)
      <4> HIDE DEF Old
      <4> QED
        BY <1>1, <1>3, <1>4, <2>3 DEF Distinct
    <3> QED
      BY <1>1, <2>3, <3>1
  <2> QED
    BY <2>1, <2>2, <2>3
<1> QED
  BY <1>2, <1>4 DEF Distinct, new

LEMMA RemovedDistinct ==
  ASSUME NEW homes, Distinct(homes), NEW i \in DOMAIN homes
  PROVE  /\ Distinct(RemoveAt(homes, i)) /\ Len(RemoveAt(homes, i)) = Len(homes) - 1
         /\ \A k \in DOMAIN RemoveAt(homes, i) : RemoveAt(homes, i)[k] # homes[i]
<1> DEFINE n == Len(homes)
           new == RemoveAt(homes, i)
           Old(l) == IF l < i THEN l ELSE l + 1
<1>1. homes \in Seq(Homes) /\ n \in Nat /\ DOMAIN homes = 1 .. n /\ i \in 1 .. n
  BY LenProperties DEF Distinct
<1>2. /\ new \in Seq(Homes) /\ Len(new) = n - 1
      /\ \A l \in DOMAIN new : Old(l) \in DOMAIN homes /\ new[l] = homes[Old(l)]
  <2>1. WithoutAt(new, Homes, homes, i)
    BY <1>1, RemoveAtProperties
  <2> HIDE DEF new
  <2> QED
    BY <2>1 DEF WithoutAt
<1>3. DOMAIN new = 1 .. n - 1
  BY <1>2, LenProperties
<1> HIDE DEF new, n
<1>4. \A k, l \in DOMAIN new : new[k] = new[l] => k = l
  <2> TAKE k \in DOMAIN new, l \in DOMAIN new
  <2>1. SUFFICES ASSUME new[k] = new[l] PROVE k = l
    OBVIOUS
  <2>2. Old(k) = Old(l)
    <3> HIDE DEF Old
    <3> QED
      BY <1>2, <2>1 DEF Distinct
  <2>3. k \in 1 .. n - 1 /\ l \in 1 .. n - 1
    BY <1>3
  <2> QED
    BY <1>1, <2>2, <2>3
<1>5. \A k \in DOMAIN new : new[k] # homes[i]
  <2> TAKE k \in DOMAIN new
  <2>1. Old(k) # i
    BY <1>1, <1>3
  <2> HIDE DEF Old
  <2> QED
    BY <1>2, <2>1 DEF Distinct
<1> QED
  BY <1>2, <1>4, <1>5 DEF Distinct, new, n

LEMMA MovedDistinct ==
  ASSUME NEW homes, Distinct(homes), NEW i \in DOMAIN homes, NEW k \in DOMAIN homes
  PROVE  Distinct(Moved(homes, i, k))
<1> DEFINE left == RemoveAt(homes, i)
<1>1. homes \in Seq(Homes) /\ Len(homes) \in Nat /\ DOMAIN homes = 1 .. Len(homes)
  BY LenProperties DEF Distinct
<1>2. /\ Distinct(left) /\ Len(left) = Len(homes) - 1
      /\ \A l \in DOMAIN left : left[l] # homes[i]
  BY RemovedDistinct
<1>3. k \in 1 .. Len(left) + 1
  BY <1>1, <1>2
<1>4. homes[i] \in Homes
  BY <1>1, ElementOfSeq
<1> HIDE DEF left
<1>5. Distinct(InsertAt(left, k, homes[i]))
  BY <1>2, <1>3, <1>4, InsertedDistinct
<1> QED
  BY <1>5 DEF Moved, left

(* Events come of rows of the time before now. *)

Visit == [home : Homes, at : 0 .. MaxHalfLives, id : {0}, sentiment : Sentiments,
          readiness : Readiness, pricing : PricingSignals]
Opinion == [home : Homes, at : 0 .. MaxHalfLives, id : {0}, lean : Leans, misfit : BOOLEAN]

EventsOf(row, events) ==
  IsFiniteSet(events) /\ \A e \in events : e.home = row.home /\ e.at = row.at /\ e.strength \in Nat

LEMMA TourTells ==
  ASSUME NEW t
  PROVE  EventsOf(t, TourEvents(t))
<1> DEFINE a == FeaturesOf(t.home)
           b == {PriceBand(t.home)}
           one == {Event(t, TRUE, 19, a)}
           two == {Event(t, FALSE, 19, a)}
           three == {Event(t, TRUE, 13, a)}
           four == {Event(t, FALSE, 14, a)}
           five == {Event(t, TRUE, 9, b)}
           six == {Event(t, FALSE, 9, b)}
           low == (one \cup two) \cup three
           high == (four \cup five) \cup six
<1>1. IsFiniteSet(one) /\ IsFiniteSet(two) /\ IsFiniteSet(three)
  BY FS_Singleton
<1>2. IsFiniteSet(four) /\ IsFiniteSet(five) /\ IsFiniteSet(six)
  BY FS_Singleton
<1>3. \A e \in low \cup high : e.home = t.home /\ e.at = t.at /\ e.strength \in Nat
  BY DEF Event
<1> DEFINE said == {e \in {<<"positive", TRUE, 19>>, <<"negative", FALSE, 19>>} : e[1] = t.sentiment}
                    \cup {e \in {<<"ready", TRUE, 13>>, <<"not_ready", FALSE, 14>>} : e[1] = t.readiness}
           priced == {e \in {<<"below", TRUE, 9>>, <<"above", FALSE, 9>>} : e[1] = t.pricing}
<1>9. \A e \in said : Event(t, e[2], e[3], a) \in low \cup high
  <2> HIDE DEF a
  <2> TAKE e \in said
  <2>1. \/ e[2] = TRUE /\ e[3] = 19
        \/ e[2] = FALSE /\ e[3] = 19
        \/ e[2] = TRUE /\ e[3] = 13
        \/ e[2] = FALSE /\ e[3] = 14
    <3>1. CASE e = <<"positive", TRUE, 19>>
      BY <3>1
    <3>2. CASE e = <<"negative", FALSE, 19>>
      BY <3>2
    <3>3. CASE e = <<"ready", TRUE, 13>>
      BY <3>3
    <3>4. CASE e = <<"not_ready", FALSE, 14>>
      BY <3>4
    <3> QED
      BY <3>1, <3>2, <3>3, <3>4
  <2> QED
    BY <2>1
<1>10. \A e \in priced : Event(t, e[2], e[3], b) \in low \cup high
  <2> HIDE DEF b
  <2> TAKE e \in priced
  <2>1. (e[2] = TRUE /\ e[3] = 9) \/ (e[2] = FALSE /\ e[3] = 9)
    <3>1. CASE e = <<"below", TRUE, 9>>
      BY <3>1
    <3>2. CASE e = <<"above", FALSE, 9>>
      BY <3>2
    <3> QED
      BY <3>1, <3>2
  <2> QED
    BY <2>1
<1>11. TourEvents(t) = {Event(t, e[2], e[3], a) : e \in said} \cup {Event(t, e[2], e[3], b) : e \in priced}
  BY Zenon DEF TourEvents
<1>4. TourEvents(t) \subseteq low \cup high
  <2> HIDE DEF said, priced, low, high
  <2> QED
    BY <1>9, <1>10, <1>11
<1> HIDE DEF one, two, three, four, five, six
<1>5. IsFiniteSet(one \cup two) /\ IsFiniteSet(four \cup five)
  BY <1>1, <1>2, FS_Union
<1>6. IsFiniteSet(low) /\ IsFiniteSet(high)
  BY <1>1, <1>2, <1>5, FS_Union
<1> HIDE DEF low, high
<1>7. IsFiniteSet(low \cup high)
  BY <1>6, FS_Union
<1>8. IsFiniteSet(TourEvents(t))
  <2>1. TourEvents(t) \in SUBSET (low \cup high)
    BY <1>4
  <2> QED
    BY <1>7, <2>1, FS_Subset
<1> QED
  BY <1>3, <1>4, <1>8 DEF EventsOf

LEMMA OpinionTells ==
  ASSUME NEW o
  PROVE  EventsOf(o, OpinionEvents(o))
<1>1. CASE o.lean = "even"
  BY <1>1, FS_EmptySet DEF OpinionEvents, EventsOf
<1>2. CASE o.lean # "even"
  <2> DEFINE s == IF o.misfit THEN 14 ELSE IF o.lean = "negative" THEN 11 ELSE 8
             e == Event(o, o.lean = "positive", s, FeaturesOf(o.home))
  <2>1. OpinionEvents(o) = {e}
    BY <1>2 DEF OpinionEvents
  <2>2. s \in Nat
    OBVIOUS
  <2>3. e.home = o.home /\ e.at = o.at /\ e.strength = s
    BY DEF Event
  <2> HIDE DEF e, s
  <2> QED
    BY <2>1, <2>2, <2>3, FS_Singleton DEF EventsOf
<1> QED
  BY <1>1, <1>2

\* The events of several rows.
LEMMA RowsTell ==
  ASSUME NEW I, IsFiniteSet(I), NEW f, NEW row,
         \A i \in I : EventsOf(row[i], f[i]) /\ row[i].home \in Homes /\ row[i].at \in 0 .. halfLives
  PROVE  Past(UNION {f[i] : i \in I})
<1> DEFINE F == {f[i] : i \in I}
<1>1. IsFiniteSet(F)
  BY FiniteImage
<1>2. \A T \in F : IsFiniteSet(T)
  BY DEF EventsOf
<1>3. \A e \in UNION F : e.home \in Homes /\ e.at \in 0 .. halfLives /\ e.strength \in Nat
  BY DEF EventsOf
<1> HIDE DEF F
<1>4. IsFiniteSet(UNION F)
  BY <1>1, <1>2, FS_UNION
<1> QED
  BY <1>3, <1>4 DEF Past, F

RowsPast ==
  /\ \A e \in saved : e.at <= halfLives
  /\ \A i \in DOMAIN tours : tours[i].at <= halfLives
  /\ \A i \in DOMAIN opinions : opinions[i].at <= halfLives

RowsTyped ==
  /\ halfLives \in 0 .. MaxHalfLives
  /\ InPlace(saved) /\ tours \in Seq(Visit) /\ opinions \in Seq(Opinion)

LEMMA EventsArePast ==
  ASSUME RowsTyped, RowsPast
  PROVE  Past(AllEvents)
<1>0. halfLives \in Nat
  BY DEF RowsTyped
<1> DEFINE ofSaved == {Event([home |-> e.home, at |-> e.at, id |-> 0], TRUE, 11, FeaturesOf(e.home)) : e \in saved}
           ofTours == UNION {TourEvents([tours[i] EXCEPT !.id = i]) : i \in DOMAIN tours}
           ofOpinions == UNION {OpinionEvents([opinions[i] EXCEPT !.id = 100 + i]) : i \in DOMAIN opinions}
<1>1. Past(ofSaved)
  <2> DEFINE f == [e \in saved |-> Event([home |-> e.home, at |-> e.at, id |-> 0], TRUE, 11, FeaturesOf(e.home))]
  <2>1. ofSaved = {f[e] : e \in saved}
    OBVIOUS
  <2>2. \A e \in saved : f[e].home \in Homes /\ f[e].at \in 0 .. halfLives /\ f[e].strength \in Nat
    <3> TAKE e \in saved
    <3>1. e \in SavedEntry /\ e.at <= halfLives
      BY DEF RowsTyped, RowsPast, InPlace
    <3>2. e.home \in Homes /\ e.at \in 0 .. halfLives
      BY <1>0, <3>1 DEF SavedEntry
    <3> QED
      BY <3>2 DEF Event
  <2>3. IsFiniteSet(saved)
    BY DEF RowsTyped, InPlace
  <2> HIDE DEF f, ofSaved
  <2>4. IsFiniteSet({f[e] : e \in saved})
    BY <2>3, FiniteImage
  <2> QED
    BY <2>1, <2>2, <2>4 DEF Past
<1>2. Past(ofTours)
  <2> DEFINE row == [i \in DOMAIN tours |-> [tours[i] EXCEPT !.id = i]]
             f == [i \in DOMAIN tours |-> TourEvents(row[i])]
  <2>1. ofTours = UNION {f[i] : i \in DOMAIN tours}
    OBVIOUS
  <2>2. IsFiniteSet(DOMAIN tours)
    <3>1. Len(tours) \in Nat /\ DOMAIN tours = 1 .. Len(tours)
      BY LenProperties DEF RowsTyped
    <3> QED
      BY <3>1, FS_Interval
  <2>3. \A i \in DOMAIN tours : row[i].home \in Homes /\ row[i].at \in 0 .. halfLives
    <3> TAKE i \in DOMAIN tours
    <3>1. tours[i] \in Visit /\ tours[i].at <= halfLives
      BY ElementOfSeq, LenProperties DEF RowsTyped, RowsPast
    <3> QED
      BY <1>0, <3>1 DEF Visit
  <2> HIDE DEF row
  <2>4. \A i \in DOMAIN tours : EventsOf(row[i], f[i])
    BY TourTells
  <2> HIDE DEF f, ofTours
  <2>5. Past(UNION {f[i] : i \in DOMAIN tours})
    <3> DEFINE I == DOMAIN tours
    <3>1. IsFiniteSet(I) /\ \A i \in I : EventsOf(row[i], f[i]) /\ row[i].home \in Homes /\ row[i].at \in 0 .. halfLives
      BY <2>2, <2>3, <2>4
    <3> HIDE DEF I
    <3>2. Past(UNION {f[i] : i \in I})
      BY ONLY <3>1, RowsTell
    <3> QED
      BY <3>2 DEF I
  <2> QED
    BY <2>1, <2>5
<1>3. Past(ofOpinions)
  <2> DEFINE row == [i \in DOMAIN opinions |-> [opinions[i] EXCEPT !.id = 100 + i]]
             f == [i \in DOMAIN opinions |-> OpinionEvents(row[i])]
  <2>1. ofOpinions = UNION {f[i] : i \in DOMAIN opinions}
    OBVIOUS
  <2>2. IsFiniteSet(DOMAIN opinions)
    <3>1. Len(opinions) \in Nat /\ DOMAIN opinions = 1 .. Len(opinions)
      BY LenProperties DEF RowsTyped
    <3> QED
      BY <3>1, FS_Interval
  <2>3. \A i \in DOMAIN opinions : row[i].home \in Homes /\ row[i].at \in 0 .. halfLives
    <3> TAKE i \in DOMAIN opinions
    <3>1. opinions[i] \in Opinion /\ opinions[i].at <= halfLives
      BY ElementOfSeq, LenProperties DEF RowsTyped, RowsPast
    <3> QED
      BY <1>0, <3>1 DEF Opinion
  <2> HIDE DEF row
  <2>4. \A i \in DOMAIN opinions : EventsOf(row[i], f[i])
    BY OpinionTells
  <2> HIDE DEF f, ofOpinions
  <2>5. Past(UNION {f[i] : i \in DOMAIN opinions})
    <3> DEFINE I == DOMAIN opinions
    <3>1. IsFiniteSet(I) /\ \A i \in I : EventsOf(row[i], f[i]) /\ row[i].home \in Homes /\ row[i].at \in 0 .. halfLives
      BY <2>2, <2>3, <2>4
    <3> HIDE DEF I
    <3>2. Past(UNION {f[i] : i \in I})
      BY ONLY <3>1, RowsTell
    <3> QED
      BY <3>2 DEF I
  <2> QED
    BY <2>1, <2>5
<1>4. AllEvents = (ofSaved \cup ofTours) \cup ofOpinions
  BY Zenon DEF AllEvents, Events
<1> HIDE DEF ofSaved, ofTours, ofOpinions
<1>5. IsFiniteSet(ofSaved \cup ofTours)
  BY <1>1, <1>2, FS_Union DEF Past
<1>6. IsFiniteSet((ofSaved \cup ofTours) \cup ofOpinions)
  BY <1>3, <1>5, FS_Union DEF Past
<1> QED
  BY <1>1, <1>2, <1>3, <1>4, <1>6 DEF Past

KeepsUp ==
  IF memory = NoMemory THEN saved = {} /\ tours = <<>> /\ opinions = <<>> /\ profile = {}
  ELSE memory = Snapshot(AllEvents, IF profile = {} THEN memory.wishes ELSE UNION profile, memory.at)

BuyerIInv == RowsTyped /\ RowsPast /\ Distinct(compared) /\ KeepsUp

LEMMA RebuiltKeepsUp ==
  ASSUME NEW now \in Nat, memory' = Snapshot(Events(saved', tours', opinions'), UNION (profile'), now)
  PROVE  KeepsUp'
<1> DEFINE m == memory'
<1>1. m.at = now /\ m.wishes = UNION (profile')
  BY DEF Snapshot
<1>2. m # NoMemory
  <2>1. NoMemory.at = -1
    BY DEF NoMemory
  <2> QED
    BY <1>1, <2>1
<1>3. m = Snapshot(AllEvents', IF profile' = {} THEN m.wishes ELSE UNION (profile'), m.at)
  BY <1>1 DEF AllEvents
<1> QED
  BY <1>2, <1>3 DEF KeepsUp

LEMMA RestKeepsUp ==
  ASSUME KeepsUp, AllEvents' = AllEvents, UNCHANGED memory,
         profile' = profile \/ profile' = {},
         saved = {} => saved' = {}, UNCHANGED <<tours, opinions>>
  PROVE  KeepsUp'
<1>1. CASE memory = NoMemory
  BY <1>1 DEF KeepsUp, NoMemory
<1>2. CASE memory # NoMemory
  <2>1. memory = Snapshot(AllEvents, IF profile = {} THEN memory.wishes ELSE UNION profile, memory.at)
    BY <1>2 DEF KeepsUp
  <2>2. memory = Snapshot(AllEvents, memory.wishes, memory.at)
    <3>1. \A w : Snapshot(AllEvents, w, memory.at).wishes = w
      BY DEF Snapshot
    <3>2. PICK w : w = IF profile = {} THEN memory.wishes ELSE UNION profile
      OBVIOUS
    <3>3. memory = Snapshot(AllEvents, w, memory.at)
      BY <2>1, <3>2
    <3>4. memory.wishes = w
      BY <3>1, <3>3
    <3> QED
      BY <3>3, <3>4
  <2>3. CASE profile' = profile
    BY <1>2, <2>1, <2>3 DEF KeepsUp
  <2>4. CASE profile' = {}
    BY <1>2, <2>2, <2>4 DEF KeepsUp
  <2> QED
    BY <2>3, <2>4
<1> QED
  BY <1>1, <1>2

LEMMA WatchlistAdds ==
  ASSUME BuyerIInv, NEW home \in Homes, AddToWatchlist(home)
  PROVE  BuyerIInv'
<1> DEFINE row == [home |-> home, position |-> Cardinality(saved), at |-> halfLives]
<1>1. /\ saved' = saved \cup {row} /\ UNCHANGED <<tours, opinions, profile, halfLives, compared>>
      /\ memory' = Snapshot(Events(saved \cup {row}, tours, opinions), UNION profile, halfLives)
      /\ home \notin HomesOf(saved)
  BY DEF AddToWatchlist, Rebuild, FactsRest, HomesOf
<1>2. halfLives \in 0 .. MaxHalfLives /\ halfLives \in Nat /\ InPlace(saved) /\ tours \in Seq(Visit) /\ opinions \in Seq(Opinion)
  BY DEF BuyerIInv, RowsTyped
<1>3. row \in SavedEntry
  BY <1>2, InPlaceSizes DEF SavedEntry
<1>4. InPlace(saved')
  <2>1. row.position = Cardinality(saved) /\ row.home = home
    OBVIOUS
  <2> HIDE DEF row
  <2> QED
    BY <1>1, <1>2, <1>3, <2>1, AddedInPlace
<1>5. RowsPast'
  <2>1. row.at <= halfLives
    BY <1>2
  <2> HIDE DEF row
  <2> QED
    BY <1>1, <2>1 DEF BuyerIInv, RowsPast
<1>6. KeepsUp'
  <2> HIDE DEF row
  <2> QED
    BY <1>1, <1>2, RebuiltKeepsUp
<1> HIDE DEF row
<1>7. RowsTyped' /\ Distinct(compared)'
  BY <1>1, <1>2, <1>4 DEF BuyerIInv, RowsTyped, Distinct
<1> QED
  BY <1>5, <1>6, <1>7 DEF BuyerIInv

LEMMA WatchlistRemoves ==
  ASSUME BuyerIInv, NEW home \in Homes, RemoveFromWatchlist(home)
  PROVE  BuyerIInv'
<1> DEFINE left == Renumbered({e \in saved : e.home # home})
<1>1. /\ saved' = left /\ UNCHANGED <<tours, opinions, profile, halfLives, compared>>
      /\ memory' = Snapshot(Events(left, tours, opinions), UNION profile, halfLives)
  BY DEF RemoveFromWatchlist, Rebuild, FactsRest
<1>2. halfLives \in 0 .. MaxHalfLives /\ halfLives \in Nat /\ InPlace(saved) /\ tours \in Seq(Visit) /\ opinions \in Seq(Opinion)
  BY DEF BuyerIInv, RowsTyped
<1>3. PICK gone \in saved : gone.home = home
  BY DEF RemoveFromWatchlist
<1>4. {e \in saved : e.home # home} = saved \ {gone}
  BY <1>2, <1>3 DEF InPlace
<1>5. InPlace(saved')
  <2>1. InPlace(Renumbered(saved \ {gone}))
    BY <1>2, RemovedInPlace
  <2> QED
    BY <1>1, <1>4, <2>1
<1>6. \A e \in saved' : e.at <= halfLives
  <2> TAKE e \in saved'
  <2>1. PICK o \in saved : e = [o EXCEPT !.position = Cardinality({q \in saved \ {gone} : q.position < o.position})]
    BY <1>1, <1>4 DEF Renumbered
  <2>2. e.at = o.at
    <3>1. o \in SavedEntry
      BY <1>2 DEF InPlace
    <3> QED
      BY <2>1, <3>1 DEF SavedEntry
  <2> QED
    BY <2>2 DEF BuyerIInv, RowsPast
<1> HIDE DEF left
<1>7. RowsPast'
  BY <1>1, <1>6 DEF BuyerIInv, RowsPast
<1>8. KeepsUp'
  BY <1>1, <1>2, RebuiltKeepsUp
<1>9. RowsTyped' /\ Distinct(compared)'
  BY <1>1, <1>2, <1>5 DEF BuyerIInv, RowsTyped, Distinct
<1> QED
  BY <1>7, <1>8, <1>9 DEF BuyerIInv

LEMMA OrderIs ==
  ASSUME NEW order \in SetToAllKPermutations(Homes)
  PROVE  \E n \in Nat : /\ DOMAIN order = 1 .. n
                        /\ \A i, k \in 1 .. n : order[i] = order[k] => i = k
<1>1. PICK S \in SUBSET Homes : order \in SetToSeqs(S)
  BY DEF SetToAllKPermutations
<1>2. Cardinality(S) \in Nat
  BY FS_Subset, FS_CardinalityType, MemoryAssumption
<1>3. /\ DOMAIN order = 1 .. Cardinality(S)
      /\ \A i, k \in 1 .. Cardinality(S) : order[i] = order[k] => i = k
  BY <1>1 DEF SetToSeqs
<1> QED
  BY <1>2, <1>3

LEMMA WatchlistReorders ==
  ASSUME BuyerIInv, NEW order \in SetToAllKPermutations(Homes), ReorderWatchlist(order)
  PROVE  BuyerIInv'
<1> DEFINE Place(e) == (CHOOSE i \in DOMAIN order : order[i] = e.home) - 1
           moved == {[e EXCEPT !.position = Place(e)] : e \in saved}
<1>1. saved' = moved /\ UNCHANGED <<tours, opinions, profile, halfLives, compared, memory>>
  BY DEF ReorderWatchlist, FactsRest
<1>2. halfLives \in 0 .. MaxHalfLives /\ InPlace(saved) /\ tours \in Seq(Visit) /\ opinions \in Seq(Opinion)
  BY DEF BuyerIInv, RowsTyped
<1>3. PICK n \in Nat : /\ DOMAIN order = 1 .. n
                       /\ \A i, k \in 1 .. n : order[i] = order[k] => i = k
  BY OrderIs
<1>4. ToSet(order) = HomesOf(saved)
  BY DEF ReorderWatchlist, IsOrder, HomesOf
<1>5. InPlace(moved)
  <2>1. InPlace(Reordered(saved, order))
    BY <1>2, <1>3, <1>4, ReorderedInPlace
  <2> QED
    BY <2>1 DEF Reordered
<1> HIDE DEF Place
<1>6. \A e \in saved : LET x == [e EXCEPT !.position = Place(e)] IN x.home = e.home /\ x.at = e.at
  <2> TAKE e \in saved
  <2>1. e \in SavedEntry
    BY <1>2 DEF InPlace
  <2> QED
    BY <2>1 DEF SavedEntry
<1>7. RowsPast'
  <2>1. \A x \in moved : x.at <= halfLives
    <3>1. \A e \in saved : e.at <= halfLives
      BY DEF BuyerIInv, RowsPast
    <3> QED
      BY ONLY <1>6, <3>1
  <2> HIDE DEF moved
  <2> QED
    BY <1>1, <2>1, ZenonT(60) DEF BuyerIInv, RowsPast
<1>8. AllEvents' = AllEvents
  <2> DEFINE Of(e) == Event([home |-> e.home, at |-> e.at, id |-> 0], TRUE, 11, FeaturesOf(e.home))
             x(e) == [e EXCEPT !.position = Place(e)]
  <2>1. \A e \in saved : Of(x(e)) = Of(e)
    BY <1>6
  <2> HIDE DEF Of
  <2>2. {Of(e) : e \in moved} = {Of(x(e)) : e \in saved}
    OBVIOUS
  <2>3. {Of(x(e)) : e \in saved} = {Of(e) : e \in saved}
    <3> HIDE DEF x
    <3> QED
      BY <2>1
  <2>4. {Of(e) : e \in moved} = {Of(e) : e \in saved}
    BY <2>2, <2>3
  <2> HIDE DEF moved
  <2>5. {Of(e) : e \in saved'} = {Of(e) : e \in saved}
    BY <1>1, <2>4
  <2> DEFINE rest == (UNION {TourEvents([tours[i] EXCEPT !.id = i]) : i \in DOMAIN tours})
             last == (UNION {OpinionEvents([opinions[i] EXCEPT !.id = 100 + i]) : i \in DOMAIN opinions})
  <2>6. AllEvents = ({Of(e) : e \in saved} \cup rest) \cup last
    BY Zenon DEF AllEvents, Events, Of
  <2>7. AllEvents' = ({Of(e) : e \in saved'} \cup rest) \cup last
    <3>1. AllEvents' = Events(saved', tours, opinions)
      BY <1>1 DEF AllEvents
    <3> QED
      BY <3>1, Zenon DEF Events, Of
  <2> HIDE DEF rest, last
  <2> QED
    BY <2>5, <2>6, <2>7
<1>9. saved = {} => moved = {}
  OBVIOUS
<1> HIDE DEF moved
<1>10. KeepsUp'
  BY <1>1, <1>8, <1>9, RestKeepsUp DEF BuyerIInv
<1>11. RowsTyped' /\ Distinct(compared)'
  BY <1>1, <1>2, <1>5 DEF BuyerIInv, RowsTyped, Distinct
<1> QED
  BY <1>7, <1>10, <1>11 DEF BuyerIInv

LEMMA VisitsAreObserved ==
  ASSUME BuyerIInv, NEW home \in Homes, NEW sentiment \in Sentiments, NEW readiness \in Readiness,
         NEW price \in PricingSignals, SubmitPostTourObservation(home, sentiment, readiness, price)
  PROVE  BuyerIInv'
<1> DEFINE row == [home |-> home, at |-> halfLives, id |-> 0, sentiment |-> sentiment,
                   readiness |-> readiness, pricing |-> price]
           more == Append(tours, row)
<1>1. /\ tours' = more /\ UNCHANGED <<saved, opinions, profile, halfLives, compared>>
      /\ memory' = Snapshot(Events(saved, more, opinions), UNION profile, halfLives)
  BY DEF SubmitPostTourObservation, Rebuild, FactsRest
<1>2. halfLives \in 0 .. MaxHalfLives /\ halfLives \in Nat /\ InPlace(saved) /\ tours \in Seq(Visit) /\ opinions \in Seq(Opinion)
  BY DEF BuyerIInv, RowsTyped
<1>3. row \in Visit /\ row.at = halfLives
  BY <1>2 DEF Visit
<1> HIDE DEF row
<1>4. /\ more \in Seq(Visit) /\ DOMAIN tours = 1 .. Len(tours) /\ Len(tours) \in Nat
      /\ Len(more) = Len(tours) + 1 /\ DOMAIN more = 1 .. Len(tours) + 1
      /\ \A i \in 1 .. Len(tours) : more[i] = tours[i]
      /\ more[Len(tours) + 1] = row
  BY <1>2, <1>3, AppendProperties, LenProperties
<1> HIDE DEF more
<1>5. \A i \in DOMAIN more : more[i].at <= halfLives
  <2> TAKE i \in DOMAIN more
  <2>1. CASE i \in DOMAIN tours
    BY <1>4, <2>1 DEF BuyerIInv, RowsPast
  <2>2. CASE i = Len(tours) + 1
    BY <1>2, <1>3, <1>4, <2>2
  <2> QED
    BY <1>4, <2>1, <2>2
<1>6. RowsPast'
  BY <1>1, <1>5 DEF BuyerIInv, RowsPast
<1>7. KeepsUp'
  BY <1>1, <1>2, RebuiltKeepsUp
<1>8. RowsTyped' /\ Distinct(compared)'
  BY <1>1, <1>2, <1>4 DEF BuyerIInv, RowsTyped, Distinct
<1> QED
  BY <1>6, <1>7, <1>8 DEF BuyerIInv

LEMMA OpinionsAreTaken ==
  ASSUME BuyerIInv, NEW home \in Homes, NEW lean \in Leans, NEW misfit \in BOOLEAN,
         SubmitFeedback(home, lean, misfit)
  PROVE  BuyerIInv'
<1> DEFINE row == [home |-> home, at |-> halfLives, id |-> 0, lean |-> lean, misfit |-> misfit]
           more == Append(opinions, row)
<1>1. /\ opinions' = more /\ UNCHANGED <<saved, tours, profile, halfLives, compared>>
      /\ memory' = Snapshot(Events(saved, tours, more), UNION profile, halfLives)
  BY DEF SubmitFeedback, Rebuild, FactsRest
<1>2. halfLives \in 0 .. MaxHalfLives /\ halfLives \in Nat /\ InPlace(saved) /\ tours \in Seq(Visit) /\ opinions \in Seq(Opinion)
  BY DEF BuyerIInv, RowsTyped
<1>3. row \in Opinion /\ row.at = halfLives
  BY <1>2 DEF Opinion
<1> HIDE DEF row
<1>4. /\ more \in Seq(Opinion) /\ DOMAIN opinions = 1 .. Len(opinions) /\ Len(opinions) \in Nat
      /\ Len(more) = Len(opinions) + 1 /\ DOMAIN more = 1 .. Len(opinions) + 1
      /\ \A i \in 1 .. Len(opinions) : more[i] = opinions[i]
      /\ more[Len(opinions) + 1] = row
  BY <1>2, <1>3, AppendProperties, LenProperties
<1> HIDE DEF more
<1>5. \A i \in DOMAIN more : more[i].at <= halfLives
  <2> TAKE i \in DOMAIN more
  <2>1. CASE i \in DOMAIN opinions
    BY <1>4, <2>1 DEF BuyerIInv, RowsPast
  <2>2. CASE i = Len(opinions) + 1
    BY <1>2, <1>3, <1>4, <2>2
  <2> QED
    BY <1>4, <2>1, <2>2
<1>6. RowsPast'
  BY <1>1, <1>5 DEF BuyerIInv, RowsPast
<1>7. KeepsUp'
  BY <1>1, <1>2, RebuiltKeepsUp
<1>8. RowsTyped' /\ Distinct(compared)'
  BY <1>1, <1>2, <1>4 DEF BuyerIInv, RowsTyped, Distinct
<1> QED
  BY <1>6, <1>7, <1>8 DEF BuyerIInv

\* Nothing of it moves but the wishes, the account and the memory.
LEMMA RowsStay ==
  ASSUME BuyerIInv, UNCHANGED <<saved, tours, opinions, compared>>,
         halfLives' \in 0 .. MaxHalfLives, halfLives <= halfLives'
  PROVE  RowsTyped' /\ RowsPast' /\ Distinct(compared)' /\ AllEvents' = AllEvents
<1>1. halfLives \in 0 .. MaxHalfLives /\ InPlace(saved) /\ tours \in Seq(Visit) /\ opinions \in Seq(Opinion)
  BY DEF BuyerIInv, RowsTyped
<1>2. \A e \in saved : e.at \in Int
  BY <1>1 DEF InPlace, SavedEntry
<1>3. \A i \in DOMAIN tours : tours[i].at \in Int
  <2> TAKE i \in DOMAIN tours
  <2>1. tours[i] \in Visit
    BY <1>1, ElementOfSeq, LenProperties
  <2> QED
    BY <2>1 DEF Visit
<1>4. \A i \in DOMAIN opinions : opinions[i].at \in Int
  <2> TAKE i \in DOMAIN opinions
  <2>1. opinions[i] \in Opinion
    BY <1>1, ElementOfSeq, LenProperties
  <2> QED
    BY <2>1 DEF Opinion
<1>5. RowsPast'
  <2>1. \A n \in Int : n <= halfLives => n <= halfLives'
    BY <1>1
  <2> QED
    BY <1>2, <1>3, <1>4, <2>1 DEF BuyerIInv, RowsPast
<1>6. RowsTyped' /\ Distinct(compared)'
  BY <1>1 DEF BuyerIInv, RowsTyped, Distinct
<1>7. AllEvents' = AllEvents
  BY DEF AllEvents
<1> QED
  BY <1>5, <1>6, <1>7

LEMMA WishesAreKept ==
  ASSUME BuyerIInv, NEW wished, UpsertProfile(wished)
  PROVE  BuyerIInv'
<1>1. /\ profile' = {wished} /\ UNCHANGED <<saved, tours, opinions, halfLives, compared>>
      /\ IF profile' # profile THEN memory' = Snapshot(Events(saved, tours, opinions), wished, halfLives)
         ELSE UNCHANGED memory
  BY DEF UpsertProfile, Rebuild, FactsRest
<1>2. halfLives \in 0 .. MaxHalfLives /\ halfLives \in Nat
  BY DEF BuyerIInv, RowsTyped
<1>3. RowsTyped' /\ RowsPast' /\ Distinct(compared)' /\ AllEvents' = AllEvents
  BY <1>1, <1>2, RowsStay
<1>4. KeepsUp'
  <2>1. CASE profile' = profile
    <3>1. UNCHANGED memory
      BY <1>1, <2>1
    <3> QED
      BY <1>1, <1>3, <2>1, <3>1, RestKeepsUp DEF BuyerIInv
  <2>2. CASE profile' # profile
    <3>1. UNION {wished} = wished
      OBVIOUS
    <3>2. memory' = Snapshot(Events(saved', tours', opinions'), UNION (profile'), halfLives)
      BY <1>1, <2>2, <3>1
    <3> QED
      BY <1>2, <3>2, RebuiltKeepsUp
  <2> QED
    BY <2>1, <2>2
<1> QED
  BY <1>3, <1>4 DEF BuyerIInv

LEMMA OthersKeepMemory ==
  ASSUME BuyerIInv, \/ DeleteAccount \/ HalfLifePasses
  PROVE  BuyerIInv'
<1>1. halfLives \in 0 .. MaxHalfLives /\ halfLives \in Nat
  BY DEF BuyerIInv, RowsTyped
<1>2. /\ UNCHANGED <<saved, tours, opinions, compared, memory>>
      /\ profile' = profile \/ profile' = {}
      /\ halfLives' \in 0 .. MaxHalfLives /\ halfLives <= halfLives'
  BY <1>1, MemoryAssumption DEF DeleteAccount, HalfLifePasses
<1>3. RowsTyped' /\ RowsPast' /\ Distinct(compared)' /\ AllEvents' = AllEvents
  BY <1>2, RowsStay
<1>4. KeepsUp'
  BY <1>2, <1>3, RestKeepsUp DEF BuyerIInv
<1> QED
  BY <1>3, <1>4 DEF BuyerIInv

LEMMA ComparisonStep ==
  ASSUME BuyerIInv, ComparisonNext
  PROVE  BuyerIInv'
<1> USE DEF BuyerIInv
<1>1. Len(compared) \in Nat /\ DOMAIN compared = 1 .. Len(compared) /\ Distinct(compared) /\ compared \in Seq(Homes)
  BY LenProperties DEF Distinct
<1>2. Distinct(compared')
  <2>1. ASSUME NEW home \in Homes, NEW i \in 0 .. MaxCompared, AddToComparison(home, i)
        PROVE  Distinct(compared')
    <3>1. /\ compared' = InsertAt(compared, i + 1, home)
          /\ i + 1 \in 1 .. Len(compared) + 1
      BY <1>1, <2>1 DEF AddToComparison, MayTake
    <3>2. \A k \in DOMAIN compared : compared[k] # home
      BY <2>1 DEF AddToComparison, MayTake, ToSet
    <3> QED
      BY <1>1, <3>1, <3>2, InsertedDistinct
  <2>2. ASSUME NEW home \in Homes, RemoveFromComparison(home)
        PROVE  Distinct(compared')
    BY <1>1, <2>2, RemovedDistinct DEF RemoveFromComparison
  <2>3. ASSUME NEW from \in 1 .. MaxCompared, NEW to \in 1 .. MaxCompared, ReorderComparison(from, to)
        PROVE  Distinct(compared')
    BY <1>1, <2>3, MovedDistinct DEF ReorderComparison
  <2>4. CASE ResetComparison
    <3>1. compared' = <<>>
      BY <2>4 DEF ResetComparison
    <3> QED
      BY <3>1 DEF Distinct
  <2> QED
    BY <2>1, <2>2, <2>3, <2>4 DEF ComparisonNext
<1>3. UNCHANGED <<halfLives, account, profile, saved, tours, opinions, memory>>
  BY DEF ComparisonNext, ComparisonRests, AddToComparison, RemoveFromComparison, ReorderComparison, ResetComparison
<1>4. RowsTyped' /\ RowsPast' /\ KeepsUp'
  BY <1>3 DEF RowsTyped, RowsPast, KeepsUp, AllEvents
<1>5. Distinct(compared)'
  BY <1>2 DEF Distinct
<1> QED
  BY <1>4, <1>5

LEMMA BuyerStep ==
  ASSUME BuyerIInv, [MemoryNext \/ ComparisonNext]_memoryVars
  PROVE  BuyerIInv'
<1>1. CASE MemoryNext
  BY <1>1, WatchlistAdds, WatchlistRemoves, WatchlistReorders, VisitsAreObserved, OpinionsAreTaken,
     WishesAreKept, OthersKeepMemory DEF MemoryNext
<1>2. CASE UNCHANGED memoryVars
  BY <1>2 DEF memoryVars, BuyerIInv, RowsTyped, RowsPast, KeepsUp, AllEvents, Distinct
<1> QED
  BY <1>1, <1>2, ComparisonStep

LEMMA BuyerImplied == BuyerIInv => MemorySound
<1> SUFFICES ASSUME BuyerIInv PROVE MemorySound
  OBVIOUS
<1>1. Past(AllEvents) /\ halfLives \in 0 .. MaxHalfLives /\ InPlace(saved)
  BY EventsArePast DEF BuyerIInv, RowsTyped
<1>2. TimeOnlyFades /\ ReasonsMatch
  BY <1>1, OldSignalsFade
<1>3. HomesIn(AllEvents) \subseteq Homes
  BY <1>1 DEF Past, HomesIn
<1>4. MemoryKeepsUp
  <2>1. CASE memory = NoMemory
    <3>1. saved = {} /\ tours = <<>> /\ opinions = <<>> /\ profile = {}
      BY <2>1 DEF BuyerIInv, KeepsUp
    <3>2. Facts = 0
      BY <3>1, FS_EmptySet DEF Facts
    <3> QED
      BY <2>1, <3>1, <3>2 DEF MemoryKeepsUp
  <2>2. CASE memory # NoMemory
    BY <2>2 DEF BuyerIInv, KeepsUp, MemoryKeepsUp, AllEvents
  <2> QED
    BY <2>1, <2>2
<1>5. InfluenceNeedsTwoHomes
  <2>1. CASE memory = NoMemory
    <3>1. memory.state # "durable" /\ memory.signals = {}
      BY <2>1 DEF NoMemory
    <3>2. Visible(memory.signals) = {}
      BY <3>1 DEF Visible
    <3>3. Cardinality(Visible(memory.signals)) = 0
      BY <3>2, FS_EmptySet
    <3> QED
      BY <3>1, <3>3 DEF InfluenceNeedsTwoHomes, Influences
  <2>2. CASE memory # NoMemory
    <3>1. PICK wished, now : memory = Snapshot(AllEvents, wished, now)
      BY <2>2 DEF BuyerIInv, KeepsUp
    <3>2. Influences(memory) => Cardinality(HomesIn(AllEvents)) >= 2
      BY <1>3, <3>1, ShownNeedTwo
    <3> QED
      BY <3>2 DEF InfluenceNeedsTwoHomes, AllEvents
  <2> QED
    BY <2>1, <2>2
<1>6. ListsInOrder
  <2>1. {e.position : e \in saved} = 0 .. Cardinality(saved) - 1
    BY <1>1 DEF InPlace
  <2>2. Cardinality({e.home : e \in saved}) = Cardinality(saved)
    BY <1>1, InPlaceSizes DEF HomesOf
  <2>3. Cardinality(ToSet(compared)) = Len(compared)
    BY DistinctLen DEF BuyerIInv, Distinct
  <2> QED
    BY <2>1, <2>2, <2>3 DEF ListsInOrder
<1> QED
  BY <1>2, <1>4, <1>5, <1>6 DEF MemorySound

BuyerSpec == MemoryInit /\ [][MemoryNext \/ ComparisonNext]_memoryVars

\* Whatever a buyer saves, tours, answers, asks for or has deleted, and however much time
\* passes over it: the stored memory is the one its sources make (rebuildBuyerPreferenceMemory),
\* it moves a recommendation on the word of two homes at least, time only weakens what it
\* tells, a signal is shown with the reason of its status, and the lists stay in order.
THEOREM BuyersAreRemembered == BuyerSpec => []MemorySound
<1>1. MemoryInit => BuyerIInv
  <2> SUFFICES ASSUME MemoryInit PROVE BuyerIInv
    OBVIOUS
  <2>1. saved = {} /\ tours = <<>> /\ opinions = <<>> /\ compared = <<>> /\ memory = NoMemory
        /\ profile = {} /\ halfLives = 0
    BY DEF MemoryInit
  <2>2. InPlace({})
    BY FS_EmptySet DEF InPlace
  <2>3. RowsTyped /\ RowsPast /\ Distinct(compared) /\ KeepsUp
    BY <2>1, <2>2, MemoryAssumption DEF RowsTyped, RowsPast, Distinct, KeepsUp
  <2> QED
    BY <2>3 DEF BuyerIInv
<1> QED
  BY <1>1, BuyerStep, BuyerImplied, PTL DEF BuyerSpec
-----------------------------------------------------------------------------
(***************************************************************************)
(* THE INSTANCE THAT IS CHECKED.  A part that does not move keeps what it  *)
(* has, so what holds of each alone holds of all of them.                  *)
(***************************************************************************)
LEMMA PartsKeepTheirOwn ==
  [WorkspaceNext]_workspaceVars =>
    /\ [CasesNext]_caseVars /\ [StrategyNext]_strategyVars /\ [BriefsNext]_briefVars
    /\ [DeskNext]_deskVars /\ [ShowingDeskNext]_deskOfShowings
    /\ [MemoryNext \/ ComparisonNext]_memoryVars
<1> SUFFICES ASSUME [WorkspaceNext]_workspaceVars
             PROVE  /\ [CasesNext]_caseVars /\ [StrategyNext]_strategyVars /\ [BriefsNext]_briefVars
                    /\ [DeskNext]_deskVars /\ [ShowingDeskNext]_deskOfShowings
                    /\ [MemoryNext \/ ComparisonNext]_memoryVars
  OBVIOUS
<1>1. part # "cases" \/ UNCHANGED workspaceVars => UNCHANGED caseVars
  BY DEF WorkspaceNext, OthersRest, Keep, workspaceVars
<1>2. part # "strategy" \/ UNCHANGED workspaceVars => UNCHANGED strategyVars
  BY DEF WorkspaceNext, OthersRest, Keep, workspaceVars
<1>3. part # "briefs" \/ UNCHANGED workspaceVars => UNCHANGED briefVars
  BY DEF WorkspaceNext, OthersRest, Keep, workspaceVars
<1>4. part = "cases" /\ ~UNCHANGED workspaceVars => CasesNext
  BY DEF WorkspaceNext
<1>5. part = "strategy" /\ ~UNCHANGED workspaceVars => StrategyNext
  BY DEF WorkspaceNext
<1>6. part = "briefs" /\ ~UNCHANGED workspaceVars => BriefsNext
  BY DEF WorkspaceNext
<1>7. part # "desk" \/ UNCHANGED workspaceVars => UNCHANGED deskVars
  BY DEF WorkspaceNext, OthersRest, Keep, workspaceVars
<1>8. part # "showings" \/ UNCHANGED workspaceVars => UNCHANGED deskOfShowings
  BY DEF WorkspaceNext, OthersRest, Keep, workspaceVars
<1>9. part = "desk" /\ ~UNCHANGED workspaceVars => DeskNext
  BY DEF WorkspaceNext
<1>10. part = "showings" /\ ~UNCHANGED workspaceVars => ShowingDeskNext
  BY DEF WorkspaceNext
<1>11. part \notin {"memory", "comparison"} \/ UNCHANGED workspaceVars => UNCHANGED memoryVars
  BY DEF WorkspaceNext, OthersRest, workspaceVars
<1>12. part \in {"memory", "comparison"} /\ ~UNCHANGED workspaceVars => MemoryNext \/ ComparisonNext
  BY DEF WorkspaceNext
<1> QED
  BY <1>1, <1>2, <1>3, <1>4, <1>5, <1>6, <1>7, <1>8, <1>9, <1>10, <1>11, <1>12

\* The cases, the strategies, the briefs and the advice of a workspace, of which
\* any part may move, are sound together.
THEOREM WorkspaceIsSound ==
  WorkspaceSpec => [](CasesSound /\ StrategySound /\ BriefsSound /\ AdviceSound)
<1>1. WorkspaceSpec => CasesSpec /\ StrategySpec /\ BriefsSpec
  BY PartsKeepTheirOwn, PTL DEF WorkspaceSpec, WorkspaceInit, CasesSpec, StrategySpec, BriefsSpec
<1>2. AdviceSound
  <2>1. ReadinessSound
    BY InOrder, AdviceClear DEF ReadinessSound
  <2> QED
    BY <2>1 DEF AdviceSound
<1> QED
  BY <1>1, <1>2, CasesAreSound, StrategiesAreSound, BriefsAreSound, PTL

\* The tables the staff works on and its audits (the desk of brokers and admins), and
\* what coordinators, agents and visitors are told of showings, in a workspace.
THEOREM StaffIsToldTrue == WorkspaceSpec => []StaffSeesTrue
<1>1. WorkspaceSpec => DeskSpec /\ ShowingDeskSpec
  BY PartsKeepTheirOwn, PTL DEF WorkspaceSpec, WorkspaceInit, DeskSpec, ShowingDeskSpec
<1>2. DeskSound /\ ShowingDeskSound => StaffSeesTrue
  BY DEF StaffSeesTrue
<1> QED
  BY <1>1, <1>2, DeskIsSound, ShowingDeskIsSound, PTL

\* What is remembered of a buyer (rebuildBuyerPreferenceMemory, the watchlist, the
\* comparison), in a workspace of which any other part may move.
THEOREM MemoryIsKept == WorkspaceSpec => []BuyerRemembered
<1>1. WorkspaceSpec => BuyerSpec
  BY PartsKeepTheirOwn, PTL DEF WorkspaceSpec, WorkspaceInit, BuyerSpec
<1>2. MemorySound => BuyerRemembered
  BY DEF BuyerRemembered
<1> QED
  BY <1>1, <1>2, BuyersAreRemembered, PTL
=============================================================================
