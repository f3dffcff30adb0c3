-------------------------- MODULE SettlementProofs --------------------------
(***************************************************************************)
(* The abstract payment flow releases funds once.                          *)
(***************************************************************************)
EXTENDS Settlement, TLAPS

\* Each payment has one stage and one set of credits.
Shape ==
    /\ stage = [p \in Payments |-> stage[p]]
    /\ credits = [p \in Payments |-> credits[p]]

\* Every step keeps the credits of all payments but its own as they are.
LEMMA StepReleasesOnce ==
    ASSUME Shape, ReleasedOnce, Next
    PROVE  Shape' /\ ReleasedOnce'
<1>1. PICK p \in Payments : make(p) \/ refund(p) \/ \E w \in Confirmations : release(p, w)
  BY DEF Next
<1>2. CASE make(p)
  BY <1>2 DEF make, Become, Shape, ReleasedOnce
<1>3. CASE refund(p)
  BY <1>3 DEF refund, Become, Shape, ReleasedOnce
<1>4. ASSUME NEW w \in Confirmations, release(p, w)
      PROVE  Shape' /\ ReleasedOnce'
  <2>1. credits[p] = {}
    BY <1>4 DEF release, ReleasedOnce
  <2>2. credits'[p] = {[by |-> w, order |-> order[p]]} /\ stage'[p] = "COMPLETED"
    BY <1>4, <2>1 DEF release, Become, Shape
  <2>3. \A q \in Payments \ {p} :
          credits'[q] = credits[q] /\ stage'[q] = stage[q]
    BY <1>4 DEF release, Become, Shape
  <2>4. order' = order
    BY <1>4 DEF release
  <2>5. Shape'
    BY <1>4 DEF release, Become, Shape
  <2>6. QED
    BY <2>2, <2>3, <2>4, <2>5 DEF ReleasedOnce
<1>5. QED
  BY <1>1, <1>2, <1>3, <1>4

\* Funds are released exactly once in every behaviour of the flow.
THEOREM FlowReleasesOnce == Spec => []ReleasedOnce
<1>1. Init => Shape /\ ReleasedOnce
  BY DEF Init, Shape, ReleasedOnce
<1>2. Shape /\ ReleasedOnce /\ [Next]_vars => Shape' /\ ReleasedOnce'
  BY StepReleasesOnce DEF vars, Shape, ReleasedOnce
<1>3. QED
  BY <1>1, <1>2, PTL DEF Spec

==============================================================================
