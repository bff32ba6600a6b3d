------------------------- MODULE PaymentFlow_proofs -------------------------
(***************************************************************************)
(* Proofs about PaymentFlow for any number of payments, categories and     *)
(* jobs.  IInv is inductive: OneGenerator and IssuedOnce alone are not,    *)
(* since they forget which lines the claiming job still has to generate    *)
(* (Remaining), that nothing is issued before the claim (NotBeforeClaim)   *)
(* and that a claim follows FlexPay's confirmation (ClaimPaid).            *)
(***************************************************************************)
EXTENDS PaymentFlow, TLAPS

\* A job that is not idle works on a payment.
Linked == \A w \in Workers : pc[w] # "idle" => pay[w] \in Payments

\* The row comes with the request, FlexPay's order after the row.
RequestFirst ==
    \A p \in Payments :
        /\ request[p] = "idle" => status[p] = "NONE"
        /\ request[p] \in {"idle", "created"} => flexpay[p] = "NONE"

\* Who claims or generates was told that FlexPay holds the money.
ClaimPaid ==
    \A w \in Workers : pc[w] \in {"claim", "generate"} => flexpay[pay[w]] = "PAID"

\* The generating job has issued the lines that are not left to do, once.
Remaining ==
    \A w \in Workers :
        pc[w] = "generate" =>
            /\ todo[w] \subseteq Lines[pay[w]]
            /\ \A t \in Templates :
                 issued[pay[w]][t] = IF t \in Lines[pay[w]] \ todo[w] THEN 1 ELSE 0

NotBeforeClaim ==
    \A p \in Payments :
        status[p] \in {"NONE", "PENDING", "FAILED"} =>
            \A t \in Templates : issued[p][t] = 0

IInv ==
    /\ TypeOK
    /\ Linked
    /\ RequestFirst
    /\ ClaimPaid
    /\ OneGenerator
    /\ Remaining
    /\ NotBeforeClaim
    /\ IssuedOnce
    /\ DeliveredInFull
    /\ PaidFirst
    /\ RefundedOnce

-----------------------------------------------------------------------------
LEMMA InitIInv == Init => IInv
  BY NoPaymentAssumption, LinesAssumption
  DEF Init, IInv, TypeOK, Linked, RequestFirst, ClaimPaid, OneGenerator, Remaining,
      NotBeforeClaim, IssuedOnce, DeliveredInFull, PaidFirst, RefundedOnce,
      Statuses, RequestSteps, Steps, Triggers

LEMMA StepIInv == IInv /\ [Next]_vars => IInv'
<1> SUFFICES ASSUME IInv, [Next]_vars PROVE IInv'
  OBVIOUS
<1> USE NoPaymentAssumption, LinesAssumption
    DEF IInv, TypeOK, Linked, RequestFirst, ClaimPaid, OneGenerator, Remaining,
        NotBeforeClaim, IssuedOnce, DeliveredInFull, PaidFirst, RefundedOnce,
        Statuses, RequestSteps, Steps, Triggers, rowVars, jobVars, RequestStep,
        Start, Goto, Finish
<1>1. ASSUME NEW p \in Payments, CreatePayment(p) PROVE IInv'
  BY <1>1 DEF CreatePayment
<1>2. ASSUME NEW p \in Payments, FlexPayAccepts(p) PROVE IInv'
  BY <1>2 DEF FlexPayAccepts
<1>3. ASSUME NEW p \in Payments, StartFails(p) PROVE IInv'
  BY <1>3 DEF StartFails
<1>4. ASSUME NEW p \in Payments, StoreOrderNumber(p) PROVE IInv'
  BY <1>4 DEF StoreOrderNumber
<1>5. ASSUME NEW p \in Payments, AnswerLost(p) PROVE IInv'
  BY <1>5 DEF AnswerLost
<1>6. ASSUME NEW p \in Payments, CloseRequest(p) PROVE IInv'
  BY <1>6 DEF CloseRequest
<1>7. ASSUME NEW p \in Payments, RequestDies(p) PROVE IInv'
  BY <1>7 DEF RequestDies
<1>8. ASSUME NEW p \in Payments, BuyerDecides(p) PROVE IInv'
  BY <1>8 DEF BuyerDecides
<1>9. ASSUME NEW p \in Payments, HourPasses(p) PROVE IInv'
  BY <1>9 DEF HourPasses
<1>10. ASSUME NEW w \in Workers, NEW p \in Payments, HandleCallback(w, p) PROVE IInv'
  <2>1. PICK step \in {"verify", "fail"} : Start(w, p, "callback", step)
    BY <1>10 DEF HandleCallback
  <2> QED
    BY <2>1
<1>11. ASSUME NEW w \in Workers, NEW p \in Payments, PollStatus(w, p) PROVE IInv'
  BY <1>11 DEF PollStatus
<1>12. ASSUME NEW w \in Workers, NEW p \in Payments, SettleStale(w, p) PROVE IInv'
  BY <1>12 DEF SettleStale
<1>13. ASSUME NEW w \in Workers, NEW p \in Payments, StartRefund(w, p) PROVE IInv'
  BY <1>13 DEF StartRefund
<1>14. ASSUME NEW w \in Workers, VerifyAnswers(w) PROVE IInv'
  <2>1. CASE flexpay[pay[w]] = "PAID" /\ Goto(w, "claim")
    BY <1>14, <2>1 DEF VerifyAnswers
  <2>2. CASE Goto(w, "fail")
    BY <1>14, <2>2 DEF VerifyAnswers
  <2>3. CASE Finish(w)
    BY <1>14, <2>3 DEF VerifyAnswers
  <2> QED
    BY <1>14, <2>1, <2>2, <2>3 DEF VerifyAnswers
<1>15. ASSUME NEW w \in Workers, VerifyUnreachable(w) PROVE IInv'
  BY <1>15 DEF VerifyUnreachable
<1>16. ASSUME NEW w \in Workers, FailPayment(w) PROVE IInv'
  BY <1>16 DEF FailPayment
<1>17. ASSUME NEW w \in Workers, Claim(w) PROVE IInv'
  <2> DEFINE p == pay[w]
  <2>1. p \in Payments /\ flexpay[p] = "PAID"
    BY <1>17 DEF Claim
  <2>2. CASE status[p] = "PENDING"
    <3>1. /\ status' = [status EXCEPT ![p] = "PROCESSING"]
          /\ pc' = [pc EXCEPT ![w] = "generate"]
          /\ todo' = [todo EXCEPT ![w] = Lines[p]]
          /\ UNCHANGED <<pay, via, orderNumber, aged, issued, refunds, request, flexpay>>
      BY <1>17, <2>2 DEF Claim
    <3>2. TypeOK' /\ Linked' /\ RequestFirst' /\ ClaimPaid'
      BY <2>1, <2>2, <3>1
    \* Nobody generates for p yet: the row would be PROCESSING
    <3>3. OneGenerator'
      BY <2>1, <2>2, <3>1
    <3>4. Remaining'
      BY <2>1, <2>2, <3>1
    <3>5. NotBeforeClaim' /\ IssuedOnce' /\ DeliveredInFull'
      BY <2>1, <2>2, <3>1
    <3>6. PaidFirst' /\ RefundedOnce'
      BY <2>1, <2>2, <3>1
    <3> QED
      BY <3>2, <3>3, <3>4, <3>5, <3>6
  <2>3. CASE status[p] # "PENDING"
    <3>1. Finish(w) /\ UNCHANGED <<rowVars, request, flexpay>>
      BY <1>17, <2>3 DEF Claim
    <3> QED
      BY <3>1
  <2> QED
    BY <2>2, <2>3
<1>18. ASSUME NEW w \in Workers, GenerationFails(w) PROVE IInv'
  BY <1>18 DEF GenerationFails
<1>19. ASSUME NEW w \in Workers, Complete(w) PROVE IInv'
  BY <1>19 DEF Complete
<1>20. ASSUME NEW w \in Workers, RefundTx(w) PROVE IInv'
  <2>1. CASE status[pay[w]] = "COMPLETED"
    <3> DEFINE p == pay[w]
    <3>1. /\ p \in Payments /\ refunds[p] = 0
          /\ \A v \in Workers : pc[v] = "generate" => pay[v] # p
      BY <1>20, <2>1 DEF RefundTx
    <3>2. /\ status' = [status EXCEPT ![p] = "REFUNDED"]
          /\ refunds' = [refunds EXCEPT ![p] = 1]
          /\ Finish(w)
          /\ UNCHANGED <<orderNumber, aged, issued, request, flexpay>>
      BY <1>20, <2>1, <3>1 DEF RefundTx
    <3> QED
      BY <2>1, <3>1, <3>2
  <2>2. CASE status[pay[w]] # "COMPLETED"
    BY <1>20, <2>2 DEF RefundTx
  <2> QED
    BY <2>1, <2>2
<1>21. ASSUME NEW w \in Workers, Crash(w) PROVE IInv'
  BY <1>21 DEF Crash
<1>22. ASSUME NEW w \in Workers, NEW t \in Templates, GenerateLine(w, t) PROVE IInv'
  BY <1>22 DEF GenerateLine
<1>23. CASE UNCHANGED vars
  BY <1>23 DEF vars
<1> QED
  BY <1>1, <1>2, <1>3, <1>4, <1>5, <1>6, <1>7, <1>8, <1>9, <1>10, <1>11, <1>12, <1>13, <1>14, <1>15, <1>16, <1>17, <1>18, <1>19, <1>20, <1>21, <1>22, <1>23 DEF Next, CheckoutStep, JobStep

THEOREM Invariance == Spec => []IInv
  BY InitIInv, StepIInv, PTL DEF Spec

-----------------------------------------------------------------------------
\* The rows and the jobs keep their types.
THEOREM TypeCorrect == Spec => []TypeOK
  BY Invariance, PTL DEF IInv

\* Callbacks, polls and cron runs may confirm a payment together, in any number
\* and order, and die anywhere: one of them generates, and each line once.
THEOREM NoDuplicateTickets == Spec => [](OneGenerator /\ IssuedOnce)
  BY Invariance, PTL DEF IInv

\* A completed payment has all its tickets, and only a paid one has any.
THEOREM CompletedIsServed == Spec => [](DeliveredInFull /\ PaidFirst)
  BY Invariance, PTL DEF IInv

\* A failed payment gave nothing.
THEOREM FailedIsEmpty == Spec => []FailedGaveNothing
<1>1. IInv => FailedGaveNothing
  BY DEF IInv, NotBeforeClaim, FailedGaveNothing
<1> QED
  BY <1>1, Invariance, PTL

\* However many people click, an order is refunded at most once.
THEOREM SingleRefund == Spec => []RefundedOnce
  BY Invariance, PTL DEF IInv

\* The only write to the status that is not conditional, Complete's, is done by
\* the job that holds the row in PROCESSING.
LEMMA StepForward ==
    IInv /\ [Next]_vars =>
        \A p \in Payments : status'[p] # status[p] => status'[p] \in Forward(status[p])
<1> SUFFICES ASSUME IInv, [Next]_vars, NEW p \in Payments, status'[p] # status[p]
             PROVE  status'[p] \in Forward(status[p])
  OBVIOUS
<1> USE DEF IInv, TypeOK, Forward
<1>1. ASSUME NEW q \in Payments, CheckoutStep(q) PROVE status'[p] \in Forward(status[p])
  BY <1>1 DEF CheckoutStep, CreatePayment, FlexPayAccepts, StartFails, StoreOrderNumber,
     AnswerLost, CloseRequest, RequestDies, RequestStep, RequestFirst, rowVars
<1>2. ASSUME NEW q \in Payments, BuyerDecides(q) \/ HourPasses(q) PROVE FALSE
  BY <1>2 DEF BuyerDecides, HourPasses, rowVars
<1>3. ASSUME NEW w \in Workers, JobStep(w) PROVE status'[p] \in Forward(status[p])
  <2>1. CASE FailPayment(w)
    BY <2>1 DEF FailPayment, Linked, Steps
  <2>2. CASE Claim(w)
    BY <2>2 DEF Claim, Linked
  <2>3. CASE Complete(w)
    BY <2>3 DEF Complete, OneGenerator, Linked
  <2>4. CASE RefundTx(w)
    BY <2>4 DEF RefundTx, Linked
  <2>5. CASE \E q \in Payments : \/ HandleCallback(w, q) \/ PollStatus(w, q)
                                 \/ SettleStale(w, q) \/ StartRefund(w, q)
    BY <2>5 DEF HandleCallback, PollStatus, SettleStale, StartRefund, Start, rowVars
  <2>6. CASE VerifyAnswers(w) \/ VerifyUnreachable(w) \/ GenerationFails(w) \/ Crash(w)
    BY <2>6 DEF VerifyAnswers, VerifyUnreachable, GenerationFails, Crash, rowVars
  <2>7. CASE \E t \in Templates : GenerateLine(w, t)
    BY <2>7 DEF GenerateLine
  <2> QED
    BY <1>3, <2>1, <2>2, <2>3, <2>4, <2>5, <2>6, <2>7 DEF JobStep
<1>4. CASE UNCHANGED vars
  BY <1>4 DEF vars, rowVars
<1> QED
  BY <1>1, <1>2, <1>3, <1>4 DEF Next

\* A row never goes back, whatever a job that read it long ago writes.
THEOREM NeverBack == Spec => StatusOnlyForward
  BY Invariance, StepForward, PTL DEF Spec, StatusOnlyForward

-----------------------------------------------------------------------------
LEMMA InitPromise == Init => Promise!Init
  BY DEF Init, Promise!Init, PhaseOf

\* The phases Promise sees.
View == [q \in Payments |-> PhaseOf(status[q])]

\* A write to one row moves the phase of that order.
LEMMA MovesView ==
    ASSUME status \in [Payments -> Statuses], NEW p \in Payments, NEW s \in Statuses,
           status' = [status EXCEPT ![p] = s]
    PROVE  View' = [View EXCEPT ![p] = PhaseOf(s)]
  BY DEF View

LEMMA StepPromise == IInv /\ [Next]_vars => [Promise!Next]_(Promise!vars)
<1> SUFFICES ASSUME IInv, [Next]_vars PROVE [Promise!Next]_(Promise!vars)
  OBVIOUS
<1> USE DEF IInv
<1>types. status \in [Payments -> Statuses]
  BY DEF TypeOK
<1> DEFINE Same == Promise!vars' = Promise!vars
<1>0. ASSUME UNCHANGED <<status, flexpay, issued, refunds>> PROVE Same
  BY <1>0 DEF Promise!vars
<1>1. ASSUME NEW p \in Payments, CreatePayment(p) PROVE Promise!Open(p)
  <2>1. status[p] = "NONE" /\ status' = [status EXCEPT ![p] = "PENDING"]
        /\ UNCHANGED <<flexpay, issued, refunds>>
    BY <1>1 DEF CreatePayment, RequestStep, RequestFirst
  <2>2. View[p] = "none" /\ View' = [View EXCEPT ![p] = "open"]
    <3>1. View[p] = "none"
      BY <2>1 DEF View, PhaseOf, TypeOK
    <3>2. View' = [View EXCEPT ![p] = "open"]
      BY <2>1, <1>types, MovesView DEF PhaseOf, Statuses
    <3> QED
      BY <3>1, <3>2
  <2> QED
    BY <2>1, <2>2 DEF View, Promise!Open, Promise!Move
<1>2. ASSUME NEW p \in Payments, FlexPayAccepts(p) PROVE Same
  <2>1. {q \in Payments : flexpay[q] = "PAID"}' = {q \in Payments : flexpay[q] = "PAID"}
    BY <1>2 DEF FlexPayAccepts, RequestStep, RequestFirst, TypeOK
  <2> QED
    BY <1>2, <2>1 DEF FlexPayAccepts, rowVars, Promise!vars
<1>3. ASSUME NEW p \in Payments, CloseRequest(p) PROVE Same \/ Promise!Lose(p)
  <2>1. CASE status[p] = "PENDING"
    <3>1. View[p] = "open" /\ View' = [View EXCEPT ![p] = "lost"]
      <4>1. View[p] = "open"
        BY <1>3, <2>1 DEF CloseRequest, View, PhaseOf, TypeOK
      <4>2. View' = [View EXCEPT ![p] = "lost"]
        <5>1. status' = [status EXCEPT ![p] = "FAILED"]
          BY <1>3, <2>1 DEF CloseRequest
        <5> QED
          BY <5>1, <1>types, MovesView DEF PhaseOf, Statuses
      <4> QED
        BY <4>1, <4>2
    <3> QED
      BY <1>3, <3>1 DEF CloseRequest, View, Promise!Lose, Promise!Move
  <2>2. CASE status[p] # "PENDING"
    <3>1. status' = status
      BY <1>3, <2>2 DEF CloseRequest, TypeOK
    <3> QED
      BY <1>3, <3>1, <1>0 DEF CloseRequest
  <2> QED
    BY <2>1, <2>2
<1>4. ASSUME NEW p \in Payments, BuyerDecides(p) PROVE Same \/ Promise!TakeMoney(p)
  <2> PICK d \in {"PAID", "REFUSED"} : flexpay' = [flexpay EXCEPT ![p] = d]
    BY <1>4 DEF BuyerDecides
  <2>1. CASE d = "PAID"
    <3>1. {q \in Payments : flexpay[q] = "PAID"}'
            = {q \in Payments : flexpay[q] = "PAID"} \cup {p}
      BY <2>1 DEF TypeOK
    <3>2. p \notin {q \in Payments : flexpay[q] = "PAID"}
      BY <1>4 DEF BuyerDecides
    <3> QED
      BY <1>4, <3>1, <3>2 DEF BuyerDecides, rowVars, Promise!TakeMoney
  <2>2. CASE d = "REFUSED"
    <3>1. {q \in Payments : flexpay[q] = "PAID"}' = {q \in Payments : flexpay[q] = "PAID"}
      BY <1>4, <2>2 DEF BuyerDecides, TypeOK
    <3> QED
      BY <1>4, <3>1 DEF BuyerDecides, rowVars, Promise!vars
  <2> QED
    BY <2>1, <2>2
<1>5. ASSUME NEW w \in Workers, FailPayment(w) PROVE Same \/ Promise!Lose(pay[w])
  <2>0. pay[w] \in Payments
    BY <1>5 DEF FailPayment, Linked
  <2>1. CASE status[pay[w]] = "PENDING"
    <3>1. View[pay[w]] = "open" /\ View' = [View EXCEPT ![pay[w]] = "lost"]
      <4>1. View[pay[w]] = "open"
        BY <1>5, <2>0, <2>1 DEF FailPayment, View, PhaseOf, TypeOK
      <4>2. View' = [View EXCEPT ![pay[w]] = "lost"]
        <5>1. status' = [status EXCEPT ![pay[w]] = "FAILED"]
          BY <1>5, <2>1 DEF FailPayment
        <5> QED
          BY <2>0, <5>1, <1>types, MovesView DEF PhaseOf, Statuses
      <4> QED
        BY <4>1, <4>2
    <3> QED
      BY <1>5, <3>1 DEF FailPayment, View, Promise!Lose, Promise!Move
  <2>2. CASE status[pay[w]] # "PENDING"
    <3>1. status' = status
      BY <1>5, <2>0, <2>2 DEF FailPayment, TypeOK
    <3> QED
      BY <1>5, <3>1, <1>0 DEF FailPayment
  <2> QED
    BY <2>1, <2>2
<1>6. ASSUME NEW w \in Workers, Claim(w) PROVE Same \/ Promise!Accept(pay[w])
  <2>0. pay[w] \in Payments /\ flexpay[pay[w]] = "PAID"
    BY <1>6 DEF Claim, Linked, ClaimPaid
  <2>1. CASE status[pay[w]] = "PENDING"
    <3>1. status' = [status EXCEPT ![pay[w]] = "PROCESSING"]
          /\ UNCHANGED <<flexpay, issued, refunds>>
      BY <1>6, <2>1 DEF Claim
    <3>2. View[pay[w]] = "open" /\ View' = [View EXCEPT ![pay[w]] = "owed"]
      <4>1. View[pay[w]] = "open"
        BY <2>0, <2>1, <3>1 DEF View, PhaseOf, TypeOK
      <4>2. View' = [View EXCEPT ![pay[w]] = "owed"]
        BY <2>0, <2>1, <3>1, <1>types, MovesView DEF PhaseOf, Statuses
      <4> QED
        BY <4>1, <4>2
    <3> QED
      BY <2>0, <3>1, <3>2 DEF View, Promise!Accept, Promise!Move
  <2>2. CASE status[pay[w]] # "PENDING"
    BY <1>6, <2>2, <1>0 DEF Claim
  <2> QED
    BY <2>1, <2>2
<1>7. ASSUME NEW w \in Workers, NEW t \in Templates, GenerateLine(w, t)
      PROVE Promise!Give(pay[w], t)
  <2>0. /\ pay[w] \in Payments /\ status[pay[w]] = "PROCESSING"
        /\ t \in Lines[pay[w]] /\ issued[pay[w]][t] = 0
    BY <1>7 DEF GenerateLine, Linked, OneGenerator, Remaining
  <2>1. issued' = [issued EXCEPT ![pay[w]][t] = 1]
    BY <1>7, <2>0 DEF GenerateLine, TypeOK
  <2>2. UNCHANGED <<status, flexpay, refunds>>
    BY <1>7 DEF GenerateLine
  <2>3. View[pay[w]] = "owed" /\ View' = View
    BY <2>0, <2>2 DEF View, PhaseOf
  <2> QED
    BY <2>0, <2>1, <2>2, <2>3 DEF View, Promise!Give
<1>8. ASSUME NEW w \in Workers, Complete(w) PROVE Promise!Serve(pay[w])
  <2>0. /\ pay[w] \in Payments /\ status[pay[w]] = "PROCESSING"
        /\ \A t \in Templates : t \in Lines[pay[w]] => issued[pay[w]][t] = 1
    BY <1>8 DEF Complete, Linked, OneGenerator, Remaining
  <2>1. \A t \in Lines[pay[w]] : issued[pay[w]][t] = 1
    BY <2>0, LinesAssumption
  <2>2. status' = [status EXCEPT ![pay[w]] = "COMPLETED"]
        /\ UNCHANGED <<flexpay, issued, refunds>>
    BY <1>8 DEF Complete
  <2>3. View[pay[w]] = "owed" /\ View' = [View EXCEPT ![pay[w]] = "served"]
    <3>1. View[pay[w]] = "owed"
      BY <2>0, <2>2 DEF View, PhaseOf, TypeOK
    <3>2. View' = [View EXCEPT ![pay[w]] = "served"]
      BY <2>0, <2>2, <1>types, MovesView DEF PhaseOf, Statuses
    <3> QED
      BY <3>1, <3>2
  <2> QED
    BY <2>1, <2>2, <2>3 DEF View, Promise!Serve, Promise!Move
<1>9. ASSUME NEW w \in Workers, RefundTx(w) PROVE Same \/ Promise!Return(pay[w])
  <2>0. pay[w] \in Payments
    BY <1>9 DEF RefundTx, Linked
  <2>1. CASE status[pay[w]] = "COMPLETED"
    <3>1. status' = [status EXCEPT ![pay[w]] = "REFUNDED"]
          /\ refunds' = [refunds EXCEPT ![pay[w]] = @ + 1]
          /\ UNCHANGED <<flexpay, issued>>
      BY <1>9, <2>1 DEF RefundTx
    <3>2. refunds' = [refunds EXCEPT ![pay[w]] = 1]
      <4>1. refunds[pay[w]] = 0
        BY <2>0, <2>1 DEF RefundedOnce
      <4> QED
        BY <3>1, <4>1
    <3>3. View[pay[w]] = "served" /\ View' = [View EXCEPT ![pay[w]] = "returned"]
      <4>1. View[pay[w]] = "served"
        BY <2>0, <2>1, <3>1 DEF View, PhaseOf, TypeOK
      <4>2. View' = [View EXCEPT ![pay[w]] = "returned"]
        BY <2>0, <2>1, <3>1, <1>types, MovesView DEF PhaseOf, Statuses
      <4> QED
        BY <4>1, <4>2
    <3> QED
      BY <3>1, <3>2, <3>3 DEF View, Promise!Return, Promise!Move
  <2>2. CASE status[pay[w]] # "COMPLETED"
    BY <1>9, <2>2, <1>0 DEF RefundTx
  <2> QED
    BY <2>1, <2>2
<1>10. ASSUME NEW p \in Payments,
              \/ StartFails(p) \/ StoreOrderNumber(p) \/ AnswerLost(p)
              \/ RequestDies(p) \/ HourPasses(p)
       PROVE Same
  BY <1>10, <1>0 DEF StartFails, StoreOrderNumber, AnswerLost, RequestDies, HourPasses, rowVars
<1>11. ASSUME NEW w \in Workers, NEW p \in Payments,
              \/ HandleCallback(w, p) \/ PollStatus(w, p)
              \/ SettleStale(w, p) \/ StartRefund(w, p)
       PROVE Same
  BY <1>11, <1>0 DEF HandleCallback, PollStatus, SettleStale, StartRefund, Start, rowVars
<1>12. ASSUME NEW w \in Workers,
              \/ VerifyAnswers(w) \/ VerifyUnreachable(w) \/ GenerationFails(w) \/ Crash(w)
       PROVE Same
  BY <1>12, <1>0 DEF VerifyAnswers, VerifyUnreachable, GenerationFails, Crash, rowVars
<1>13. CASE UNCHANGED vars
  BY <1>13, <1>0 DEF vars, rowVars
<1>14. ASSUME NEW w \in Workers, pc[w] # "idle" PROVE pay[w] \in Payments
  BY <1>14 DEF Linked
<1>15. CASE \E p \in Payments : CheckoutStep(p) \/ BuyerDecides(p) \/ HourPasses(p)
  BY <1>15, <1>1, <1>2, <1>3, <1>4, <1>10 DEF CheckoutStep, Promise!Next
<1>16. CASE \E w \in Workers : JobStep(w)
  <2> PICK w \in Workers : JobStep(w)
    BY <1>16
  <2>1. CASE FailPayment(w) \/ Claim(w) \/ Complete(w) \/ RefundTx(w)
    <3>1. pay[w] \in Payments
      BY <2>1, <1>14 DEF FailPayment, Claim, Complete, RefundTx
    <3> QED
      BY <2>1, <3>1, <1>5, <1>6, <1>8, <1>9 DEF Promise!Next
  <2>2. CASE \E t \in Templates : GenerateLine(w, t)
    <3>1. pay[w] \in Payments
      BY <2>2, <1>14 DEF GenerateLine
    <3> QED
      BY <2>2, <3>1, <1>7 DEF Promise!Next
  <2> QED
    BY <2>1, <2>2, <1>11, <1>12 DEF JobStep
<1> QED
  BY <1>13, <1>15, <1>16 DEF Next

\* The payment flow gives every buyer what Fulfilment promises.
THEOREM ImplementsPromise == Spec => KeepsPromise
  BY Invariance, InitPromise, StepPromise, PTL DEF Spec, KeepsPromise, Promise!Spec
=============================================================================
