----------------------------- MODULE SwapProofs -----------------------------
(***************************************************************************)
(* perform_swap trades once and reports what it did, for any number of     *)
(* requests and attempts, as long as the balances it reads are right and   *)
(* no order lands after it was given up.                                   *)
(***************************************************************************)
EXTENDS Swap, TLAPS

\* Nothing has happened to the requests to come, and the one in hand has not
\* returned.
Ahead ==
    /\ \A r \in Requests : r > request =>
           report[r] = None /\ \A a \in Attempts : chain[r][a] = "none"
    /\ pc # "idle" => /\ report[request] = None
                      /\ \A a \in Attempts : a > attempt => chain[request][a] = "none"
    /\ pc = "order" => chain[request][attempt] = "none"
    /\ pc = "execute" => chain[request][attempt] = "made"

\* While nothing of the request has landed, the wallet has what it had.
BeforeUnmoved ==
    doubt \cap {"behind", "late"} = {} /\ pc # "idle" /\ before # None /\ Landed(request) = {}
        => before = wallet

\* What is reported has moved the wallet.
ReportBacked ==
    pc = "report" /\ Landed(request) = {} => doubt \cap {"behind", "late"} # {}

\* Without doubts only the attempt in hand can have landed, it is then about to
\* be reconciled or reported, and the balance shows it.
Certain ==
    doubt = {} /\ pc # "idle" =>
        /\ before # None
        /\ pc \in {"order", "execute"} => Landed(request) = {}
        /\ pc = "reconcile" /\ Landed(request) # {} =>
               Landed(request) = {attempt} /\ before = wallet + 1

IInv ==
    /\ TypeOK
    /\ Ahead
    /\ BeforeUnmoved
    /\ ReportBacked
    /\ Certain
    /\ NoDoubleSwap
    /\ NoPhantomFill
    /\ NothingUntracked

-----------------------------------------------------------------------------
(***************************************************************************)
(* Changing the fate of one order                                          *)
(***************************************************************************)

\* An EXCEPT on one order changes that order and no other.
LEMMA OneOrder ==
    ASSUME NEW c \in [Requests -> [Attempts -> Fates]], NEW r0 \in Requests,
           NEW a0 \in Attempts, NEW f \in Fates
    PROVE  LET d == [c EXCEPT ![r0][a0] = f]
           IN  /\ d \in [Requests -> [Attempts -> Fates]]
               /\ \A r \in Requests, a \in Attempts :
                      d[r][a] = IF r = r0 /\ a = a0 THEN f ELSE c[r][a]
  OBVIOUS

\* An order that lands joins the landed ones of its request.
LEMMA LandingAdds ==
    ASSUME TypeOK, NEW r0 \in Requests, NEW a0 \in Attempts, NEW shown, Lands(r0, a0, shown)
    PROVE  /\ chain' \in [Requests -> [Attempts -> Fates]]
           /\ \A r \in Requests, a \in Attempts :
                  (r # r0 \/ a # a0) => chain'[r][a] = chain[r][a]
           /\ \A r \in Requests :
                  Landed(r)' = IF r = r0 THEN Landed(r) \cup {a0} ELSE Landed(r)
           /\ wallet' = wallet - 1 /\ wallet' \in Nat /\ node' \in Nat /\ wallet' <= node'
  <1>1. chain' = [chain EXCEPT ![r0][a0] = "landed"] BY DEF Lands
  <1>2. /\ chain' \in [Requests -> [Attempts -> Fates]]
        /\ \A r \in Requests, a \in Attempts :
               chain'[r][a] = IF r = r0 /\ a = a0 THEN "landed" ELSE chain[r][a]
    BY <1>1, OneOrder DEF TypeOK, Fates
  <1>3. \A r \in Requests : Landed(r)' = IF r = r0 THEN Landed(r) \cup {a0} ELSE Landed(r)
    BY <1>2 DEF Landed
  <1>4. wallet' = wallet - 1 /\ wallet' \in Nat /\ node' \in Nat /\ wallet' <= node'
    BY DEF Lands, TypeOK
  <1>. QED BY <1>2, <1>3, <1>4

\* Making or posting an order that has not landed leaves the landed ones.
LEMMA OtherFateKeeps ==
    ASSUME TypeOK, NEW r0 \in Requests, NEW a0 \in Attempts, NEW f \in {"made", "posted"},
           chain' = [chain EXCEPT ![r0][a0] = f], chain[r0][a0] # "landed"
    PROVE  /\ chain' \in [Requests -> [Attempts -> Fates]]
           /\ \A r \in Requests, a \in Attempts :
                  chain'[r][a] = IF r = r0 /\ a = a0 THEN f ELSE chain[r][a]
           /\ \A r \in Requests : Landed(r)' = Landed(r)
  <1>1. /\ chain' \in [Requests -> [Attempts -> Fates]]
        /\ \A r \in Requests, a \in Attempts :
               chain'[r][a] = IF r = r0 /\ a = a0 THEN f ELSE chain[r][a]
    BY OneOrder DEF TypeOK, Fates
  <1>2. \A r \in Requests : Landed(r)' = Landed(r) BY <1>1 DEF Landed
  <1>. QED BY <1>1, <1>2

-----------------------------------------------------------------------------
(***************************************************************************)
(* The invariant holds at first and every action preserves it              *)
(***************************************************************************)

LEMMA InitInv == Init => IInv
  <1>. SUFFICES ASSUME Init PROVE IInv OBVIOUS
  <1>1. \A r \in Requests : Landed(r) = {} BY DEF Init, Landed
  <1>2. TypeOK
    BY SwapAssumption DEF Init, TypeOK, Fates, Steps, Requests, Attempts, Doubts
  <1>3. Ahead BY DEF Init, Ahead, Requests
  <1>. QED
    BY <1>1, <1>2, <1>3, SwapAssumption
    DEF Init, IInv, BeforeUnmoved, ReportBacked, Certain,
        NoDoubleSwap, NoPhantomFill, NothingUntracked

LEMMA LandsLateInv ==
    ASSUME IInv, NEW r0 \in Requests, NEW a0 \in Attempts, NEW shown \in BOOLEAN,
           LandsLate(r0, a0, shown)
    PROVE  IInv'
  <1>. USE DEF IInv
  <1>1. Lands(r0, a0, shown) /\ chain[r0][a0] = "posted" BY DEF LandsLate
  <1>2. /\ chain' \in [Requests -> [Attempts -> Fates]]
        /\ \A r \in Requests, a \in Attempts :
               (r # r0 \/ a # a0) => chain'[r][a] = chain[r][a]
        /\ \A r \in Requests : Landed(r)' = IF r = r0 THEN Landed(r) \cup {a0} ELSE Landed(r)
        /\ wallet' = wallet - 1 /\ wallet' \in Nat /\ node' \in Nat /\ wallet' <= node'
    BY <1>1, LandingAdds
  <1>3. /\ request' = request /\ attempt' = attempt /\ order' = order /\ before' = before
        /\ pc' = pc /\ report' = report
        /\ doubt' = IF Awaited(r0, a0) THEN doubt ELSE doubt \cup {"late"}
    BY DEF LandsLate
  <1>4. a0 \notin Landed(r0) BY <1>1 DEF Landed
  <1>5. TypeOK' BY <1>2, <1>3 DEF TypeOK, Doubts
  <1>6. Ahead'
    <2>1. \A r \in Requests, a \in Attempts :
              chain[r][a] # "posted" => chain'[r][a] = chain[r][a]
      <3>. SUFFICES ASSUME NEW r \in Requests, NEW a \in Attempts, chain[r][a] # "posted"
                    PROVE  chain'[r][a] = chain[r][a]
        OBVIOUS
      <3>1. r # r0 \/ a # a0 BY <1>1
      <3>. QED BY <1>2, <3>1
    <2>2. pc # "idle" => request \in Requests /\ attempt \in Attempts BY DEF TypeOK
    <2>3. \A r \in Requests : r > request =>
              report'[r] = None /\ \A a \in Attempts : chain'[r][a] = "none"
      BY <1>3, <2>1 DEF Ahead
    <2>4. pc # "idle" => /\ report'[request] = None
                         /\ \A a \in Attempts : a > attempt => chain'[request][a] = "none"
      BY <1>3, <2>1, <2>2 DEF Ahead
    <2>5. /\ pc = "order" => chain'[request][attempt] = "none"
          /\ pc = "execute" => chain'[request][attempt] = "made"
      BY <2>1, <2>2 DEF Ahead
    <2>. QED BY <1>3, <2>3, <2>4, <2>5 DEF Ahead
  <1>7. doubt' \cap {"behind", "late"} = {} => Awaited(r0, a0) /\ doubt' = doubt BY <1>3
  <1>8. pc # "idle" => request \in Requests BY DEF TypeOK
  <1>9. BeforeUnmoved' BY <1>2, <1>3, <1>7 DEF BeforeUnmoved, Awaited
  <1>10. ReportBacked' BY <1>2, <1>3, <1>8 DEF ReportBacked
  <1>11. doubt' = {} => /\ doubt = {} /\ pc = "reconcile" /\ r0 = request /\ a0 = attempt
                        /\ before # None /\ Landed(request) = {} /\ before = wallet
    BY <1>4, <1>7 DEF Awaited, Certain, BeforeUnmoved
  <1>12. Certain'
    <2>. SUFFICES ASSUME doubt' = {}, pc' # "idle"
                  PROVE  pc' = "reconcile" /\ before' # None
                         /\ Landed(request)' = {attempt'} /\ before' = wallet' + 1
      BY DEF Certain
    <2>1. Landed(request)' = {attempt} BY <1>2, <1>3, <1>11 DEF Landed
    <2>2. before = wallet' + 1 BY <1>2, <1>11 DEF TypeOK
    <2>. QED BY <1>3, <1>11, <2>1, <2>2
  <1>13. NoDoubleSwap' BY <1>2, <1>11 DEF NoDoubleSwap
  <1>14. NoPhantomFill' BY <1>2, <1>3 DEF NoPhantomFill
  <1>15. NothingUntracked'
    BY <1>2, <1>3, <1>11, SwapAssumption, ZenonT(30) DEF NothingUntracked, Ahead
  <1>. QED BY <1>5, <1>6, <1>9, <1>10, <1>12, <1>13, <1>14, <1>15

LEMMA NodeCatchesUpInv == IInv /\ NodeCatchesUp => IInv'
  <1>. SUFFICES ASSUME IInv, NodeCatchesUp PROVE IInv' OBVIOUS
  <1>. USE DEF IInv, NodeCatchesUp
  <1>1. \A r : Landed(r)' = Landed(r) BY DEF Landed
  <1>2. Landed(request)' = Landed(request) BY DEF Landed
  <1>3. TypeOK' BY DEF TypeOK
  <1>4. Ahead' BY DEF Ahead
  <1>5. BeforeUnmoved' /\ ReportBacked' /\ Certain'
    BY <1>2 DEF BeforeUnmoved, ReportBacked, Certain
  <1>6. NoDoubleSwap' /\ NoPhantomFill' /\ NothingUntracked'
    BY <1>1 DEF NoDoubleSwap, NoPhantomFill, NothingUntracked
  <1>. QED BY <1>3, <1>4, <1>5, <1>6

LEMMA BeginInv ==
    ASSUME IInv, NEW balance \in {node, None}, Begin(balance)
    PROVE  IInv'
  <1>. USE DEF IInv
  <1>1. /\ pc = "idle" /\ request < MaxRequests /\ Read(balance) /\ before' = balance
        /\ request' = request + 1 /\ attempt' = 1 /\ order' = 0 /\ pc' = "order"
        /\ chain' = chain /\ wallet' = wallet /\ node' = node /\ report' = report
    BY DEF Begin, external
  <1>2. \A r \in Requests : Landed(r)' = Landed(r) BY <1>1 DEF Landed
  <1>3. request' \in Requests /\ request' > request /\ attempt' \in Attempts
    BY <1>1, SwapAssumption DEF TypeOK, Requests, Attempts
  <1>4. report'[request'] = None /\ \A a \in Attempts : chain'[request'][a] = "none"
    BY <1>1, <1>3 DEF Ahead
  <1>5. Landed(request)' = {} BY <1>4 DEF Landed
  <1>6. doubt' = doubt \cup (IF balance = None THEN {"unread"} ELSE {})
                       \cup (IF balance # None /\ node # wallet THEN {"behind"} ELSE {})
    BY <1>1 DEF Read
  <1>7. TypeOK' BY <1>1, <1>3, <1>6, SwapAssumption DEF TypeOK, Doubts, Steps, Attempts
  <1>8. Ahead' BY <1>1, <1>3, <1>4 DEF Ahead, TypeOK, Requests
  <1>9. BeforeUnmoved' BY <1>1, <1>6 DEF BeforeUnmoved
  <1>10. ReportBacked' BY <1>1 DEF ReportBacked
  <1>11. Certain' BY <1>1, <1>5, <1>6 DEF Certain
  <1>12. NoDoubleSwap' /\ NoPhantomFill' /\ NothingUntracked'
    BY <1>1, <1>2, <1>6 DEF NoDoubleSwap, NoPhantomFill, NothingUntracked
  <1>. QED BY <1>7, <1>8, <1>9, <1>10, <1>11, <1>12

\* Giving up an attempt nothing certain has landed of.
LEMMA GiveUpInv ==
    ASSUME IInv, pc # "idle", GiveUpAttempt,
           chain' \in [Requests -> [Attempts -> Fates]],
           \A r \in Requests : Landed(r)' = Landed(r),
           \A r \in Requests, a \in Attempts :
               (r # request \/ a # attempt) => chain'[r][a] = chain[r][a],
           wallet' = wallet, node' = node, request' = request, order' = order,
           before' = before, doubt' \subseteq Doubts, doubt \subseteq doubt',
           doubt' = {} => Landed(request) = {}
    PROVE  IInv'
  <1>. USE DEF IInv
  <1>1. /\ request \in Requests /\ attempt \in Attempts /\ report[request] = None
        /\ \A a \in Attempts : a > attempt => chain[request][a] = "none"
    BY DEF TypeOK, Ahead
  <1>2. \/ /\ report' = [report EXCEPT ![request] = "none"] /\ pc' = "idle"
           /\ attempt' = attempt
        \/ /\ attempt' = attempt + 1 /\ attempt' \in Attempts /\ pc' = "order"
           /\ report' = report
    BY <1>1, SwapAssumption DEF GiveUpAttempt, Last, Attempts
  <1>3. Landed(request)' = Landed(request) BY <1>1 DEF Landed
  <1>4. TypeOK'
    <2>1. report' \in [Requests -> {None, "none", "fill", "raised"}] BY <1>1, <1>2 DEF TypeOK
    <2>2. attempt' \in 0..MaxAttempts /\ order' \in 0..attempt'
      BY <1>1, <1>2, SwapAssumption DEF TypeOK, Attempts
    <2>3. pc' \in Steps /\ request' \in Requests /\ attempt' \in Attempts
      BY <1>1, <1>2 DEF Steps
    <2>. QED BY <2>1, <2>2, <2>3 DEF TypeOK
  <1>5. Ahead'
    <2>1. \A r \in Requests : r > request' =>
              report'[r] = None /\ \A a \in Attempts : chain'[r][a] = "none"
      <3>. SUFFICES ASSUME NEW r \in Requests, r > request
                    PROVE  report'[r] = None /\ \A a \in Attempts : chain'[r][a] = "none"
        OBVIOUS
      <3>1. r # request BY DEF TypeOK, Requests
      <3>2. report'[r] = report[r] BY <1>2, <3>1 DEF TypeOK
      <3>3. \A a \in Attempts : chain'[r][a] = chain[r][a] BY <3>1
      <3>. QED BY <3>2, <3>3 DEF Ahead
    <2>2. pc' # "idle" => /\ report'[request'] = None
                          /\ \A a \in Attempts : a > attempt' => chain'[request'][a] = "none"
                          /\ chain'[request'][attempt'] = "none"
      BY <1>1, <1>2, SwapAssumption DEF Attempts
    <2>. QED BY <1>2, <2>1, <2>2 DEF Ahead
  <1>6. BeforeUnmoved' BY <1>3 DEF BeforeUnmoved
  <1>7. ReportBacked' BY <1>2 DEF ReportBacked
  <1>8. Certain' BY <1>2, <1>3 DEF Certain
  <1>9. NoDoubleSwap' BY DEF NoDoubleSwap
  <1>10. NoPhantomFill' BY <1>1, <1>2 DEF NoPhantomFill, TypeOK
  <1>11. NothingUntracked'
    <2>. SUFFICES ASSUME doubt' = {}, NEW r \in Requests, report'[r] = "none"
                  PROVE  Landed(r) = {}
      BY DEF NothingUntracked
    <2>1. CASE r = request BY <2>1
    <2>2. CASE r # request
      <3>1. report[r] = "none" BY <1>2, <2>2 DEF TypeOK
      <3>. QED BY <3>1 DEF NothingUntracked
    <2>. QED BY <2>1, <2>2
  <1>. QED BY <1>4, <1>5, <1>6, <1>7, <1>8, <1>9, <1>10, <1>11

\* A step inside an attempt: only the fate of its order, the doubts and pc change.
LEMMA InsideInv ==
    ASSUME IInv, pc # "idle", pc' \in {"execute", "reconcile", "report"},
           chain' \in [Requests -> [Attempts -> Fates]],
           \A r \in Requests : Landed(r)' = Landed(r),
           \A r \in Requests, a \in Attempts :
               (r # request \/ a # attempt) => chain'[r][a] = chain[r][a],
           pc' = "execute" => chain'[request][attempt] = "made",
           wallet' = wallet, node' = node, request' = request, attempt' = attempt,
           order' \in 0..attempt, before' = before, report' = report,
           doubt' \subseteq Doubts, doubt \subseteq doubt',
           pc' = "report" /\ Landed(request) = {} => doubt' \cap {"behind", "late"} # {},
           pc' # "report" => pc \in {"order", "execute"}
    PROVE  IInv'
  <1>. USE DEF IInv
  <1>1. request \in Requests /\ attempt \in Attempts BY DEF TypeOK
  <1>2. Landed(request)' = Landed(request) BY <1>1 DEF Landed
  <1>3. TypeOK' BY DEF TypeOK, Steps
  <1>4. Ahead' BY <1>1 DEF Ahead, TypeOK, Requests, Attempts
  <1>5. BeforeUnmoved' BY <1>2 DEF BeforeUnmoved
  <1>6. ReportBacked' BY <1>2 DEF ReportBacked
  <1>7. NoDoubleSwap' BY DEF NoDoubleSwap
  <1>8. NoPhantomFill' BY DEF NoPhantomFill
  <1>9. NothingUntracked' BY DEF NothingUntracked
  <1>10. Certain' BY <1>2 DEF Certain
  <1>. QED BY <1>3, <1>4, <1>5, <1>6, <1>7, <1>8, <1>9, <1>10

LEMMA CreateOrderInv == IInv /\ CreateOrder => IInv'
  <1>. SUFFICES ASSUME IInv, CreateOrder PROVE IInv' OBVIOUS
  <1>1. request \in Requests /\ attempt \in Attempts /\ chain[request][attempt] = "none"
    BY DEF IInv, TypeOK, Ahead, CreateOrder
  <1>2. /\ chain' \in [Requests -> [Attempts -> Fates]]
        /\ \A r \in Requests, a \in Attempts :
               chain'[r][a] = IF r = request /\ a = attempt THEN "made" ELSE chain[r][a]
        /\ \A r \in Requests : Landed(r)' = Landed(r)
    BY <1>1, OtherFateKeeps DEF IInv, CreateOrder
  <1>3. order' \in 0..attempt /\ doubt \subseteq Doubts
    BY <1>1 DEF IInv, TypeOK, CreateOrder, Attempts
  <1>. QED BY <1>1, <1>2, <1>3, InsideInv DEF CreateOrder

LEMMA CreateOrderFailsInv == IInv /\ CreateOrderFails => IInv'
  <1>. SUFFICES ASSUME IInv, CreateOrderFails PROVE IInv' OBVIOUS
  <1>1. /\ pc = "order" /\ chain' = chain /\ wallet' = wallet /\ node' = node
        /\ request' = request /\ order' = order /\ before' = before /\ doubt' = doubt
    BY DEF CreateOrderFails, external
  <1>2. \A r \in Requests : Landed(r)' = Landed(r) BY <1>1 DEF Landed
  <1>3. chain \in [Requests -> [Attempts -> Fates]] /\ doubt \subseteq Doubts
    BY DEF IInv, TypeOK
  <1>4. CASE order # 0
    <2>1. pc' = "reconcile" /\ attempt' = attempt /\ report' = report
      BY <1>4 DEF CreateOrderFails
    <2>2. order' \in 0..attempt BY <1>1 DEF IInv, TypeOK
    <2>. QED BY <1>1, <1>2, <1>3, <2>1, <2>2, InsideInv
  <1>5. CASE order = 0
    <2>1. GiveUpAttempt BY <1>5 DEF CreateOrderFails
    <2>2. doubt' = {} => Landed(request) = {} BY <1>1 DEF IInv, Certain
    <2>. QED BY <1>1, <1>2, <1>3, <2>1, <2>2, GiveUpInv
  <1>. QED BY <1>4, <1>5

LEMMA ExecuteRefusedInv == IInv /\ ExecuteRefused => IInv'
  <1>. SUFFICES ASSUME IInv, ExecuteRefused PROVE IInv' OBVIOUS
  <1>1. \A r \in Requests : Landed(r)' = Landed(r)
    BY DEF Landed, ExecuteRefused, external
  <1>2. /\ chain \in [Requests -> [Attempts -> Fates]] /\ doubt \subseteq Doubts
        /\ order \in 0..attempt
    BY DEF IInv, TypeOK
  <1>. QED BY <1>1, <1>2, InsideInv DEF ExecuteRefused, external

LEMMA ExecuteLostInv == IInv /\ ExecuteLost => IInv'
  <1>. SUFFICES ASSUME IInv, ExecuteLost PROVE IInv' OBVIOUS
  <1>1. request \in Requests /\ attempt \in Attempts /\ chain[request][attempt] = "made"
    BY DEF IInv, TypeOK, Ahead, ExecuteLost
  <1>2. /\ chain' \in [Requests -> [Attempts -> Fates]]
        /\ \A r \in Requests, a \in Attempts :
               chain'[r][a] = IF r = request /\ a = attempt THEN "posted" ELSE chain[r][a]
        /\ \A r \in Requests : Landed(r)' = Landed(r)
    BY <1>1, OtherFateKeeps DEF IInv, ExecuteLost
  <1>3. order \in 0..attempt /\ doubt \subseteq Doubts BY DEF IInv, TypeOK
  <1>. QED BY <1>2, <1>3, InsideInv DEF ExecuteLost

LEMMA ExecuteFailsInv == IInv /\ ExecuteFails => IInv'
  <1>. SUFFICES ASSUME IInv, ExecuteFails PROVE IInv' OBVIOUS
  <1>1. request \in Requests /\ attempt \in Attempts /\ chain[request][attempt] = "made"
    BY DEF IInv, TypeOK, Ahead, ExecuteFails
  <1>2. /\ chain' \in [Requests -> [Attempts -> Fates]]
        /\ \A r \in Requests, a \in Attempts :
               chain'[r][a] = IF r = request /\ a = attempt THEN "posted" ELSE chain[r][a]
        /\ \A r \in Requests : Landed(r)' = Landed(r)
    BY <1>1, OtherFateKeeps DEF IInv, ExecuteFails
  <1>3. doubt \subseteq Doubts BY DEF IInv, TypeOK
  <1>4. doubt' = {} => Landed(request) = {} BY DEF IInv, Certain, ExecuteFails
  <1>. QED BY <1>2, <1>3, <1>4, GiveUpInv DEF ExecuteFails

LEMMA ExecuteLandsInv ==
    ASSUME IInv, NEW shown \in BOOLEAN, NEW answered \in BOOLEAN,
           ExecuteLands(shown, answered)
    PROVE  IInv'
  <1>. USE DEF IInv
  <1>1. /\ pc = "execute" /\ Lands(request, attempt, shown)
        /\ pc' \in {"report", "reconcile"}
        /\ request' = request /\ attempt' = attempt /\ order' = order
        /\ before' = before /\ report' = report /\ doubt' = doubt
    BY DEF ExecuteLands
  <1>2. request \in Requests /\ attempt \in Attempts BY <1>1 DEF TypeOK
  <1>3. /\ chain' \in [Requests -> [Attempts -> Fates]]
        /\ \A r \in Requests, a \in Attempts :
               (r # request \/ a # attempt) => chain'[r][a] = chain[r][a]
        /\ \A r \in Requests :
               Landed(r)' = IF r = request THEN Landed(r) \cup {attempt} ELSE Landed(r)
        /\ wallet' = wallet - 1 /\ wallet' \in Nat /\ node' \in Nat /\ wallet' <= node'
    BY <1>1, <1>2, LandingAdds
  <1>4. Landed(request)' = Landed(request) \cup {attempt} BY <1>1, <1>2, <1>3 DEF Landed
  <1>5. doubt = {} => Landed(request) = {} /\ before # None /\ before = wallet
    BY <1>1 DEF Certain, BeforeUnmoved
  <1>6. TypeOK' BY <1>1, <1>2, <1>3 DEF TypeOK, Steps
  <1>7. Ahead'
    <2>1. \A r \in Requests : r > request => r # request BY <1>2 DEF Requests
    <2>2. \A a \in Attempts : a > attempt => a # attempt BY <1>2 DEF Attempts
    <2>. QED BY <1>1, <1>2, <1>3, <2>1, <2>2 DEF Ahead
  <1>8. BeforeUnmoved' /\ ReportBacked' BY <1>4 DEF BeforeUnmoved, ReportBacked
  <1>9. Certain'
    <2>1. doubt = {} => before = wallet' + 1 BY <1>3, <1>5 DEF TypeOK
    <2>. QED BY <1>1, <1>4, <1>5, <2>1 DEF Certain
  <1>10. NoDoubleSwap' BY <1>1, <1>3, <1>5 DEF NoDoubleSwap
  <1>11. NoPhantomFill' BY <1>1, <1>3 DEF NoPhantomFill
  <1>12. NothingUntracked'
    BY <1>1, <1>2, <1>3, SwapAssumption DEF NothingUntracked, Ahead
  <1>. QED BY <1>6, <1>7, <1>8, <1>9, <1>10, <1>11, <1>12

LEMMA ReconcileInv ==
    ASSUME IInv, NEW balance \in {node, None}, Reconcile(balance)
    PROVE  IInv'
  <1>1. /\ pc = "reconcile" /\ chain' = chain /\ wallet' = wallet /\ node' = node
        /\ request' = request /\ order' = order /\ before' = before
    BY DEF Reconcile, external
  <1>2. \A r \in Requests : Landed(r)' = Landed(r) BY <1>1 DEF Landed
  <1>3. /\ chain \in [Requests -> [Attempts -> Fates]] /\ doubt \subseteq Doubts
        /\ order \in 0..attempt /\ wallet \in Nat
    BY DEF IInv, TypeOK
  <1>4. \/ before = None /\ balance = None /\ doubt' = doubt
        \/ /\ before # None
           /\ doubt' = doubt \cup (IF balance = None THEN {"unread"} ELSE {})
                             \cup (IF balance # None /\ node # wallet THEN {"behind"} ELSE {})
    BY DEF Reconcile, Read
  <1>5. doubt' \subseteq Doubts /\ doubt \subseteq doubt' BY <1>3, <1>4 DEF Doubts
  <1>6. CASE Consumed(before, balance)
    <2>1. pc' = "report" /\ attempt' = attempt /\ report' = report
      BY <1>6 DEF Reconcile
    <2>2. Landed(request) = {} => doubt' \cap {"behind", "late"} # {}
      <3>. SUFFICES ASSUME Landed(request) = {}, doubt' \cap {"behind", "late"} = {}
                    PROVE  FALSE
        OBVIOUS
      <3>1. before # None /\ balance # None BY <1>6 DEF Consumed
      <3>2. balance = wallet BY <1>4, <3>1
      <3>3. before = wallet BY <1>1, <1>5, <3>1 DEF IInv, BeforeUnmoved
      <3>. QED BY <1>3, <1>6, <3>2, <3>3 DEF Consumed
    <2>. QED BY <1>1, <1>2, <1>3, <1>5, <2>1, <2>2, InsideInv
  <1>7. CASE ~Consumed(before, balance)
    <2>1. GiveUpAttempt BY <1>7 DEF Reconcile
    <2>2. doubt' = {} => Landed(request) = {}
      <3>. SUFFICES ASSUME doubt' = {}, Landed(request) # {} PROVE FALSE OBVIOUS
      <3>1. before # None /\ before = wallet + 1 BY <1>1, <1>5 DEF IInv, Certain
      <3>2. balance # None /\ balance = wallet BY <1>4, <3>1
      <3>. QED BY <1>3, <1>7, <3>1, <3>2 DEF Consumed
    <2>. QED BY <1>1, <1>2, <1>3, <1>5, <2>1, <2>2, GiveUpInv
  <1>. QED BY <1>6, <1>7

LEMMA ReturnInv ==
    ASSUME IInv, NEW outcome \in {"fill", "raised"}, Return(outcome)
    PROVE  IInv'
  <1>. USE DEF IInv
  <1>1. /\ pc = "report" /\ report' = [report EXCEPT ![request] = outcome] /\ pc' = "idle"
        /\ chain' = chain /\ wallet' = wallet /\ node' = node /\ request' = request
        /\ attempt' = attempt /\ order' = order /\ before' = before /\ doubt' = doubt
    BY DEF Return, external
  <1>2. request \in Requests BY <1>1 DEF TypeOK
  <1>3. \A r \in Requests : /\ Landed(r)' = Landed(r)
                            /\ report'[r] = IF r = request THEN outcome ELSE report[r]
    BY <1>1, <1>2 DEF Landed, TypeOK
  <1>4. TypeOK' BY <1>1, <1>2 DEF TypeOK, Steps
  <1>5. Ahead'
    <2>1. \A r \in Requests : r > request => r # request BY <1>2 DEF Requests
    <2>. QED BY <1>1, <1>3, <2>1 DEF Ahead
  <1>6. BeforeUnmoved' /\ ReportBacked' /\ Certain'
    BY <1>1 DEF BeforeUnmoved, ReportBacked, Certain
  <1>7. NoDoubleSwap' BY <1>1, <1>3 DEF NoDoubleSwap
  <1>8. NoPhantomFill' BY <1>1, <1>2, <1>3 DEF NoPhantomFill, ReportBacked
  <1>9. NothingUntracked' BY <1>1, <1>3 DEF NothingUntracked
  <1>. QED BY <1>4, <1>5, <1>6, <1>7, <1>8, <1>9

-----------------------------------------------------------------------------
(***************************************************************************)
(* The theorems                                                            *)
(***************************************************************************)

\* The inductive invariant holds in every behaviour of perform_swap.
THEOREM Invariance == Spec => []IInv
  <1>1. Init => IInv BY InitInv
  <1>2. IInv /\ [Next]_vars => IInv'
    <2>. SUFFICES ASSUME IInv, [Next]_vars PROVE IInv' OBVIOUS
    <2>1. ASSUME NEW r \in Requests, NEW a \in Attempts, NEW shown \in BOOLEAN,
                 LandsLate(r, a, shown)
          PROVE  IInv'
      BY <2>1, LandsLateInv
    <2>2. CASE NodeCatchesUp BY <2>2, NodeCatchesUpInv
    <2>3. ASSUME NEW balance \in {node, None}, Begin(balance) PROVE IInv'
      BY <2>3, BeginInv
    <2>4. ASSUME NEW balance \in {node, None}, Reconcile(balance) PROVE IInv'
      BY <2>4, ReconcileInv
    <2>5. CASE CreateOrder BY <2>5, CreateOrderInv
    <2>6. CASE CreateOrderFails BY <2>6, CreateOrderFailsInv
    <2>7. CASE ExecuteRefused BY <2>7, ExecuteRefusedInv
    <2>8. CASE ExecuteLost BY <2>8, ExecuteLostInv
    <2>9. CASE ExecuteFails BY <2>9, ExecuteFailsInv
    <2>10. ASSUME NEW shown \in BOOLEAN, NEW answered \in BOOLEAN,
                  ExecuteLands(shown, answered)
           PROVE  IInv'
      BY <2>10, ExecuteLandsInv
    <2>11. ASSUME NEW outcome \in {"fill", "raised"}, Return(outcome) PROVE IInv'
      BY <2>11, ReturnInv
    <2>12. CASE UNCHANGED vars
      BY <2>12 DEF vars, IInv, TypeOK, Ahead, BeforeUnmoved, ReportBacked, Certain,
                   NoDoubleSwap, NoPhantomFill, NothingUntracked, Landed
    <2>. QED
      BY <2>1, <2>2, <2>3, <2>4, <2>5, <2>6, <2>7, <2>8, <2>9, <2>10, <2>11, <2>12
      DEF Next
  <1>. QED BY <1>1, <1>2, PTL DEF Spec

\* Wallet, orders and reports keep their types for any number of requests.
THEOREM SwapTypeCorrect == Spec => []TypeOK
  <1>. IInv => TypeOK BY DEF IInv
  <1>. QED BY Invariance, PTL

\* With right balances and no late landing, perform_swap never trades a request
\* twice, however many answers are lost.
THEOREM TradesOnce == Spec => []NoDoubleSwap
  <1>. IInv => NoDoubleSwap BY DEF IInv
  <1>. QED BY Invariance, PTL

\* A fill that perform_swap reports is backed by a swap that landed, unless a
\* balance was behind or an order landed late.
THEOREM FillsAreBacked == Spec => []NoPhantomFill
  <1>. IInv => NoPhantomFill BY DEF IInv
  <1>. QED BY Invariance, PTL

\* Without doubts, what perform_swap reports as failed has moved nothing.
THEOREM FailureMovesNothing == Spec => []NothingUntracked
  <1>. IInv => NothingUntracked BY DEF IInv
  <1>. QED BY Invariance, PTL

=============================================================================
