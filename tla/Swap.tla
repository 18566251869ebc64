-------------------------------- MODULE Swap --------------------------------
(***************************************************************************)
(* transactions.perform_swap: one request of the bot is one to three       *)
(* attempts, each an order that Jupiter makes and, once signed and posted, *)
(* may land on chain and move the wallet's funds.  The answer to the post  *)
(* may say so, say the opposite, or get lost; after a lost answer the      *)
(* wallet's balance is read again to find out.                             *)
(*                                                                         *)
(* The chain and the RPC node are external: a posted order lands at any    *)
(* later moment or never, and the node may show a balance that is behind   *)
(* the chain's.  Every request sends one unit of the same token.           *)
(***************************************************************************)
EXTENDS Integers

CONSTANTS
    MaxRequests,  \* bound on the swaps the bot asks for
    MaxAttempts,  \* range(3) in perform_swap
    Funds,        \* units of the token in the wallet at first
    None

ASSUME SwapAssumption ==
    /\ MaxRequests \in Nat /\ MaxAttempts \in Nat \ {0} /\ Funds \in Nat
    /\ None \notin Nat \cup {"none", "fill", "raised"}

Requests == 1..MaxRequests
Attempts == 1..MaxAttempts

VARIABLES
    chain,    \* what became of each attempt's order
    wallet,   \* units of the token in the wallet, on chain
    node,     \* the balance the RPC node shows
    request,  \* the request in hand, or the last one
    attempt,  \* its attempt in hand
    order,    \* the attempt whose order perform_swap holds, 0 if none
    before,   \* balance_before, None when it could not be read
    pc,       \* the request's next step
    report    \* what each request returned

VARIABLE doubt  \* history: what was uncertain so far

vars == <<chain, wallet, node, request, attempt, order, before, pc, report, doubt>>
external == <<chain, wallet, node>>

Steps == {"idle", "order", "execute", "reconcile", "report"}
Fates == {"none", "made", "posted", "landed"}

\* "unread": a balance could not be read.  "behind": a balance read was not the
\* chain's.  "late": an order landed after its attempt was given up.
Doubts == {"unread", "behind", "late"}

Landed(r) == {a \in Attempts : chain[r][a] = "landed"}

Init ==
    /\ chain = [r \in Requests |-> [a \in Attempts |-> "none"]]
    /\ wallet = Funds /\ node = Funds
    /\ request = 0 /\ attempt = 0 /\ order = 0 /\ before = None
    /\ pc = "idle"
    /\ report = [r \in Requests |-> None]
    /\ doubt = {}

-----------------------------------------------------------------------------
(***************************************************************************)
(* The chain and the node                                                  *)
(***************************************************************************)

\* The order lands, if the wallet can pay; the node shows it at once or not.
Lands(r, a, shown) ==
    /\ wallet > 0
    /\ chain' = [chain EXCEPT ![r][a] = "landed"]
    /\ wallet' = wallet - 1
    /\ node' = IF shown THEN wallet' ELSE node

\* An order whose answer was lost is still waited for until the balance is
\* read; any other posted order was given up.
Awaited(r, a) == r = request /\ a = attempt /\ pc = "reconcile"

LandsLate(r, a, shown) ==
    /\ chain[r][a] = "posted"
    /\ Lands(r, a, shown)
    /\ doubt' = IF Awaited(r, a) THEN doubt ELSE doubt \cup {"late"}
    /\ UNCHANGED <<request, attempt, order, before, pc, report>>

NodeCatchesUp ==
    /\ node # wallet
    /\ node' = wallet
    /\ UNCHANGED <<chain, wallet, request, attempt, order, before, pc, report, doubt>>

-----------------------------------------------------------------------------
(***************************************************************************)
(* perform_swap                                                            *)
(***************************************************************************)

\* _input_balance: the node's balance, or None on an error.
Read(balance) ==
    /\ balance \in {node, None}
    /\ doubt' = doubt \cup (IF balance = None THEN {"unread"} ELSE {})
                      \cup (IF balance # None /\ node # wallet THEN {"behind"} ELSE {})

Begin(balance) ==
    /\ pc = "idle" /\ request < MaxRequests
    /\ Read(balance)
    /\ before' = balance
    /\ request' = request + 1 /\ attempt' = 1 /\ order' = 0
    /\ pc' = "order"
    /\ UNCHANGED <<external, report>>

\* The attempt is over; after the last one the request returns None.
LastForgotten(a) == FALSE
Last(a) == a = MaxAttempts
GiveUpAttempt ==
    IF Last(attempt)
    THEN /\ report' = [report EXCEPT ![request] = "none"]
         /\ pc' = "idle" /\ UNCHANGED attempt
    ELSE /\ attempt' = attempt + 1
         /\ pc' = "order" /\ UNCHANGED report

\* create_order, over both slippage settings.
CreateOrder ==
    /\ pc = "order"
    /\ chain' = [chain EXCEPT ![request][attempt] = "made"]
    /\ order' = attempt
    /\ pc' = "execute"
    /\ UNCHANGED <<wallet, node, request, attempt, before, report, doubt>>

\* It raises: with an order of an earlier attempt at hand the balance is
\* consulted all the same.
CreateOrderFails ==
    /\ pc = "order"
    /\ IF order # 0
       THEN pc' = "reconcile" /\ UNCHANGED <<attempt, report>>
       ELSE GiveUpAttempt
    /\ UNCHANGED <<external, request, order, before, doubt>>

\* execute_order: the order is refused before it is posted.
ExecuteRefused ==
    /\ pc = "execute"
    /\ pc' = "reconcile"
    /\ UNCHANGED <<external, request, attempt, order, before, report, doubt>>

\* It lands, and the answer says Success or is lost.
ExecuteLands(shown, answered) ==
    /\ pc = "execute"
    /\ Lands(request, attempt, shown)
    /\ pc' = IF answered THEN "report" ELSE "reconcile"
    /\ UNCHANGED <<request, attempt, order, before, report, doubt>>

\* It has not landed yet, and the answer is lost.
ExecuteLost ==
    /\ pc = "execute"
    /\ chain' = [chain EXCEPT ![request][attempt] = "posted"]
    /\ pc' = "reconcile"
    /\ UNCHANGED <<wallet, node, request, attempt, order, before, report, doubt>>

\* The answer is not Success: it is retried without a look at the balance.
ExecuteFails ==
    /\ pc = "execute"
    /\ chain' = [chain EXCEPT ![request][attempt] = "posted"]
    /\ GiveUpAttempt
    /\ UNCHANGED <<wallet, node, request, order, before, doubt>>

\* _swap_consumed: the balance dropped by the order's size.
NeverConsumed(then, now) == FALSE
ConsumedByNothing(then, now) == then # None /\ now # None /\ then - now >= 0
Consumed(then, now) == then # None /\ now # None /\ then - now >= 1

\* Without a balance from before, the balance is not read again.
Reconcile(balance) ==
    /\ pc = "reconcile"
    /\ IF before = None THEN balance = None /\ UNCHANGED doubt ELSE Read(balance)
    /\ IF Consumed(before, balance)
       THEN pc' = "report" /\ UNCHANGED <<attempt, report>>
       ELSE GiveUpAttempt
    /\ UNCHANGED <<external, request, order, before>>

\* The fill is returned, or looking up the output token's decimals raises.
Return(outcome) ==
    /\ pc = "report"
    /\ outcome \in {"fill", "raised"}
    /\ report' = [report EXCEPT ![request] = outcome]
    /\ pc' = "idle"
    /\ UNCHANGED <<external, request, attempt, order, before, doubt>>

Next ==
    \/ \E r \in Requests, a \in Attempts, shown \in BOOLEAN : LandsLate(r, a, shown)
    \/ NodeCatchesUp
    \/ \E balance \in {node, None} : Begin(balance) \/ Reconcile(balance)
    \/ CreateOrder \/ CreateOrderFails \/ ExecuteRefused \/ ExecuteLost \/ ExecuteFails
    \/ \E shown \in BOOLEAN, answered \in BOOLEAN : ExecuteLands(shown, answered)
    \/ \E outcome \in {"fill", "raised"} : Return(outcome)

Spec == Init /\ [][Next]_vars

-----------------------------------------------------------------------------
(***************************************************************************)
(* Properties                                                              *)
(***************************************************************************)

\* Types; the attempt in hand is one of the request's, and every unit that left
\* the wallet is an order that landed.
TypeOK ==
    /\ chain \in [Requests -> [Attempts -> Fates]]
    /\ wallet \in Nat /\ node \in Nat /\ wallet <= node
    /\ request \in 0..MaxRequests /\ attempt \in 0..MaxAttempts /\ order \in 0..attempt
    /\ before \in Nat \cup {None}
    /\ pc \in Steps
    /\ pc # "idle" => request \in Requests /\ attempt \in Attempts
    /\ report \in [Requests -> {None, "none", "fill", "raised"}]
    /\ doubt \subseteq Doubts

\* A request swaps twice only if a balance could not be read, the node was
\* behind, or an order landed after it had been given up: a lost answer alone
\* never makes it trade again.
NoDoubleSwap ==
    \A r \in Requests : \A a, b \in Landed(r) : a # b => doubt # {}

\* A fill is reported of a swap that landed, unless the balance that showed it
\* was behind, or dropped by an order given up before: neither lost answers nor
\* failing reads make the bot track tokens it did not get.
NoPhantomFill ==
    \A r \in Requests : report[r] = "fill" /\ Landed(r) = {} => doubt \cap {"behind", "late"} # {}

\* Without such doubts a request that returned None swapped nothing, so nothing
\* it bought or sold is untracked, also while the next requests run.
NothingUntracked ==
    doubt = {} => \A r \in Requests : report[r] = "none" => Landed(r) = {}

\* "Sample the input balance so a lost/failed execute response can be
\* reconciled against the wallet instead of blindly retrying (which could
\* double-trade a landed swap)" (sol_trade/transactions.py).
NeverDoubleTrades ==
    \A r \in Requests : \A a, b \in Landed(r) : a = b

=============================================================================
