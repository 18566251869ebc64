----------------------------- MODULE Lifecycle -----------------------------
(***************************************************************************)
(* What the promotion pipeline promises, each operation in one step: a     *)
(* candidate walks the diagram, config.json trades exactly what the        *)
(* pipeline put live (and what a human put there), and no token is taken   *)
(* out while a position in it is open.                                     *)
(*                                                                         *)
(* Nothing locks the stores, so the promise is made for the symbols on     *)
(* which no process acted on something that had changed since it was read, *)
(* nor died half way: `disturbed` collects the others, for good.           *)
(***************************************************************************)
EXTENDS Diagram

VARIABLES
    state,      \* of each candidate
    reopened,   \* candidates re-opened after a rejection
    tokens,     \* the traded symbols in config.json
    held,       \* symbols with an open position
    disturbed   \* symbols no promise is made for any more

lvars == <<state, reopened, tokens, held, disturbed>>

IsManaged(s) == \E c \in On(s) : state[c] \in Managed

Unmoved(S) == \A c \in S : state'[c] = state[c] /\ (c \in reopened' <=> c \in reopened)
SameToken(s) == s \in tokens' <=> s \in tokens
SameHolding(s) == s \in held' <=> s \in held

-----------------------------------------------------------------------------
\* A move beside the traded set; a rejected hash comes back once.
Walk(s, c) ==
    /\ <<state[c], state'[c]>> \in Walks
    /\ IF state[c] = "rejected" THEN c \notin reopened /\ c \in reopened'
       ELSE c \in reopened' <=> c \in reopened
    /\ Unmoved(On(s) \ {c}) /\ SameToken(s) /\ SameHolding(s)

\* A candidate goes live: its symbol was free and is traded from now on.
GoLive(s, c) ==
    /\ state[c] = "paper" /\ state'[c] = "live" /\ (c \in reopened' <=> c \in reopened)
    /\ s \notin tokens /\ s \in tokens'
    /\ Unmoved(On(s) \ {c}) /\ SameHolding(s)

\* A managed candidate leaves, flat, and its symbol with it.
Leave(s, c) ==
    /\ state[c] \in Managed /\ state'[c] = "demoted" /\ (c \in reopened' <=> c \in reopened)
    /\ s \notin tokens' /\ s \notin held
    /\ Unmoved(On(s) \ {c}) /\ SameHolding(s)

\* A human adds or removes a symbol that is neither managed nor held.
HandEdit(s) ==
    /\ ~IsManaged(s) /\ s \notin held
    /\ Unmoved(On(s)) /\ SameHolding(s)

\* The bot buys traded symbols only; it sells what it holds.
Trade(s) ==
    /\ s \in held' => s \in tokens
    /\ Unmoved(On(s)) /\ SameToken(s)

Init ==
    /\ state \in [Candidates -> States] /\ reopened \subseteq Candidates
    /\ tokens \subseteq Symbols /\ held \subseteq tokens /\ disturbed = {}
    /\ \A s \in Symbols : IsManaged(s) => s \in tokens
    /\ \A c, d \in Candidates : /\ SymbolOf[c] = SymbolOf[d]
                                /\ state[c] \in Managed /\ state[d] \in Managed
                                => c = d

Promised(s) == HandEdit(s) \/ Trade(s) \/ \E c \in On(s) : Walk(s, c) \/ GoLive(s, c) \/ Leave(s, c)

Next ==
    /\ state' \in [Candidates -> States] /\ reopened' \subseteq Candidates
    /\ tokens' \subseteq Symbols /\ held' \subseteq Symbols
    /\ disturbed' \subseteq Symbols /\ disturbed \subseteq disturbed'
    /\ \A s \in Symbols \ disturbed' : Promised(s)

Spec == Init /\ [][Next]_lvars

-----------------------------------------------------------------------------
\* What trades is in the config: every managed candidate's symbol, and every
\* symbol with an open position (_to_live, finish_demotion, demote).
InStep == \A s \in Symbols \ disturbed : IsManaged(s) \/ s \in held => s \in tokens

\* At most one candidate of a symbol is managed at a time (_live_slot_problems,
\* _add_token).
OnePerSymbol ==
    \A c, d \in Candidates :
        /\ SymbolOf[c] = SymbolOf[d] /\ SymbolOf[c] \notin disturbed
        /\ state[c] \in Managed /\ state[d] \in Managed
        => c = d

=============================================================================
