----------------------------- MODULE FutuSnapshot -----------------------------
(***************************************************************************)
(* GET /portfolio/snapshot (apps/agent_futu/futu/main.py, aggregator.py):    *)
(* the accounts of every OpenD are listed and their positions asked for, one *)
(* call after the other, and added up to one portfolio.                      *)
(*                                                                          *)
(* The handler awaits nothing, so there is one snapshot at a time; the       *)
(* owner's money goes on moving meanwhile.  Each OpenD is external: a call   *)
(* returns its data, or a code that tells a failure, or it raises.  Amounts  *)
(* are whole numbers of an account's currency, negative where the account    *)
(* owes cash or is short of its one stock.  The audit rows of the calls are  *)
(* in LedgerCallers.                                                         *)
(***************************************************************************)
EXTENDS Integers, FiniteSets, FiniteSetsExt

CONSTANTS
    OpenDs,      \* the endpoints, in the order of the clients: 1..n
    Accounts,
    At,          \* the endpoint of each account
    Dollars,     \* what a unit of the account's currency is worth, in the least of them
    DollarUnit,  \* the same of the dollar
    Venue,       \* where the account's stock is listed: "HK" or "US"
    Purses,      \* the cash and stock an account may start with
    MaxMoves     \* bound: transfers and trades

ASSUME SnapshotAssumption ==
    /\ IsFiniteSet(Accounts) /\ IsFiniteSet(OpenDs) /\ OpenDs = 1..Cardinality(OpenDs)
    /\ At \in [Accounts -> OpenDs] /\ Dollars \in [Accounts -> Nat]
    /\ DollarUnit \in Nat /\ Purses \subseteq [cash : Int, stock : Int]
    /\ MaxMoves \in Nat

VARIABLES
    purse,     \* the world: cash and stock of each account
    request,   \* how far it is
    turn,      \* the client whose turn it is
    unasked,   \* its accounts whose positions are still to be asked for
    listed,    \* what get_acc_list has told of each account: its net value
    shown,     \* the accounts of the snapshot
    leftOut,   \* history: endpoints whose list failed
    torn,      \* history: money crossed from an endpoint that was listed to one that was
               \* not, or back
    moves

snapVars == <<purse, request, turn, unasked, listed, shown, leftOut, torn, moves>>

Net(a) == purse[a].cash + purse[a].stock
AccountsAt(d) == {a \in Accounts : At[a] = d}
ClientsOf(autostart) == IF autostart THEN OpenDs ELSE {}

SnapInit ==
    /\ purse \in [Accounts -> Purses]
    /\ request = "idle" /\ turn = 1 /\ unasked = {} /\ listed = [a \in Accounts |-> 0]
    /\ shown = {} /\ leftOut = {} /\ torn = FALSE /\ moves = 0

\* 503 while the flag is off or no client was wired at startup.
AskSnapshot ==
    /\ request = "idle"
    /\ \E enabled \in BOOLEAN, autostart \in BOOLEAN :
         request' = IF enabled /\ ClientsOf(autostart) # {} THEN "listing" ELSE "refused"
    /\ UNCHANGED <<purse, turn, unasked, listed, shown, leftOut, torn, moves>>

\* get_acc_list: an endpoint whose list fails is passed over.
ListAccounts ==
    /\ request = "listing" /\ turn \in OpenDs
    /\ \/ /\ request' = "asking"
          /\ unasked' = AccountsAt(turn)
          /\ listed' = [a \in Accounts |-> IF At[a] = turn THEN Net(a) ELSE listed[a]]
          /\ UNCHANGED <<turn, leftOut>>
       \/ /\ turn' = turn + 1
          /\ leftOut' = leftOut \cup {turn}
          /\ UNCHANGED <<request, unasked, listed>>
    /\ UNCHANGED <<purse, shown, torn, moves>>

\* _market_from_positions: without a position it is guessed from the currency.
Market(a, stock) ==
    IF stock = 0 THEN IF Dollars[a] = DollarUnit THEN "FUND" ELSE "FX" ELSE Venue[a]

Entry(a, stock) == [account |-> a, nav |-> listed[a], stock |-> stock, market |-> Market(a, stock)]

\* Faulty variant: an account whose positions cannot be had is dropped.
Unpriced_Dropped(a) == {}

\* The account whose positions cannot be had is shown with its net value and without them.
Unpriced(a) == {Entry(a, 0)}

\* position_list_query of the next account.
AskPositions ==
    /\ request = "asking" /\ unasked # {}
    /\ \E a \in unasked :
         /\ unasked' = unasked \ {a}
         /\ \/ shown' = shown \cup {Entry(a, purse[a].stock)}
            \/ shown' = shown \cup Unpriced(a)
    /\ UNCHANGED <<purse, request, turn, listed, leftOut, torn, moves>>

NextClient ==
    /\ request = "asking" /\ unasked = {}
    /\ request' = "listing" /\ turn' = turn + 1
    /\ UNCHANGED <<purse, unasked, listed, shown, leftOut, torn, moves>>

\* One call that raises fails the whole request.
OneRaises ==
    /\ (request = "listing" /\ turn \in OpenDs) \/ (request = "asking" /\ unasked # {})
    /\ request' = "failed"
    /\ UNCHANGED <<purse, turn, unasked, listed, shown, leftOut, torn, moves>>

Returns ==
    /\ request = "listing" /\ turn \notin OpenDs
    /\ request' = "returned"
    /\ UNCHANGED <<purse, turn, unasked, listed, shown, leftOut, torn, moves>>

\* The aggregate, which says of itself that it is in dollars, and the value of the largest
\* position on either side of the market; what is told of it is its share of the total, a
\* hundred per cent at the most, and nothing where the total is not positive.
TotalNav == FoldSet(LAMBDA e, n : e.nav + n, 0, shown)
Size(e) == IF e.stock < 0 THEN -e.stock ELSE e.stock
LargestPosition == Max({0} \cup {Size(e) : e \in shown})

-----------------------------------------------------------------------------
(* The owner.                                                              *)

UnderWay == request \in {"listing", "asking"}
HasListed(d) == d < turn \/ (d = turn /\ request = "asking")

\* Cash that is there moves between two accounts of a currency.
Transfer(a, b) ==
    /\ UnderWay /\ moves < MaxMoves /\ a # b /\ Dollars[a] = Dollars[b] /\ purse[a].cash > 0
    /\ purse' = [purse EXCEPT ![a].cash = @ - 1, ![b].cash = @ + 1]
    /\ moves' = moves + 1
    /\ torn' = (torn \/ HasListed(At[a]) # HasListed(At[b]))
    /\ UNCHANGED <<request, turn, unasked, listed, shown, leftOut>>

\* Stock is bought, on margin too, or sold, short too.
Trade(a) ==
    /\ UnderWay /\ moves < MaxMoves
    /\ \/ purse' = [purse EXCEPT ![a].cash = @ - 1, ![a].stock = @ + 1]
       \/ purse' = [purse EXCEPT ![a].cash = @ + 1, ![a].stock = @ - 1]
    /\ moves' = moves + 1
    /\ UNCHANGED <<request, turn, unasked, listed, shown, leftOut, torn>>

SnapNext ==
    \/ AskSnapshot \/ ListAccounts \/ AskPositions \/ NextClient \/ OneRaises \/ Returns
    \/ \E a \in Accounts : Trade(a) \/ (\E b \in Accounts : Transfer(a, b))

SnapSpec == SnapInit /\ [][SnapNext]_snapVars

-----------------------------------------------------------------------------
(* Properties.                                                             *)

Wealth(set) == FoldSet(LAMBDA a, n : Net(a) * Dollars[a] + n, 0, set)

(* The total that is returned is what the owner has in dollars, however the    *)
(* money moved between accounts and into stocks while it was being added up,   *)
(* and whichever positions could not be had, unless an endpoint was silently   *)
(* passed over, or money crossed between two endpoints of which one had been   *)
(* listed, or an account of another currency was added as if it were dollars   *)
(* (aggregator.py:33, :67, :71-77).                                            *)
TotalIsWealth ==
    request = "returned" =>
        \/ TotalNav * DollarUnit = Wealth(Accounts)
        \/ leftOut # {} \/ torn
        \/ \E e \in shown : Dollars[e.account] # DollarUnit /\ e.nav # 0

Indebted == \E a \in Accounts : purse[a].cash < 0 \/ purse[a].stock < 0

(* A position of more than the whole total, which the cap of a hundred per     *)
(* cent or the zero of an empty total hides, means that an account owes cash   *)
(* or stock, or that money moved while the snapshot was taken: never that      *)
(* accounts were mixed up, left out or added twice (aggregator.py:103-112).    *)
CapHidesDebtOrMove == LargestPosition > TotalNav => moves > 0 \/ Indebted

SnapshotTells == TotalIsWealth /\ CapHidesDebtOrMove
=============================================================================
