---------------------------- MODULE AlpacaBroker ----------------------------
(***************************************************************************)
(* The broker at the other end of class AlpacaBroker (broker.py): what its *)
(* requests do to the orders and shares the service keeps.  The service is *)
(* external; it is modelled from how the client uses it.  A request may be *)
(* refused, and the reply to one that was carried out may be lost; to the  *)
(* client both are an exception.  An accepted market order fills later,    *)
(* in one part or in several.                                              *)
(***************************************************************************)
EXTENDS Integers, Sequences, FiniteSets, SequencesExt

CONSTANTS
    Symbols,  \* the tickers the account may hold
    Clients   \* the programs that share the account

ASSUME ServiceAssumption == IsFiniteSet(Symbols)

VARIABLES
    orders,   \* every order accepted: [client, symbol, side, quantity, filled, status]
    shares    \* the shares of every symbol, below 0 when short

serviceVars == <<orders, shares>>

ServiceInit == orders = <<>> /\ shares = [s \in Symbols |-> 0]

\* GET /v2/positions: the symbols held, long or short, with their quantity.
OpenPositions == { s \in Symbols : shares[s] # 0 }
PositionsReply == [s \in OpenPositions |-> shares[s]]

Pending == { i \in DOMAIN orders : orders[i].status = "new" }

\* POST /v2/orders, accepted: the order's id is its place in `orders`.
Accept(client, symbol, side, quantity) ==
    /\ orders' = Append(orders, [client |-> client, symbol |-> symbol, side |-> side,
                                 quantity |-> quantity, filled |-> 0, status |-> "new"])
    /\ UNCHANGED shares

Unfilled(i) == orders[i].quantity - orders[i].filled

\* The market fills n shares of an order, which stays open until it has all.
Fill(i, n) ==
    /\ i \in Pending /\ n \in 1 .. Unfilled(i)
    /\ orders' = [orders EXCEPT ![i].filled = @ + n,
                                ![i].status = IF n = Unfilled(i) THEN "filled" ELSE @]
    /\ shares' = [shares EXCEPT ![orders[i].symbol] =
                      IF orders[i].side = "buy" THEN @ + n ELSE @ - n]

\* A "day" order ends, or DELETE /v2/orders/{id} cancels it, with what was
\* filled of it so far.
Cancel(i) ==
    /\ i \in Pending
    /\ orders' = [orders EXCEPT ![i].status = "canceled"]
    /\ UNCHANGED shares
=============================================================================
