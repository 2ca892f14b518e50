------------------------------- MODULE Market -------------------------------
(***************************************************************************)
(* A ledger with two accounts that trade, and what the client shows of it: *)
(* the current order book and the trades of the trade page.  The ledger    *)
(* and the metadata of its transactions are the server's, modelled from    *)
(* how the client reads them.  The client hears of a transaction at once,  *)
(* and a subscription ends with a snapshot of that moment: what may come   *)
(* in between, and refusals, are Trading's.                                *)
(***************************************************************************)
EXTENDS CurrencyPairs, Metadata

CONSTANTS
  Peer,          \* the other account
  Str,           \* STR, among the currencies
  Orders,        \* the offers that are made: [gets, pays]
  Balance0,      \* [account -> [currency -> amount]] to begin with
  Offers0,       \* the offers in the ledger to begin with
  Trusted,       \* the trust lines, <<account, currency>>, with a limit: never deleted
  MaxTx          \* bound on the transactions

Account == {Me, Peer}
Fee == 1

(* Amounts of two currencies, neither of them nothing. *)
Offered ==
  LET amount == [cur : Currency, value : Nat \ {0}]
  IN  {o \in [gets : amount, pays : amount] : o.gets.cur # o.pays.cur}

ASSUME MarketAssumption ==
  /\ Me # Peer /\ High \subseteq Account
  /\ IsFiniteSet(Currency) /\ Str \in Currency /\ Code[Str] = StrCode
  /\ Trusted \subseteq Account \X (Currency \ {Str})
  /\ MaxTx \in Nat /\ Orders \subseteq Offered
  /\ Balance0 \in [Account -> [Currency -> Nat]]
  /\ IsFiniteSet(Offers0)
  /\ \A o \in Offers0 :
       /\ o = [account |-> o.account, sequence |-> o.sequence, gets |-> o.gets, pays |-> o.pays]
       /\ o.account \in Account /\ [gets |-> o.gets, pays |-> o.pays] \in Offered
       /\ o.sequence \in 1..Cardinality({x \in Offers0 : x.account = o.account})
       /\ \A x \in Offers0 : OfferAt(x) = OfferAt(o) => x = o

VARIABLES
  balance,       \* [account -> [currency -> amount]]
  lines,         \* the trust lines there are
  offers,        \* the offers in the ledger
  sequence,      \* [account -> transactions it has sent]
  order,         \* the offer the client has submitted, or NoOrder
  book,          \* [bids, asks]: currentOffers of the current order book once it came
  last           \* the last transaction, with its outcome for the account

ledgerVars == <<balance, lines, offers, sequence>>
marketVars == <<pairVars, ledgerVars, order, book, last>>

NoOrder == [gets |-> NoPair, pays |-> NoPair]
NoTx == [type |-> "none"]
NoBook == [bids |-> <<>>, asks |-> <<>>]

Sent == sequence[Me] + sequence[Peer] - Cardinality(Offers0)

-----------------------------------------------------------------------------
(* What a transaction changes: balances, offers put or replaced, offers     *)
(* that go.  "gone" holds them as they end.                                 *)
Pay(bal, a, c, n) == [bal EXCEPT ![a][c] = @ + n]

AmountsOf(o) == [gets |-> o.gets, pays |-> o.pays]

(* The nodes are offers, accounts and lines.  An account is touched when it *)
(* sends, is paid in STR or has a line or an offer more or less.            *)
OfferNode(o, diff, was) ==
  [entry |-> "Offer", diff |-> diff, account |-> o.account, sequence |-> o.sequence,
   prev |-> AmountsOf(was), final |-> AmountsOf(o)]

OfferNodes(put, gone) ==
  LET was(o) == CHOOSE x \in offers : OfferAt(x) = OfferAt(o)
      isNew(o) == \A x \in offers : OfferAt(x) # OfferAt(o)
  IN  {OfferNode(o, "Created", o) : o \in {x \in put : isNew(x)}}
      \cup {OfferNode(o, "Modified", was(o)) : o \in {x \in put : ~isNew(x)}}
      \cup {OfferNode(o, "Deleted", was(o)) : o \in gone}

Touched(a, sender, bal, newLines, put, gone) ==
  \/ a = sender
  \/ bal[a][Str] # balance[a][Str]
  \/ \E o \in gone : o.account = a
  \/ \E l \in (lines \ newLines) \cup (newLines \ lines) : l[1] = a

AccountNode(a, bal) ==
  [entry |-> "AccountRoot", diff |-> "Modified", account |-> a,
   prev |-> balance[a][Str], final |-> bal[a][Str]]

Raw(a, n) == IF a \in High THEN -n ELSE n

LineNode(l, bal, newLines) ==
  [entry |-> "RippleState", account |-> l[1], index |-> l, code |-> Code[l[2]],
   diff |-> IF l \notin lines THEN "Created" ELSE IF l \notin newLines THEN "Deleted" ELSE "Modified",
   prev |-> Raw(l[1], balance[l[1]][l[2]]), final |-> Raw(l[1], bal[l[1]][l[2]])]

(* A line that is not trusted exists while it has a balance. *)
LinesAfter(bal) ==
  Trusted \cup {l \in Account \X (Currency \ {Str}) : bal[l[1]][l[2]] > 0}

Nodes(sender, bal, put, gone) ==
  LET after == LinesAfter(bal) IN
  OfferNodes(put, gone)
  \cup {AccountNode(a, bal) : a \in {b \in Account : Touched(b, sender, bal, after, put, gone)}}
  \cup {LineNode(l, bal, after) : l \in {m \in lines \cup after :
           bal[m[1]][m[2]] # balance[m[1]][m[2]]}}

AllCodes == {Code[c] : c \in Currency}
Directions == [c \in AllCodes \X AllCodes |-> Normalize(c)]

(* The transaction is applied, its fee taken, and the client hears of it:   *)
(* the book takes in its offers, the trade page what it makes of it.        *)
Apply(type, sender, ok, bal, put, gone) ==
  LET paid  == Pay(bal, sender, Str, -Fee)
      nodes == Nodes(sender, paid, put, gone)
      tx    == [type |-> type, account |-> sender, fee |-> Fee, ok |-> ok, nodes |-> nodes]
      names == {OfferAt(o) : o \in put \cup gone}
      mine  == \E n \in nodes : n.account = Me
  IN  /\ balance' = paid
      /\ lines' = LinesAfter(paid)
      /\ offers' = {o \in offers : OfferAt(o) \notin names} \cup put
      /\ sequence' = [sequence EXCEPT ![sender] = @ + 1]
      /\ book' = IF current = NoPair \/ subscribing THEN book ELSE IngestOffers(book, nodes, current)
      /\ last' = [type |-> type, tx |-> tx, mine |-> mine,
                  gain |-> [c \in Currency |-> bal[Me][c] - balance[Me][c]],
                  trade |-> IF mine THEN Trade(tx, Directions) ELSE [shown |-> "no"]]

-----------------------------------------------------------------------------
(* The server's side of an OfferCreate.  It takes the best offer that       *)
(* meets it, as far as both accounts can pay; one of its own account it     *)
(* only removes, and so one whose owner has nothing left.  The ledger here  *)
(* never has more than one offer that meets another.                        *)
Meets(o) ==
  {x \in offers : /\ x.gets.cur = o.pays.cur /\ x.pays.cur = o.gets.cur
                  /\ x.pays.value * o.pays.value <= o.gets.value * x.gets.value}

Spendable(a, c) == IF c = Str THEN balance[a][c] - Fee ELSE balance[a][c]

Cost(x, n) == (x.pays.value * n) \div x.gets.value

(* How much of x's gets can change hands when a wants n of it. *)
CanTake(x, a, n) ==
  {k \in 0..n : /\ k <= x.gets.value /\ k <= Spendable(x.account, x.gets.cur)
                /\ Divides(x.gets.value, x.pays.value * k)
                /\ Cost(x, k) <= Spendable(a, x.pays.cur)}

Less(o, got, paid) ==
  [o EXCEPT !.gets.value = @ - paid, !.pays.value = @ - got]

Exchange(x, a, k) ==
  LET p == Cost(x, k)
  IN  Pay(Pay(Pay(Pay(balance, a, x.gets.cur, k), x.account, x.gets.cur, -k),
              a, x.pays.cur, -p), x.account, x.pays.cur, p)

(* What is left of an order once k of x is taken keeps its price. *)
Remainder(o, k) ==
  [o EXCEPT !.pays.value = @ - k, !.gets.value = (@ * (o.pays.value - k)) \div o.pays.value]

Taken(x, k) == Less(x, Cost(x, k), k)

Rests(o, bal) ==
  IF o.pays.value > 0 /\ o.gets.value > 0 /\ bal[o.account][o.gets.cur] > 0 THEN {o} ELSE {}

(* o meets x and takes k of it: x goes when nothing is left of it or of its *)
(* owner's funds, and then the rest of o stands.                            *)
TakePart(o, x, k) ==
  LET bal  == Exchange(x, o.account, k)
      left == Taken(x, k)
      ends == left.gets.value = 0 \/ bal[x.account][x.gets.cur] = 0
  IN  Apply("OfferCreate", o.account, TRUE, bal,
            IF ends THEN Rests(Remainder(o, k), bal) ELSE {left},
            IF ends THEN {left} ELSE {})

CreateOffer(o) ==
  IF Spendable(o.account, o.gets.cur) <= 0
  THEN Apply("OfferCreate", o.account, FALSE, balance, {}, {})
  ELSE \/ /\ Meets(o) = {}
          /\ Apply("OfferCreate", o.account, TRUE, balance, {o}, {})
       \/ \E x \in Meets(o) :
            /\ Meets(o) = {x}
            /\ IF x.account = o.account \/ Spendable(x.account, x.gets.cur) <= 0
               THEN Apply("OfferCreate", o.account, TRUE, balance, {o}, {x})
               ELSE LET k == CHOOSE n \in CanTake(x, o.account, o.pays.value) :
                               \A m \in CanTake(x, o.account, o.pays.value) : m <= n
                    IN  k > 0 /\ TakePart(o, x, k)

Order(a, terms) ==
  [account |-> a, sequence |-> sequence[a] + 1, gets |-> terms.gets, pays |-> terms.pays]

CanSend(a) == Sent < MaxTx /\ balance[a][Str] > Fee

(* The other account makes an offer, or pays itself by way of one of mine.  *)
PeerOffers(terms) ==
  /\ CanSend(Peer)
  /\ CreateOffer(Order(Peer, terms))
  /\ UNCHANGED <<pairVars, order>>

PeerPays(x) ==
  /\ CanSend(Peer) /\ x.account = Me
  /\ \E k \in CanTake(x, Peer, x.gets.value) \ {0} :
       LET left == Taken(x, k)
           bal  == Exchange(x, Peer, k)
           ends == left.gets.value = 0 \/ bal[Me][x.gets.cur] = 0
       IN  Apply("Payment", Peer, TRUE, bal, IF ends THEN {} ELSE {left},
                 IF ends THEN {left} ELSE {})
  /\ UNCHANGED <<pairVars, order>>

Cancel(x) ==
  /\ CanSend(x.account)
  /\ Apply("OfferCancel", x.account, TRUE, balance, {}, {x})
  /\ UNCHANGED <<pairVars, order>>

-----------------------------------------------------------------------------
(* OrderBook.buy and sell: the offer is of the order book's pair, whatever  *)
(* pair the form names, and the use of that pair is recorded as it is sent. *)
(* One is under way at a time (createOffer is a singletonPromise).          *)
SubmitOffer(terms) ==
  /\ order = NoOrder /\ chosen # NoPair /\ current # NoPair /\ Sent < MaxTx
  /\ OfferRole(terms, current) # "none"
  /\ RecordUse(current)
  /\ order' = terms
  /\ Tick
  /\ UNCHANGED <<ledgerVars, favorite, chosen, current, subscribing, book, last>>

MyOffer ==
  /\ order # NoOrder /\ CanSend(Me)
  /\ CreateOffer(Order(Me, order))
  /\ order' = NoOrder
  /\ UNCHANGED pairVars

(* A snapshot of the pair's offers comes with the subscription. *)
OfRole(role, pair) == SetToSeq({o \in offers : OfferRole(o, pair) = role})

Snapshot(pair) == [bids |-> OfRole("bid", pair), asks |-> OfRole("ask", pair)]

(* Of a book that is still being subscribed to nothing is said here: it     *)
(* shows what it showed when it was current before.                         *)
Choose ==
  /\ UserStep
  /\ book' = IF subscribing' \/ current' = NoPair THEN NoBook ELSE book
  /\ UNCHANGED <<ledgerVars, order, last>>

Subscribed ==
  /\ subscribing /\ subscribing' = FALSE
  /\ book' = Snapshot(current)
  /\ UNCHANGED <<ledgerVars, favorites, priorities, favorite, chosen, current,
                 touched, usedAs, touches, order, last>>

MarketInit ==
  /\ PairsInit
  /\ balance = Balance0 /\ lines = LinesAfter(Balance0)
  /\ offers = Offers0
  /\ sequence = [a \in Account |-> Cardinality({o \in Offers0 : o.account = a})]
  /\ order = NoOrder /\ book = NoBook /\ last = NoTx

MarketNext ==
  \/ Choose
  \/ Subscribed
  \/ \E terms \in Orders : SubmitOffer(terms)
  \/ MyOffer
  \/ \E terms \in Orders : PeerOffers(terms)
  \/ \E x \in offers : PeerPays(x)
  \/ \E x \in offers : Cancel(x)

MarketSpec == MarketInit /\ [][MarketNext]_marketVars

-----------------------------------------------------------------------------
(* The price levels the trading page shows of the current book, once it is  *)
(* subscribed to, are those of the offers in the ledger: one level a price  *)
(* with all that is offered at it, the best first, and as its depth all     *)
(* that is offered at it or better -- through offers made, taken in part or *)
(* whole, removed and cancelled.                                            *)
LevelsAreTheBook ==
  current # NoPair /\ ~subscribing =>
    \A side \in {<<"bid", PriceLevels("bids", book.bids, current)>>,
                 <<"ask", PriceLevels("asks", book.asks, current)>>} :
      LET levels == side[2]
          seen   == {o \in offers : OfferRole(o, current) = side[1]}
          price(o) == Friendly(o, current).price
          base   == [o \in seen |-> Friendly(o, current).base]
          better(p, q) == IF side[1] = "ask" THEN Below(p, q) ELSE Below(q, p)
      IN  /\ {levels[i].price : i \in DOMAIN levels} = {price(o) : o \in seen}
          /\ \A i, j \in DOMAIN levels : i < j => better(levels[i].price, levels[j].price)
          /\ \A i \in DOMAIN levels :
               LET p == levels[i].price IN
               /\ levels[i].amount = SumFunctionOnSet(base, {o \in seen : price(o) = p})
               /\ levels[i].depth =
                    SumFunctionOnSet(base, {o \in seen : price(o) = p \/ better(price(o), p)})

GainOf(code) == SumFunctionOnSet(last.gain, {c \in Currency : Code[c] = code})

CreatesLine(n) == n.entry = "RippleState" /\ n.diff = "Created"

(* The trade page shows an offer of the account, or another's that took one *)
(* of the account's, exactly when the account exchanged something by it,    *)
(* and then what it gained and gave, the fee apart, as a purchase or sale   *)
(* at the price paid.  (Not so where the metadata is of the kinds it        *)
(* misreads: see Unreadable, a trust line created, and payments.)           *)
TradesAreExchanges ==
  /\ last.type = "OfferCreate" /\ last.tx.ok /\ last.mine
  /\ \A n \in last.tx.nodes : ~Unreadable(n) /\ ~CreatesLine(n)
  =>
    LET gained == {c \in AllCodes : GainOf(c) > 0}
        given  == {c \in AllCodes : GainOf(c) < 0}
    IN  /\ (last.trade.shown = "trade") <=> (gained # {} /\ given # {})
        /\ last.trade.shown = "trade" =>
             LET t == last.trade.trade
                 sign == IF t.operation = "buy" THEN 1 ELSE -1
             IN  /\ GainOf(t.pair[1]) = sign * t.base
                 /\ GainOf(t.pair[2]) = -sign * t.counter
                 /\ t.price[1] * t.base = t.price[2] * t.counter

=============
