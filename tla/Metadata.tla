------------------------------ MODULE Metadata ------------------------------
(***************************************************************************)
(* How the client reads the metadata of a transaction, for the account Me. *)
(* Pure operators on the nodes the ledger reports, a set: each is of one   *)
(* entry of the ledger, an offer, an account's STR balance or a trust      *)
(* line's balance, before and after; nothing depends on their order.       *)
(*                                                                         *)
(* A node is [entry, diff, account, prev, final, ...]: "prev" and "final"  *)
(* are equal where the node has no PreviousFields.Balance or .TakerGets.   *)
(* processAnode lets FinalFields and NewFields override PreviousFields, so *)
(* "final" is what it calls "fields".  A trust line's balance is signed:   *)
(* it is the holder's if the holder is the low side, else its negation.    *)
(* Its currency is a code: Balance.issuer is neutral.                      *)
(***************************************************************************)
EXTENDS Integers, Sequences, FiniteSets, SequencesExt, Lists

CONSTANTS
  Me,            \* the session's account
  High,          \* accounts that are the high side of their trust lines
  StrCode        \* the code of STR

Amount(c, n) == [cur |-> c, value |-> n]

(* A price, as the BigNumber string of counter / base, in lowest terms:     *)
(* equal ratios give equal strings.  (Nothing divided by nothing does not   *)
(* come up: see Trade.)                                                     *)
Divides(d, n) == n % d = 0
Terms(counter, base) == {d \in 1..base : Divides(base, d * counter)}
Denominator(counter, base) ==
  CHOOSE d \in Terms(counter, base) : \A e \in Terms(counter, base) : d <= e
Price(counter, base) ==
  IF base = 0 THEN <<1, 0>>
  ELSE LET d == Denominator(counter, base) IN <<(d * counter) \div base, d>>
Below(p, q) == p[1] * q[2] < q[1] * p[2]

-----------------------------------------------------------------------------
(* FriendlyOffers: an offer seen from a pair it is compatible with. *)
OfferRole(offer, pair) ==
  CASE <<offer.pays.cur, offer.gets.cur>> = pair -> "bid"
    [] <<offer.gets.cur, offer.pays.cur>> = pair -> "ask"
    [] OTHER -> "none"

Friendly(offer, pair) ==
  LET base    == IF offer.pays.cur = pair[1] THEN offer.pays.value ELSE offer.gets.value
      counter == IF offer.pays.cur = pair[1] THEN offer.gets.value ELSE offer.pays.value
  IN  [pair |-> pair,
       operation |-> IF OfferRole(offer, pair) = "bid" THEN "buy" ELSE "sell",
       base |-> base, counter |-> counter, price |-> Price(counter, base)]

(* PriceLevelList: offers of one price are one level, best price first; the *)
(* depth of a level counts the levels before it.                            *)
MergedLevels(offers, pair) ==
  LET friendly == [i \in DOMAIN offers |-> Friendly(offers[i], pair)]
      base  == [i \in DOMAIN offers |-> friendly[i].base]
      at(p) == {i \in DOMAIN offers : friendly[i].price = p}
  IN  {[price |-> p, amount |-> SumFunctionOnSet(base, at(p))] :
         p \in {friendly[i].price : i \in DOMAIN offers}}

(* A level comes after those with a better price. *)
Better(levels, l, ascending) ==
  {m \in levels : IF ascending THEN Below(m.price, l.price) ELSE Below(l.price, m.price)}

SortedLevels(levels, ascending) ==
  [i \in 1..Cardinality(levels) |->
     CHOOSE l \in levels : Cardinality(Better(levels, l, ascending)) = i - 1]

WithDepths(levels) ==
  LET amount == [i \in DOMAIN levels |-> levels[i].amount]
  IN  [i \in DOMAIN levels |-> [price |-> levels[i].price, amount |-> amount[i],
                                depth |-> SumFunctionOnSet(amount, 1..i)]]

PriceLevels(type, offers, pair) ==
  WithDepths(SortedLevels(MergedLevels(offers, pair), type = "asks"))

-----------------------------------------------------------------------------
(* TransactionCurator.getOffersAffectedByTx *)
IsOffer(n) == n.entry = "Offer"
OffersAffected(nodes, diff) ==
  {[account |-> n.account, sequence |-> n.sequence, gets |-> n.final.gets, pays |-> n.final.pays] :
     n \in {x \in nodes : IsOffer(x) /\ x.diff = diff}}

(* OrderBook.ingestOffers on the book [bids, asks] of a pair: a list of     *)
(* offers without those of other offers' account and sequence; with some    *)
(* overwritten, each an offer of its own; or, the slip, pushed beside their *)
(* old selves.                                                              *)
OfferAt(o) == <<o.account, o.sequence>>

Without(list, offers) ==
  Keep(list, {x \in Range(list) : \A o \in offers : OfferAt(x) # OfferAt(o)})

PushOffers(list, offers) == list \o SetToSeq(offers)

OverwriteOffers(list, offers) == Without(list, offers) \o SetToSeq(offers)

IngestOffers(book, nodes, pair) ==
  LET put  == OffersAffected(nodes, "Created") \cup OffersAffected(nodes, "Modified")
      gone == OffersAffected(nodes, "Deleted")
      of(role, offers) == {o \in offers : OfferRole(o, pair) = role}
      ingested(list, role) == Without(OverwriteOffers(list, of(role, put)), of(role, gone))
  IN  [bids |-> ingested(book.bids, "bid"), asks |-> ingested(book.asks, "ask")]

-----------------------------------------------------------------------------
(* TradeHistory.  A transaction is [type, account, fee, ok, nodes].         *)
Changed(n) == n.prev # n.final

TradeType(tx) ==
  CASE tx.ok /\ tx.type = "OfferCreate" /\ tx.account = Me -> "OFFER_CREATE"
    [] tx.ok /\ tx.type = "OfferCreate" /\ tx.account # Me -> "OFFER_TAKE"
    [] OTHER -> "NOT_TRADE"   \* isPayment reads a field transactions lack

(* getBalanceChanges.  It throws where it reads a field the node lacks: the *)
(* previous balance of an account or line that was touched for another      *)
(* reason, and the new fields of a deleted line.                            *)
Unreadable(n) ==
  \/ n.entry = "AccountRoot" /\ n.account = Me /\ ~Changed(n)
  \/ n.entry = "RippleState" /\ n.diff = "Modified" /\ ~Changed(n)
  \/ n.entry = "RippleState" /\ n.diff = "Deleted"

(* A line created is counted as it is, whose it may be and on what side.    *)
Counted(n) ==
  \/ n.entry = "AccountRoot" /\ n.account = Me
  \/ n.entry = "RippleState" /\ (n.account = Me \/ n.diff = "Created")

ChangeIn(n) ==
  IF n.entry = "RippleState" /\ n.diff = "Modified" /\ n.account \in High
  THEN n.prev - n.final
  ELSE n.final - n.prev

CodeOf(n) == IF n.entry = "AccountRoot" THEN StrCode ELSE n.code

BalanceChanges(nodes) ==
  LET counted == {n \in nodes : Counted(n)}
      change  == [n \in counted |-> ChangeIn(n)]
  IN  [c \in {CodeOf(n) : n \in counted} |->
         SumFunctionOnSet(change, {n \in counted : CodeOf(n) = c})]

(* processOfferCreate: the fee is added back.  Slip: it is not. *)
WithFeeKept(changes, fee) == changes

WithoutFee(changes, fee) ==
  LET net == [changes EXCEPT ![StrCode] = @ + fee]
  IN  IF net[StrCode] = 0 THEN [c \in DOMAIN net \ {StrCode} |-> net[c]] ELSE net

ChangesShown(tx) ==
  IF TradeType(tx) = "OFFER_CREATE"
  THEN WithoutFee(BalanceChanges(tx.nodes), tx.fee)
  ELSE BalanceChanges(tx.nodes)

(* tradeFilter and processTrade: what the trade page makes of tx.  It needs *)
(* something gained and something given, and is read in the direction that  *)
(* "directions" gives its codes.                                            *)
Trade(tx, directions) ==
  LET changes == ChangesShown(tx)
      gained  == {c \in DOMAIN changes : changes[c] > 0}
      given   == DOMAIN changes \ gained
      pays == CHOOSE c \in gained : TRUE
      gets == CHOOSE c \in given : TRUE
  IN  CASE TradeType(tx) = "NOT_TRADE" -> [shown |-> "no"]
        [] TradeType(tx) # "NOT_TRADE" /\ \E n \in tx.nodes : Unreadable(n) ->
             [shown |-> "throws"]
        [] OTHER ->
             CASE TradeType(tx) = "OFFER_CREATE" /\ DOMAIN changes = {} -> [shown |-> "no"]
               [] gained = {} \/ given = {} -> [shown |-> "throws"]
               [] OTHER -> [shown |-> "trade",
                            trade |-> Friendly([pays |-> Amount(pays, changes[pays]),
                                                gets |-> Amount(gets, -changes[gets])],
                                               directions[<<pays, gets>>])]

=============
