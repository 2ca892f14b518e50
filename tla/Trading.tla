------------------------------ MODULE Trading ------------------------------
(***************************************************************************)
(* The trading page: TradingCtrl's current order book, the OrderBook       *)
(* objects kept per currency pair, and the list of the account's own       *)
(* offers.  (TradingForm adds the form that submits an offer.)             *)
(*                                                                         *)
(* Requests reach the server in the order they are sent, and its answers   *)
(* and transactions come back in the order it sends them.  An offer goes   *)
(* through the stages Unborn, Whole, Partial, Gone and never back: its     *)
(* account and sequence name it once.                                      *)
(***************************************************************************)
EXTENDS Integers, Sequences, FiniteSets

CONSTANTS
  Pair,          \* the currency pairs the form can name
  NoPair,        \* none, incomplete, or one currency twice
  Offer,         \* offers that come up, by account and sequence
  PairOf,        \* [Offer -> Pair]
  Mine,          \* those of the user's account
  MaxChanges,    \* bound on the times the user changes the pair
  MaxVisits,     \* bound on the times the page is opened
  MaxDown        \* bound on the transactions under way to the client

Unborn == 0  Whole == 1  Partial == 2  Gone == 3
Standing == {Whole, Partial}

ASSUME TradingAssumption ==
  /\ NoPair \notin Pair
  /\ PairOf \in [Offer -> Pair] /\ Mine \subseteq Offer
  /\ MaxChanges \in Nat /\ MaxVisits \in Nat \ {0} /\ MaxDown \in Nat

VARIABLES
  stage,         \* the offers in the ledger
  subs,          \* the pairs the server sends this connection transactions of
  up, down,      \* messages to the server and from it, oldest first
  books,         \* currentOffers of the OrderBook of each pair that has one
  formPair,      \* the pair formData names
  current,       \* the pair of currentOrderBook
  loading,       \* setCurrentOrderBook is under way
  visit,         \* times the page was opened
  changes,       \* times the pair was changed
  myOffers,      \* CurrentOffersCtrl's list
  left,          \* history variable: pairs that were current when the page was left
  selfCrossed,   \* history variable: offers of the account its own offers consumed
  kept,          \* history variable: pairs the server refused to unsubscribe
  unlisted       \* history variable: it refused this visit's account_offers

bookVars == <<books, formPair, current, loading, visit, changes, left>>
refusalVars == <<kept, unlisted>>
tradingVars == <<stage, subs, up, down, bookVars, myOffers, selfCrossed, refusalVars>>

Entry == Offer \X Standing

TradingTypeOK ==
  /\ stage \in [Offer -> Unborn..Gone]
  /\ subs \subseteq Pair
  /\ \A i \in DOMAIN up : up[i].op \in {"subscribe", "unsubscribe", "account_offers"}
  /\ \A i \in DOMAIN down : down[i].kind \in {"snapshot", "refused", "offers", "tx"}
  /\ DOMAIN books \subseteq Pair /\ current \in DOMAIN books \cup {NoPair}
  /\ \A p \in DOMAIN books : books[p] \subseteq Entry
  /\ formPair \in Pair \cup {NoPair}
  /\ loading \in BOOLEAN /\ (loading => current # NoPair)
  /\ visit \in 1..MaxVisits /\ changes \in 0..MaxChanges
  /\ myOffers \subseteq Entry
  /\ left \subseteq Pair /\ selfCrossed \subseteq Mine
  /\ kept \subseteq Pair /\ unlisted \in BOOLEAN

-----------------------------------------------------------------------------
Live(p) == {e \in Entry : PairOf[e[1]] = p /\ stage[e[1]] = e[2]}
LiveOfMine == {e \in Entry : e[1] \in Mine /\ stage[e[1]] = e[2]}

Without(entries, o) == {e \in entries : e[1] # o}

(* A transaction: its type, whether this account sent it, the offer it      *)
(* places or cancels if any, and the stages it leaves resting offers in --  *)
(* the Offer nodes of its metadata.                                         *)
Affected(tx) == DOMAIN tx.nodes

(* OrderBook.ingestOffers, on the book of p: an added or changed offer      *)
(* replaces the one of its name, a removed one goes.                        *)
Ingest(entries, tx, p) ==
  LET hit == {o \in Affected(tx) : PairOf[o] = p}
      put == {o \in hit : tx.nodes[o] # Gone}
  IN  {e \in entries : e[1] \notin hit} \cup {<<o, tx.nodes[o]>> : o \in put}

(* Trading.updateMyOffers with CurrentOffersCtrl's handlers.  The offer of  *)
(* an OfferCreate is listed as it was asked for, not by what is left of it; *)
(* one filled at once is announced as "created-fulfilled", which nobody     *)
(* listens to.  The account's own OfferCreate says nothing of older offers. *)
(* Slip: to list the offer filled at once with the others.                  *)
MyOffersAfterListingFilled(list, tx) ==
  CASE tx.type = "cancel" /\ tx.mine -> Without(list, tx.offer)
    [] tx.type = "create" /\ tx.mine -> list \cup {<<tx.offer, Whole>>}
    [] OTHER ->
         LET hit == {o \in Affected(tx) \cap Mine : \E e \in list : e[1] = o}
         IN  {e \in list : e[1] \notin hit} \cup
             {<<o, tx.nodes[o]>> : o \in {h \in hit : tx.nodes[h] # Gone}}

MyOffersAfter(list, tx) ==
  CASE tx.type = "cancel" /\ tx.mine -> Without(list, tx.offer)
    [] tx.type = "create" /\ tx.mine ->
         IF tx.offer \in Affected(tx) THEN list \cup {<<tx.offer, Whole>>} ELSE list
    [] OTHER ->
         LET hit == {o \in Affected(tx) \cap Mine : \E e \in list : e[1] = o}
         IN  {e \in list : e[1] \notin hit} \cup
             {<<o, tx.nodes[o]>> : o \in {h \in hit : tx.nodes[h] # Gone}}

-----------------------------------------------------------------------------
Ask(op, p) == [op |-> op, pair |-> p, visit |-> visit]

(* OrderBook.get: the pair's book, a new one has no offers. *)
WithBook(p) ==
  IF p \in DOMAIN books \cup {NoPair} THEN books
  ELSE [q \in DOMAIN books \cup {p} |-> IF q = p THEN {} ELSE books[q]]

(* setCurrentOrderBook, called by the watches when the pair in the form     *)
(* changes.  A singletonPromise: while a subscription is under way the call *)
(* is dropped.  A slip is to change books without leaving the old one.      *)
SetCurrentOrderBookLeavingNone(p) ==
  IF loading \/ p = current
  THEN UNCHANGED <<up, books, current, loading>>
  ELSE /\ up' = IF p = NoPair THEN up ELSE Append(up, Ask("subscribe", p))
       /\ current' = p
       /\ books' = WithBook(p)
       /\ loading' = (p # NoPair)

SetCurrentOrderBook(p) ==
  IF loading \/ p = current
  THEN UNCHANGED <<up, books, current, loading>>
  ELSE /\ up' = up \o (IF current = NoPair THEN <<>> ELSE <<Ask("unsubscribe", current)>>)
                   \o (IF p = NoPair THEN <<>> ELSE <<Ask("subscribe", p)>>)
       /\ current' = p
       /\ books' = WithBook(p)
       /\ loading' = (p # NoPair)

(* The user picks currencies, issuers or a favorite, or clears them. *)
ChangePair(p) ==
  /\ changes < MaxChanges /\ p # formPair
  /\ changes' = changes + 1
  /\ formPair' = p
  /\ SetCurrentOrderBook(p)
  /\ UNCHANGED <<stage, subs, down, visit, myOffers, left, selfCrossed, refusalVars>>

(* The user leaves the page and opens it again: its controllers are new and *)
(* nothing is unsubscribed.                                                 *)
OpenPageAgain ==
  /\ visit < MaxVisits
  /\ visit' = visit + 1
  /\ left' = IF current = NoPair THEN left ELSE left \cup {current}
  /\ formPair' = NoPair /\ current' = NoPair /\ loading' = FALSE
  /\ myOffers' = {} /\ unlisted' = FALSE
  /\ up' = Append(up, [op |-> "account_offers", pair |-> NoPair, visit |-> visit + 1])
  /\ UNCHANGED <<stage, subs, down, books, changes, selfCrossed, kept>>

-----------------------------------------------------------------------------
(* The server takes up the oldest request.  It may refuse any: nobody looks *)
(* at the answer of an unsubscription, nor catches the error of             *)
(* account_offers, whose list stays what it was.                            *)
TakeUp ==
  /\ up # <<>>
  /\ up' = Tail(up)
  /\ LET q == Head(up) IN
     \/ /\ q.op = "subscribe"
        /\ subs' = subs \cup {q.pair} /\ kept' = kept \ {q.pair}
        /\ down' = Append(down, [kind |-> "snapshot", pair |-> q.pair,
                                 offers |-> Live(q.pair), visit |-> q.visit])
        /\ UNCHANGED unlisted
     \/ /\ q.op = "subscribe"
        /\ down' = Append(down, [kind |-> "refused", visit |-> q.visit])
        /\ UNCHANGED <<subs, refusalVars>>
     \/ /\ q.op = "unsubscribe"
        /\ subs' = subs \ {q.pair} /\ kept' = kept \ {q.pair}
        /\ UNCHANGED <<down, unlisted>>
     \/ /\ q.op = "unsubscribe"
        /\ kept' = kept \cup {q.pair}
        /\ UNCHANGED <<subs, down, unlisted>>
     \/ /\ q.op = "account_offers"
        /\ down' = Append(down, [kind |-> "offers", offers |-> LiveOfMine, visit |-> q.visit])
        /\ UNCHANGED <<subs, refusalVars>>
     \/ /\ q.op = "account_offers"
        /\ unlisted' = (unlisted \/ q.visit = visit)
        /\ UNCHANGED <<subs, down, kept>>
  /\ UNCHANGED <<stage, bookVars, myOffers, selfCrossed>>

(* A ledger closes with a transaction; the client hears of it when it is    *)
(* the account's or affects a book it is subscribed to.                     *)
Heard(tx) ==
  tx.mine \/ \E o \in Affected(tx) : o \in Mine \/ PairOf[o] \in subs

Publish(tx) ==
  /\ Len(SelectSeq(down, LAMBDA m : m.kind = "tx")) < MaxDown
  /\ stage' = [o \in Offer |-> IF o \in Affected(tx) THEN tx.nodes[o]
                               ELSE IF o = tx.offer THEN Gone ELSE stage[o]]
  /\ down' = IF Heard(tx) THEN Append(down, [kind |-> "tx", tx |-> tx]) ELSE down
  /\ selfCrossed' = IF tx.type = "create" /\ tx.mine
                    THEN selfCrossed \cup {o \in Affected(tx) \cap Mine : tx.nodes[o] = Gone}
                    ELSE selfCrossed
  /\ UNCHANGED <<subs, up, bookVars, myOffers, refusalVars>>

Transaction(type, o, nodes) ==
  [type |-> type, mine |-> o \in Mine, offer |-> o, nodes |-> nodes]

PlaceOffer(o) ==
  /\ stage[o] = Unborn
  /\ Publish(Transaction("create", o, [x \in {o} |-> Whole]))

(* It meets a resting offer of its pair and is filled in part or at once;   *)
(* one of its own account it only removes.                                  *)
PlaceCrossing(o, x) ==
  /\ stage[o] = Unborn /\ stage[x] \in Standing /\ PairOf[x] = PairOf[o]
  /\ IF {o, x} \subseteq Mine
     THEN Publish(Transaction("create", o, [y \in {o, x} |-> IF y = o THEN Whole ELSE Gone]))
     ELSE \/ Publish(Transaction("create", o, [y \in {o, x} |-> IF y = o THEN Partial ELSE Gone]))
          \/ Publish(Transaction("create", o, [y \in {x} |-> Gone]))
          \/ stage[x] = Whole /\ Publish(Transaction("create", o, [y \in {x} |-> Partial]))

CancelOffer(o) ==
  /\ stage[o] \in Standing
  /\ Publish(Transaction("cancel", o, [x \in {o} |-> Gone]))

-----------------------------------------------------------------------------
(* OrderBook.subscribe's answer: the snapshot replaces what the book holds. *)
ReceiveSnapshot ==
  /\ down # <<>> /\ Head(down).kind = "snapshot"
  /\ down' = Tail(down)
  /\ books' = [books EXCEPT ![Head(down).pair] = Head(down).offers]
  /\ loading' = (loading /\ Head(down).visit # visit)
  /\ UNCHANGED <<stage, subs, up, formPair, current, visit, changes, left, myOffers, selfCrossed, refusalVars>>

(* The subscription failed: the book stays the current one. *)
ReceiveRefusal ==
  /\ down # <<>> /\ Head(down).kind = "refused"
  /\ down' = Tail(down)
  /\ loading' = (loading /\ Head(down).visit # visit)
  /\ UNCHANGED <<stage, subs, up, books, formPair, current, visit, changes, left, myOffers, selfCrossed, refusalVars>>

(* refreshMyOffers: the list is the answer, whatever came before it. *)
ReceiveOffers ==
  /\ down # <<>> /\ Head(down).kind = "offers"
  /\ down' = Tail(down)
  /\ myOffers' = IF Head(down).visit = visit THEN Head(down).offers ELSE myOffers
  /\ UNCHANGED <<stage, subs, up, bookVars, selfCrossed, refusalVars>>

(* stellar-network:transaction: updateOrderBooks and updateMyOffers.  Slip: *)
(* to look after the current book only.                                     *)
ReceiveTransactionInCurrent ==
  /\ down # <<>> /\ Head(down).kind = "tx"
  /\ down' = Tail(down)
  /\ books' = [p \in DOMAIN books |-> IF p = current THEN Ingest(books[p], Head(down).tx, p) ELSE books[p]]
  /\ myOffers' = MyOffersAfter(myOffers, Head(down).tx)
  /\ UNCHANGED <<stage, subs, up, formPair, current, loading, visit, changes, left, selfCrossed, refusalVars>>

ReceiveTransaction ==
  /\ down # <<>> /\ Head(down).kind = "tx"
  /\ down' = Tail(down)
  /\ books' = [p \in DOMAIN books |-> Ingest(books[p], Head(down).tx, p)]
  /\ myOffers' = MyOffersAfter(myOffers, Head(down).tx)
  /\ UNCHANGED <<stage, subs, up, formPair, current, loading, visit, changes, left, selfCrossed, refusalVars>>

TradingInit ==
  /\ stage \in [Offer -> {Unborn, Whole}]
  /\ subs = {} /\ down = <<>> /\ books = <<>>
  /\ up = <<[op |-> "account_offers", pair |-> NoPair, visit |-> 1]>>
  /\ formPair = NoPair /\ current = NoPair /\ loading = FALSE
  /\ visit = 1 /\ changes = 0 /\ myOffers = {} /\ left = {} /\ selfCrossed = {}
  /\ kept = {} /\ unlisted = FALSE

Ledger ==
  \/ \E o \in Offer : PlaceOffer(o) \/ CancelOffer(o)
  \/ \E o, x \in Offer : PlaceCrossing(o, x)

Delivery == ReceiveSnapshot \/ ReceiveRefusal \/ ReceiveOffers \/ ReceiveTransaction

-----------------------------------------------------------------------------
(* A state once each of a queue of messages has had its effect on it. *)
States(s, effects) ==
  LET state[n \in 0..Len(effects)] == IF n = 0 THEN s ELSE effects[n][state[n - 1]]
  IN  state
InTime(s, effects) == States(s, effects)[Len(effects)]

(* The book of p once the messages under way have come. *)
OnBook(m, p) ==
  [entries \in SUBSET Entry |->
     CASE m.kind = "snapshot" /\ m.pair = p -> m.offers
       [] m.kind = "tx" -> Ingest(entries, m.tx, p)
       [] OTHER -> entries]
BookInTime(p) == InTime(books[p], [i \in DOMAIN down |-> OnBook(down[i], p)])

(* Each book the server keeps the client informed of holds, up to the       *)
(* messages under way, the offers of the ledger and no others: a snapshot   *)
(* replaces the book, transactions between request and snapshot do no harm, *)
(* and a book that was left and is current again starts over.               *)
BooksFollowLedger == \A p \in subs : p \in DOMAIN books /\ BookInTime(p) = Live(p)

OnSubs(q) ==
  [ps \in SUBSET Pair |-> CASE q.op = "subscribe" -> ps \cup {q.pair}
                            [] q.op = "unsubscribe" -> ps \ {q.pair}
                            [] OTHER -> ps]
SubsInTime == InTime(subs \ kept, [i \in DOMAIN up |-> OnSubs(up[i])])

(* Every book but the current one is unsubscribed from or about to be, so   *)
(* the books watched do not pile up as the user goes from pair to pair --   *)
(* save those a page was left on, whose controller unsubscribes nothing,    *)
(* and those the server refused to unsubscribe and was not asked for since. *)
OneBookWatched == SubsInTime \subseteq {current} \cup left

(* The list of own offers once they have, on the v-th visit. *)
OnMyOffers(m, v) ==
  [list \in SUBSET Entry |-> CASE m.kind = "tx" -> MyOffersAfter(list, m.tx)
                               [] m.kind = "offers" /\ m.visit = v -> m.offers
                               [] OTHER -> list]
OffersInTime == InTime(myOffers, [i \in DOMAIN down |-> OnMyOffers(down[i], visit)])

ListGranted ==
  /\ \A i \in DOMAIN up : up[i].op = "account_offers" => up[i].visit # visit
  /\ ~unlisted

(* The list of own offers, once its answer is on the way and the messages   *)
(* under way have come, names the offers that stand in the ledger, and any  *)
(* that an offer of the account itself has consumed.  (It can be wrong on   *)
(* what is left of one: see MyOffersAfter; and a visit whose request was    *)
(* refused lists only offers placed since.)                                 *)
MyOffersAreListed ==
  ListGranted =>
    LET names == {e[1] : e \in OffersInTime}
        standing == {e[1] : e \in LiveOfMine}
    IN  standing \subseteq names /\ names \subseteq standing \cup selfCrossed

=============================================================================
