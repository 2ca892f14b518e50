--------------------------- MODULE CurrencyPairs ---------------------------
(***************************************************************************)
(* The wallet's tradingPairs -- the favorite pairs, last used first, and   *)
(* which of two currencies is shown as the base -- and the controller that *)
(* keeps them from the trading form.  A pair is <<base, counter>>.         *)
(*                                                                         *)
(* The favorites change through this controller alone, which reads them    *)
(* again each time: its copy differs from them in their order at most.     *)
(*                                                                         *)
(* The pair the form names and the order book that offers are made on are  *)
(* two things: the one follows what the user picks, the other follows the  *)
(* first unless a subscription is still on its way (a singletonPromise).   *)
(***************************************************************************)
EXTENDS Integers, Sequences, FiniteSets, SequencesExt, Lists

CONSTANTS
  Currency,      \* currencies with their issuers
  Code,          \* [Currency -> codes]: two gateways may issue one code
  NoPair,        \* none chosen
  Favorites0,    \* the wallet's favorites when the page is opened
  MaxTouches     \* bound on what the user does with pairs

Pair == {p \in Currency \X Currency : p[1] # p[2]}
Codes(p) == <<Code[p[1]], Code[p[2]]>>

ASSUME PairsAssumption ==
  /\ NoPair \notin Pair /\ \A p \in Pair : Codes(p) # NoPair
  /\ Favorites0 \in Seq(Pair) /\ IsInjective(Favorites0)
  /\ MaxTouches \in Nat

VARIABLES
  favorites,     \* walletTradingPairs().favorites
  priorities,    \* walletTradingPairs().priorities: [codes of a pair -> code]
  favorite,      \* formData.favorite
  chosen,        \* the pair that formData's currencies are, NoPair if they are none
  current,       \* the pair of currentOrderBook, on which offers are made
  subscribing,   \* whether setCurrentOrderBook waits for its subscription
  touched,       \* history variable: when a favorite was saved or used last; 0 if none
  usedAs,        \* history variable: the direction two codes were used in last
  touches        \* a clock: how often the user did something with pairs

pairVars == <<favorites, priorities, favorite, chosen, current, subscribing,
              touched, usedAs, touches>>

Invert(p) == <<p[2], p[1]>>

IsFavorite(p) == Contains(favorites, p)
LastUsedFavorite(favs) == IF favs = <<>> THEN NoPair ELSE favs[1]

Others(p) == Keep(favorites, Pair \ {p})

(* Slip: the favorite is put on top and stays where it was as well. *)
MovedToTopKept(p) == IF IsFavorite(p) THEN <<p>> \o favorites ELSE favorites

MovedToTop(p) == IF IsFavorite(p) THEN <<p>> \o Others(p) ELSE favorites

(* recordPriority: under both orders of the two codes.  Slip: under the one *)
(* order it was used in.                                                    *)
PrioritiesOfOneOrder(c) ==
  [k \in DOMAIN priorities \cup {c} |-> IF k = c THEN c[1] ELSE priorities[k]]

PrioritiesWith(c) ==
  [k \in DOMAIN priorities \cup {c, Invert(c)} |->
     IF k \in {c, Invert(c)} THEN c[1] ELSE priorities[k]]

(* normalize, on the codes of a pair *)
Normalize(c) ==
  IF c \in DOMAIN priorities /\ priorities[c] # c[1] THEN Invert(c) ELSE c

Touch(p) == [touched EXCEPT ![p] = touches + 1]

-----------------------------------------------------------------------------
(* recordUse *)
RecordUse(p) ==
  /\ favorites' = MovedToTop(p)
  /\ priorities' = PrioritiesWith(Codes(p))
  /\ touched' = IF IsFavorite(p) THEN Touch(p) ELSE touched
  /\ usedAs' = [usedAs EXCEPT ![{Codes(p)[1], Codes(p)[2]}] = Codes(p)]

(* setCurrentOrderBook, as the form comes to name p: dropped while a         *)
(* subscription is on its way.                                              *)
SetCurrentOrderBook(p) ==
  IF subscribing \/ p = current
  THEN UNCHANGED <<current, subscribing>>
  ELSE current' = p /\ subscribing' = (p # NoPair)

(* The user picks currencies and issuers, which a chosen favorite disables  *)
(* and which are no pair while they are incomplete or the same; picks a     *)
(* favorite, whose currencies the watch on it fills in; picks "New pair".   *)
PickPair(p) ==
  /\ favorite = NoPair /\ (p # chosen \/ p = NoPair)
  /\ chosen' = p /\ SetCurrentOrderBook(p)
  /\ UNCHANGED <<favorites, priorities, favorite, touched, usedAs>>

SetFavorite(p) ==
  /\ IsFavorite(p) /\ p # favorite
  /\ favorite' = p /\ chosen' = p
  /\ IF p = chosen THEN UNCHANGED <<current, subscribing>> ELSE SetCurrentOrderBook(p)
  /\ UNCHANGED <<favorites, priorities, touched, usedAs>>

ClearForm ==
  /\ chosen # NoPair
  /\ favorite' = NoPair /\ chosen' = NoPair /\ SetCurrentOrderBook(NoPair)
  /\ UNCHANGED <<favorites, priorities, touched, usedAs>>

(* resetForm, with resetFavorites at its broadcast: the last used favorite  *)
(* is chosen, and the watch on it fills in its currencies.                  *)
ChooseLastUsed(favs) ==
  /\ favorite' = LastUsedFavorite(favs)
  /\ chosen' = LastUsedFavorite(favs)

(* The last used favorite's book is subscribed to. *)
OpenLastUsed(favs) ==
  /\ current' = LastUsedFavorite(favs)
  /\ subscribing' = (LastUsedFavorite(favs) # NoPair)

(* The page is opened. *)
ResetForm ==
  /\ ChooseLastUsed(favorites) /\ OpenLastUsed(favorites)
  /\ UNCHANGED <<favorites, priorities, touched, usedAs>>

(* addFavoritePair, offered where canSave: it saves the order book's pair,  *)
(* and the form comes to name it.                                           *)
AddFavoritePair ==
  /\ favorite = NoPair /\ current # NoPair /\ ~IsFavorite(current)
  /\ favorites' = <<current>> \o favorites
  /\ touched' = Touch(current)
  /\ favorite' = current /\ chosen' = current
  /\ UNCHANGED <<priorities, current, subscribing, usedAs>>

(* The form is cleared first, which leaves its order book if it can.        *)
DeleteFavoritePair ==
  /\ favorite # NoPair
  /\ favorites' = Others(favorite)
  /\ touched' = [touched EXCEPT ![favorite] = 0]
  /\ ChooseLastUsed(favorites')
  /\ IF subscribing THEN UNCHANGED <<current, subscribing>> ELSE OpenLastUsed(favorites')
  /\ UNCHANGED <<priorities, usedAs>>

Tick == touches < Len(Favorites0) + MaxTouches /\ touches' = touches + 1

UserStep ==
  /\ Tick
  /\ \/ \E p \in Pair \cup {NoPair} : PickPair(p)
     \/ \E p \in Pair : SetFavorite(p)
     \/ ClearForm
     \/ ResetForm
     \/ AddFavoritePair
     \/ DeleteFavoritePair

(* The page is opened with the wallet's favorites, the last used one's book *)
(* subscribed to.                                                           *)
PairsInit ==
  /\ favorites = Favorites0 /\ priorities = <<>>
  /\ favorite = LastUsedFavorite(Favorites0)
  /\ chosen = favorite /\ current = favorite /\ subscribing = (current # NoPair)
  /\ touched = [p \in Pair |-> IF Contains(Favorites0, p)
                               THEN Len(Favorites0) + 1
                                    - (CHOOSE i \in DOMAIN Favorites0 : Favorites0[i] = p)
                               ELSE 0]
  /\ touches = Len(Favorites0)
  /\ usedAs = [two \in {{Codes(p)[1], Codes(p)[2]} : p \in Pair} |-> NoPair]

-----------------------------------------------------------------------------
(* "we call recordUse to move the used currencyPair to the top of the       *)
(* favorites to keep the list sorted latest first": the favorites are the   *)
(* pairs saved and not deleted, each once, in the order they were saved or  *)
(* traded in last -- though the pair an offer is made on may be another     *)
(* than the favorite the form shows -- and the one it shows is one of them. *)
FavoritesAreByUse ==
  /\ \A i, j \in DOMAIN favorites : i < j => touched[favorites[i]] > touched[favorites[j]]
  /\ \A p \in Pair : IsFavorite(p) <=> touched[p] > 0
  /\ favorite # NoPair => IsFavorite(favorite)

(* "how the user wants the given currency pair to be represented": whatever *)
(* order its currencies come in, a pair is shown in the direction its codes *)
(* were traded in last, and as it comes if they never were.                 *)
DirectionAsUsed ==
  \A p \in Pair :
    LET used == usedAs[{Codes(p)[1], Codes(p)[2]}]
    IN  Normalize(Codes(p)) = IF used = NoPair THEN Codes(p) ELSE used

=============================================================================
