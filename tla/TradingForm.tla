---------------------------- MODULE TradingForm ----------------------------
(***************************************************************************)
(* TradingFormCtrl on the trading page: the pair is edited while the form  *)
(* shows, confirmed, and the offer goes to the current order book.         *)
(***************************************************************************)
EXTENDS Trading

CONSTANT MaxOffers     \* bound on the offers the user submits

ASSUME FormAssumption == MaxOffers \in Nat

VARIABLES
  state,        \* form, confirm, sending, sent or error
  made,         \* offers submitted; their numbers are 1..made
  unsettled,    \* those whose success or error has not come
  resultOf      \* the offer the screen's result is of, 0 while it shows none

formVars == <<state, made, unsettled, resultOf>>
allVars == <<tradingVars, formVars>>

FormTypeOK ==
  /\ TradingTypeOK
  /\ state \in {"form", "confirm", "sending", "sent", "error"}
  /\ made \in 0..MaxOffers /\ unsettled \subseteq 1..made /\ resultOf \in 0..made
  /\ state = "confirm" => formPair # NoPair

FormInit ==
  /\ TradingInit
  /\ state = "form" /\ made = 0 /\ unsettled = {} /\ resultOf = 0

EditPair ==
  /\ state = "form"
  /\ \E p \in Pair \cup {NoPair} : ChangePair(p)
  /\ UNCHANGED formVars

Reopen ==
  /\ OpenPageAgain
  /\ state' = "form" /\ unsettled' = {} /\ resultOf' = 0
  /\ UNCHANGED made

(* confirmOffer, behind a button that needs formIsValid. *)
ConfirmOffer ==
  /\ state = "form" /\ formPair # NoPair
  /\ state' = "confirm"
  /\ UNCHANGED <<tradingVars, made, unsettled, resultOf>>

(* editForm *)
EditForm ==
  /\ state \in {"confirm", "error"}
  /\ state' = "form" /\ resultOf' = 0
  /\ UNCHANGED <<tradingVars, made, unsettled>>

(* resetFormSoft, on Continue *)
ResetFormSoft ==
  /\ state \in {"sending", "sent"}
  /\ state' = "form" /\ resultOf' = 0
  /\ UNCHANGED <<tradingVars, made, unsettled>>

(* createOffer: a singletonPromise, so that Confirm does nothing while an   *)
(* earlier offer is unsettled; and without a book it throws.                *)
CreateOfferAtOnce ==
  /\ state = "confirm" /\ current # NoPair
  /\ made < MaxOffers
  /\ made' = made + 1 /\ unsettled' = unsettled \cup {made + 1}
  /\ state' = "sending"
  /\ UNCHANGED <<tradingVars, resultOf>>

CreateOffer ==
  /\ state = "confirm" /\ current # NoPair /\ unsettled = {}
  /\ made < MaxOffers
  /\ made' = made + 1 /\ unsettled' = {made + 1}
  /\ state' = "sending"
  /\ UNCHANGED <<tradingVars, resultOf>>

(* Its result: on the screen if that still waits, else a flash message. *)
OfferSettled(i, outcome) ==
  /\ i \in unsettled
  /\ unsettled' = unsettled \ {i}
  /\ IF state = "sending"
     THEN state' = outcome /\ resultOf' = i
     ELSE UNCHANGED <<state, resultOf>>
  /\ UNCHANGED <<tradingVars, made>>

FormNext ==
  \/ EditPair
  \/ Reopen
  \/ ConfirmOffer
  \/ EditForm
  \/ ResetFormSoft
  \/ CreateOffer
  \/ \E i \in unsettled, r \in {"sent", "error"} : OfferSettled(i, r)
  \/ (TakeUp \/ Ledger \/ Delivery) /\ UNCHANGED formVars

FormSpec == FormInit /\ [][FormNext]_allVars

-----------------------------------------------------------------------------
(* The screen tells the result of the offer submitted last: the user may    *)
(* have gone on from the one before while it was unsettled.                 *)
ResultIsOfLastOffer == state \in {"sent", "error"} => resultOf = made

=============================================================================
