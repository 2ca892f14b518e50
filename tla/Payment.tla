------------------------------- MODULE Payment -------------------------------
(***************************************************************************)
(* The Payment service, the Destination lookup it runs inside a            *)
(* CancelablePromise, its path subscription, and the send form that drives *)
(* it and shows what it broadcasts.                                        *)
(*                                                                         *)
(* The browser runs one handler at a time, so an action is one handler     *)
(* with the digest it causes; what interleaves are the user's edits, the   *)
(* answers of lookups (cancelled ones still answer) and the updates of     *)
(* path subscriptions (closed ones may still deliver one).                 *)
(***************************************************************************)

EXTENDS Naturals, FiniteSets

CONSTANTS
  Account,      \* addresses on the Stellar network
  Name,         \* federated names
  Tag,          \* destination tags a user may type
  Amount,       \* amounts Payment.isValid accepts; other texts are None
  Inputs,       \* what may be typed as recipient, <name or address>[?dt=<tag>]
  None,         \* JavaScript's null, undefined or ''
  Federation,   \* [Name -> [address, tag]], the federation server's answers
  NeedsTag,     \* accounts that require a destination tag
  BadTag,       \* tags that are not a uint32
  Native,       \* amounts in STR
  Overspends,   \* native amounts over account.max_spend
  Underfunds,   \* <<account, amount>>: too little to fund that account
  MaxLate       \* bound: the user waits while that many late answers are due

ASSUME PaymentAssumption ==
  /\ None \notin Account \cup Name \cup Tag \cup Amount
  /\ Account \cap Name = {}
  /\ Inputs \subseteq [who : Account \cup Name, dt : Tag \cup {None}]
  /\ Federation \in [Name -> [address : Account, tag : Tag \cup {None}]]
  /\ NeedsTag \subseteq Account
  /\ BadTag \subseteq Tag
  /\ Overspends \subseteq Native /\ Native \subseteq Amount
  /\ Underfunds \subseteq Account \X Amount
  /\ MaxLate \in Nat

VARIABLES
  recipient,         \* sendFormModel.recipient
  tag,               \* sendFormModel.destinationTag
  lookup,            \* destinationPromise: what it looks up, and whether it is done
  canceled,          \* lookups cancelled before their answer came
  naming,            \* destinations whose reverse federation is in flight
  destination,       \* Payment's destination
  amount,            \* Payment's amount
  pathSubscription,  \* the open path_find subscription
  closed,            \* closed subscriptions that may still deliver an update
  shown,             \* send.pathStatus and send.paths
  payee,             \* send.destination
  sendAmount,        \* send.amount
  issuer             \* the issuer set in the Amount object of send.amount

serviceVars == <<lookup, canceled, naming, destination, amount, pathSubscription, closed>>
vars == <<recipient, tag, lookup, canceled, naming, destination, amount,
          pathSubscription, closed, shown, payee, sendAmount, issuer>>

NoInput == [who |-> None, dt |-> None]
NoDestination == [address |-> None, name |-> None, tag |-> None, fixed |-> FALSE]
NoPaths == [address |-> None, amount |-> None]

AnInput == [who : Account \cup Name, dt : Tag \cup {None}]
Question == [input : AnInput, tag : Tag \cup {None}]
NoQuestion == [input |-> NoInput, tag |-> None]
NoLookup == [question |-> NoQuestion, asking |-> FALSE]
Destination == [address : Account \cup {None}, name : Name \cup {None},
                tag : Tag \cup {None}, fixed : BOOLEAN]
Paths == [address : Account, amount : Amount]
Status == {"", "checking-destination", "paths-loading", "paths-loaded", "paths-empty",
           "destination-unfunded", "insufficient-reserve"}

TypeOK ==
  /\ recipient \in AnInput \cup {NoInput}
  /\ tag \in Tag \cup {None}
  /\ lookup \in [question : Question \cup {NoQuestion}, asking : BOOLEAN]
  /\ canceled \subseteq Question
  /\ naming \subseteq Destination
  /\ destination \in Destination
  /\ amount \in Amount \cup {None}
  /\ pathSubscription \in Paths \cup {NoPaths}
  /\ closed \subseteq Paths
  /\ shown \in [status : Status, paths : Paths \cup {NoPaths}]
  /\ payee \in Destination
  /\ sendAmount \in Amount \cup {None}
  /\ issuer \in Account \cup {None}

-----------------------------------------------------------------------------
(* The Destination lookup. *)

AddressOf(who) == IF who \in Name THEN Federation[who].address ELSE who

(* The tag a lookup works with: ?dt= of the input, else the form's field. *)
AskedTag(q) == IF q.input.dt # None THEN q.input.dt ELSE q.tag

(* The destination a lookup resolves to when every request it makes succeeds. *)
(* A tag from ?dt= or from the federation record cannot be edited.            *)
Found(q) ==
  LET who    == q.input.who
      fedTag == IF who \in Name THEN Federation[who].tag ELSE None
  IN  [address |-> AddressOf(who),
       name    |-> IF who \in Name THEN who ELSE None,
       tag     |-> IF fedTag # None THEN fedTag ELSE AskedTag(q),
       fixed   |-> fedTag # None \/ q.input.dt # None]

(* Destination.prototype.isValid *)
IsValid(d) == d.address # None /\ (d.address \in NeedsTag => d.tag # None)

-----------------------------------------------------------------------------
(* Path finding. *)

(* Mutated: paths are sought before there is a valid destination. *)
ReadyUnchecked(d, a) == a # None

(* Payment.isValid *)
Ready(d, a) == IsValid(d) /\ a # None
Subscribes(d, a) == Ready(d, a) /\ <<d.address, a>> \notin Underfunds
PathsFor(d, a) == [address |-> d.address, amount |-> a]
Pays(a) == a \in Native \ Overspends       \* the direct STR path exists

Report(status) == [status |-> status, paths |-> NoPaths]

(* processPaths and broadcastPaths when the server offers nothing: the direct *)
(* path if there is one, else why there is none.                              *)
BroadcastOwn(d, a) ==
  IF Pays(a) THEN [status |-> "paths-loaded", paths |-> PathsFor(d, a)]
  ELSE Report(IF a \in Overspends THEN "insufficient-reserve" ELSE "paths-empty")

(* The paths of an update are those of the subscription that delivers it. *)
BroadcastUpdate(s, found) ==
  IF found THEN [status |-> "paths-loaded", paths |-> s]
  ELSE BroadcastOwn(destination, amount)

OpenPaths == {pathSubscription} \ {NoPaths}

(* Closing marks the subscription: its update may still come, and is ignored. *)
ClearPaths ==
  /\ closed' = closed \cup OpenPaths
  /\ pathSubscription' = NoPaths

(* What updatePaths shows at once: updates of the subscription come later. *)
FirstOffer(d, a) ==
  CASE ~Ready(d, a)                   -> Report("")
    [] Subscribes(d, a) /\ Pays(a)    -> BroadcastOwn(d, a)
    [] Subscribes(d, a) /\ ~Pays(a)   -> Report("paths-loading")
    [] OTHER                          -> Report("destination-unfunded")

(* Mutated: the issuer of an amount is set once, for the first destination. *)
IssuerOnce(d, a, held) ==
  IF Subscribes(d, a) /\ a \notin Native /\ held = None THEN d.address ELSE held

(* amount.set_issuer changes the Amount in place, and send.amount is that     *)
(* object: a credit is given the issuer "any that this destination trusts".   *)
IssuerFor(d, a, held) ==
  IF Subscribes(d, a) /\ a \notin Native THEN d.address ELSE held

(* updatePaths, with the issuer that send.amount has had so far. *)
UpdatePaths(d, a, held) ==
  /\ closed' = closed \cup OpenPaths
  /\ pathSubscription' = IF Subscribes(d, a) THEN PathsFor(d, a) ELSE NoPaths
  /\ shown' = FirstOffer(d, a)
  /\ issuer' = IssuerFor(d, a, held)

-----------------------------------------------------------------------------
(* The service's entry points. *)

Pending == IF lookup.asking THEN {lookup.question} ELSE {}

(* Payment.setDestination.  The old destination stays until the answer. *)
SetDestination(r, t) ==
  /\ canceled' = canceled \cup Pending
  /\ IF r = NoInput
     THEN /\ lookup' = NoLookup
          /\ destination' = NoDestination
          /\ UpdatePaths(NoDestination, amount, issuer)
     ELSE /\ lookup' = [question |-> [input |-> r, tag |-> t], asking |-> TRUE]
          /\ ClearPaths
          /\ shown' = Report("checking-destination")
          /\ UNCHANGED <<destination, issuer>>
  /\ UNCHANGED <<naming, amount>>

(* Payment.setAmount and updateAmount: every amount is a new object of the *)
(* service, only an accepted one becomes send.amount.                      *)
EditAmount(a) ==
  /\ a # amount
  /\ amount' = a
  /\ UpdatePaths(destination, a, IF a # None THEN None ELSE issuer)
  /\ sendAmount' = IF a # None THEN a ELSE sendAmount
  /\ UNCHANGED <<recipient, tag, lookup, canceled, naming, destination, payee>>

-----------------------------------------------------------------------------
(* The form's recipient and destination tag fields. *)

NamesPayee(r) == r.dt = None /\ r.who # None /\ r.who \in {payee.address, payee.name}

(* Mutated: the payee of the recipient before is kept (no resetDestinationDependencies). *)
EditRecipientKeepingPayee(r) ==
  /\ r # recipient
  /\ recipient' = r
  /\ IF NamesPayee(r)
     THEN UNCHANGED <<tag, shown, issuer, serviceVars>>
     ELSE tag' = None /\ SetDestination(r, None)
  /\ UNCHANGED <<payee, sendAmount>>

(* updateRecipient *)
EditRecipient(r) ==
  /\ r # recipient
  /\ recipient' = r
  /\ IF NamesPayee(r)
     THEN UNCHANGED <<tag, payee, shown, issuer, serviceVars>>
     ELSE tag' = None /\ payee' = NoDestination /\ SetDestination(r, None)
  /\ UNCHANGED sendAmount

(* showDestinationTag hides the field unless the payee needs an editable tag. *)
EditTag(t) ==
  /\ payee.address \in NeedsTag /\ ~payee.fixed
  /\ t # tag
  /\ tag' = t
  /\ SetDestination(recipient, t)
  /\ UNCHANGED <<recipient, payee, sendAmount>>

(* SendController's reset.  The recipient's watch returns early, undefined  *)
(* being the address of the empty destination; it is the tag's watch that   *)
(* sees null become undefined and calls setDestination with nothing.        *)
Reset ==
  /\ recipient' = NoInput /\ tag' = None
  /\ payee' = NoDestination /\ sendAmount' = None
  /\ lookup' = NoLookup /\ canceled' = canceled \cup Pending
  /\ destination' = NoDestination /\ amount' = None
  /\ UpdatePaths(NoDestination, None, None)
  /\ UNCHANGED naming

-----------------------------------------------------------------------------
(* Answers of the network. *)

Settle(d) ==
  /\ lookup.asking
  /\ lookup' = [lookup EXCEPT !.asking = FALSE]
  /\ destination' = d
  /\ UpdatePaths(d, amount, issuer)
  /\ UNCHANGED <<tag, canceled, amount, sendAmount>>

(* handleDestination writes the canonical recipient back into the form. *)
LookupFound ==
  LET d == Found(lookup.question) IN
  /\ AskedTag(lookup.question) \notin BadTag
  /\ Settle(d)
  /\ payee' = d
  /\ recipient' = [who |-> IF d.name # None THEN d.name ELSE d.address, dt |-> None]
  /\ naming' = IF d.name # None THEN naming ELSE naming \cup {d}

(* Mutated: a failed lookup leaves the destination before in place. *)
LookupFailedKeeping ==
  /\ Settle(destination)
  /\ IF AskedTag(lookup.question) \in BadTag
     THEN UNCHANGED payee
     ELSE lookup.question.input.who \in Name /\ payee' = NoDestination
  /\ UNCHANGED <<recipient, naming>>

(* Account requests that fail count as an unfunded account; only federation *)
(* fails a lookup, or a tag that is not a uint32, which keeps send.destination. *)
LookupFailed ==
  /\ Settle(NoDestination)
  /\ IF AskedTag(lookup.question) \in BadTag
     THEN UNCHANGED payee
     ELSE lookup.question.input.who \in Name /\ payee' = NoDestination
  /\ UNCHANGED <<recipient, naming>>

(* Mutated: the answer of a cancelled lookup is applied (no validator). *)
CanceledAnswerApplied(q) ==
  /\ q \in canceled
  /\ canceled' = canceled \ {q}
  /\ destination' = Found(q)
  /\ UpdatePaths(Found(q), amount, issuer)
  /\ UNCHANGED <<recipient, tag, lookup, naming, amount, payee, sendAmount>>

(* A cancelled lookup answers: the validator rejects, nothing else runs. *)
CanceledAnswer(q) ==
  /\ q \in canceled
  /\ canceled' = canceled \ {q}
  /\ UNCHANGED <<recipient, tag, lookup, naming, destination, amount,
                 pathSubscription, closed, shown, payee, sendAmount, issuer>>

(* Mutated: the name is set on a copy, not on the object the form holds. *)
NameAnswerOnCopy(d, n) ==
  /\ d \in naming
  /\ n # None => Federation[n].address = d.address
  /\ naming' = naming \ {d}
  /\ destination' = IF destination = d /\ n # None THEN [d EXCEPT !.name = n] ELSE destination
  /\ UNCHANGED <<recipient, tag, lookup, canceled, amount, pathSubscription,
                 closed, shown, payee, sendAmount, issuer>>

(* Reverse federation names a destination object, or finds no name.  The *)
(* service and the form may both hold that object.                       *)
NameAnswer(d, n) ==
  LET Named(e) == IF e = d /\ n # None THEN [e EXCEPT !.name = n] ELSE e IN
  /\ d \in naming
  /\ n # None => Federation[n].address = d.address
  /\ naming' = naming \ {d}
  /\ destination' = Named(destination)
  /\ payee' = Named(payee)
  /\ UNCHANGED <<recipient, tag, lookup, canceled, amount, pathSubscription,
                 closed, shown, sendAmount, issuer>>

PathUpdate(found) ==
  /\ pathSubscription # NoPaths
  /\ shown' = BroadcastUpdate(pathSubscription, found)
  /\ UNCHANGED <<recipient, tag, payee, sendAmount, issuer, serviceVars>>

(* Mutated: the closed flag is not looked at. *)
ClosedUpdateShown(s) ==
  /\ s \in closed
  /\ closed' = closed \ {s}
  /\ shown' = BroadcastUpdate(s, TRUE)
  /\ UNCHANGED <<recipient, tag, lookup, canceled, naming, destination, amount,
                 pathSubscription, payee, sendAmount, issuer>>

(* An update of a closed subscription is ignored. *)
ClosedUpdate(s) ==
  /\ s \in closed
  /\ closed' = closed \ {s}
  /\ UNCHANGED <<recipient, tag, lookup, canceled, naming, destination, amount,
                 pathSubscription, shown, payee, sendAmount, issuer>>

-----------------------------------------------------------------------------
Init ==
  /\ recipient = NoInput /\ tag = None
  /\ lookup = NoLookup /\ canceled = {} /\ naming = {}
  /\ destination = NoDestination /\ amount = None
  /\ pathSubscription = NoPaths /\ closed = {}
  /\ shown = Report("")
  /\ payee = NoDestination /\ sendAmount = None /\ issuer = None

Unhurried == Cardinality(canceled) < MaxLate /\ Cardinality(closed) < MaxLate

Edit ==
  /\ Unhurried
  /\ \/ \E r \in Inputs \cup {NoInput} : EditRecipient(r)
     \/ \E t \in Tag \cup {None} : EditTag(t)
     \/ \E a \in Amount \cup {None} : EditAmount(a)

NetworkAnswer ==
  \/ LookupFound
  \/ LookupFailed
  \/ \E q \in canceled : CanceledAnswer(q)
  \/ \E d \in naming, n \in Name \cup {None} : NameAnswer(d, n)
  \/ \E found \in BOOLEAN : PathUpdate(found)
  \/ \E s \in closed : ClosedUpdate(s)

Next == Edit \/ Reset \/ NetworkAnswer

Spec == Init /\ [][Next]_vars

-----------------------------------------------------------------------------
(* Once a lookup is done, the service's destination answers the question     *)
(* setDestination was last called with: no answer of a cancelled lookup, and *)
(* none of an earlier recipient or tag, is ever paid.                        *)
DestinationAnswersLookup ==
  ~lookup.asking =>
    \/ destination = NoDestination
    \/ /\ lookup # NoLookup
       /\ destination.address = Found(lookup.question).address
       /\ destination.tag = Found(lookup.question).tag

(* The open subscription and the paths on screen are for the destination and *)
(* the amount the service holds now, whatever closed subscriptions deliver.  *)
OffersAreCurrent ==
  \A p \in {pathSubscription, shown.paths} \ {NoPaths} :
    p = PathsFor(destination, amount) /\ Subscribes(destination, amount)

(* The account the pane would pay is the account of the recipient in the     *)
(* form, also while a lookup is in flight.                                   *)
PayeeIsRecipient ==
  payee.address # None => AddressOf(recipient.who) = payee.address

(* When no lookup is in flight, the destination the service finds paths for  *)
(* and the destination the pane pays are one object.                         *)
OneDestination ==
  ~lookup.asking /\ destination # NoDestination => payee = destination

(* setDestination implements the promise of a cancelable lookup. *)
Address == [address : Account \cup {None}, tag : Tag \cup {None}]
Seen(d) == [address |-> d.address, tag |-> d.tag]

Lookups == INSTANCE LatestAnswer WITH
  Answer   <- Address,
  NoAnswer <- Seen(NoDestination),
  Answers  <- [q \in Question |-> {Seen(NoDestination), Seen(Found(q))}],
  asked    <- lookup.question,
  open     <- lookup.asking,
  answer   <- Seen(destination)

AnswersLatest == Lookups!Spec

=============================================================================
