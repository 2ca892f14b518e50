---------------------------- MODULE PaymentProofs ----------------------------
(***************************************************************************)
(* What the runs of Payment and SendPane check on small instances, proved  *)
(* for every value of their constants.                                     *)
(***************************************************************************)
EXTENDS SendPane, TLAPS

(* The names federation gives belong to the addresses they are shown with. *)
NameIsOf(d) == d.name # None => AddressOf(d.name) = d.address

(* What the properties need to be inductive: an open lookup asks for the     *)
(* recipient in the form (so its answer may be written back there), and the  *)
(* names that updateRecipient compares with are names of the payee.          *)
AsksForRecipient ==
  lookup.asking => /\ lookup.question \in Question
                   /\ AddressOf(lookup.question.input.who) = AddressOf(recipient.who)

(* A credit that paths are sought for has the issuer they are sought with. *)
IssuerAgrees ==
  Subscribes(destination, amount) /\ amount \notin Native => issuer = destination.address

IInv ==
  /\ TypeOK
  /\ AsksForRecipient
  /\ NameIsOf(destination) /\ NameIsOf(payee)
  /\ DestinationAnswersLookup
  /\ OffersAreCurrent
  /\ PayeeIsRecipient
  /\ OneDestination
  /\ IssuerAgrees

-----------------------------------------------------------------------------
(* Lemmas about the helpers. *)

LEMMA FoundIsDestination ==
  ASSUME NEW q \in Question
  PROVE  /\ Found(q) \in Destination
         /\ Found(q).address \in Account
         /\ Found(q).address = AddressOf(q.input.who)
         /\ NameIsOf(Found(q))
BY PaymentAssumption
DEF Question, AnInput, Found, Destination, AddressOf, AskedTag, NameIsOf

LEMMA NoDestinationFacts ==
  /\ NoDestination \in Destination
  /\ NoDestination.address = None /\ NoDestination.name = None
BY DEF NoDestination, Destination

LEMMA ReportFacts ==
  ASSUME NEW s \in Status
  PROVE  /\ Report(s) \in [status : Status, paths : Paths \cup {NoPaths}]
         /\ Report(s).paths = NoPaths
BY DEF Report

(* updatePaths leaves only offers for the destination and amount it was *)
(* called with.                                                         *)
LEMMA UpdatePathsOffers ==
  ASSUME NEW d \in Destination, NEW a \in Amount \cup {None},
         NEW held \in Account \cup {None},
         closed \subseteq Paths, pathSubscription \in Paths \cup {NoPaths},
         UpdatePaths(d, a, held)
  PROVE  /\ closed' \subseteq Paths
         /\ pathSubscription' \in Paths \cup {NoPaths}
         /\ shown' \in [status : Status, paths : Paths \cup {NoPaths}]
         /\ \A p \in {pathSubscription', shown'.paths} \ {NoPaths} :
              p = PathsFor(d, a) /\ Subscribes(d, a)
         /\ issuer' \in Account \cup {None}
         /\ Subscribes(d, a) /\ a \notin Native => issuer' = d.address
<1> USE DEF UpdatePaths
<1>0. /\ issuer' \in Account \cup {None}
      /\ Subscribes(d, a) /\ a \notin Native => issuer' = d.address
  BY DEF IssuerFor, Destination
<1>1. Subscribes(d, a) => PathsFor(d, a) \in Paths
  BY DEF Subscribes, Ready, IsValid, PathsFor, Destination, Paths
<1>2. closed' \subseteq Paths
  BY DEF OpenPaths
<1>3. pathSubscription' \in {PathsFor(d, a), NoPaths}
      /\ (pathSubscription' # NoPaths => Subscribes(d, a))
  OBVIOUS
<1>4. shown' = FirstOffer(d, a)
  OBVIOUS
<1>5. CASE Subscribes(d, a) /\ Pays(a)
  <2>1. Ready(d, a)
    BY <1>5 DEF Subscribes
  <2>2. shown' = [status |-> "paths-loaded", paths |-> PathsFor(d, a)]
    BY <1>4, <1>5, <2>1 DEF FirstOffer, BroadcastOwn
  <2> QED
    BY <1>0, <1>1, <1>2, <1>3, <1>5, <2>2 DEF Status
<1>6. CASE ~(Subscribes(d, a) /\ Pays(a))
  <2>1. shown' \in {Report(""), Report("paths-loading"), Report("destination-unfunded")}
    BY <1>4, <1>6 DEF FirstOffer
  <2>2. /\ shown'.paths = NoPaths
        /\ shown' \in [status : Status, paths : Paths \cup {NoPaths}]
    BY <2>1, ReportFacts DEF Status
  <2> QED
    BY <1>0, <1>1, <1>2, <1>3, <2>2
<1> QED
  BY <1>5, <1>6

(* A step that leaves the service's destination, amount, offers and payee *)
(* and the recipient alone keeps what the invariant says of them.         *)
LEMMA NoOffers ==
  ASSUME pathSubscription' = NoPaths, shown'.paths = NoPaths
  PROVE  OffersAreCurrent'
BY DEF OffersAreCurrent

LEMMA InitIInv == Init => IInv
<1> SUFFICES ASSUME Init PROVE IInv
  OBVIOUS
<1>1. /\ recipient = NoInput /\ tag = None /\ lookup = NoLookup
      /\ canceled = {} /\ naming = {} /\ destination = NoDestination /\ amount = None
      /\ pathSubscription = NoPaths /\ closed = {} /\ shown = Report("")
      /\ payee = NoDestination /\ sendAmount = None /\ issuer = None
  BY DEF Init
<1>2. ~lookup.asking /\ lookup \in [question : Question \cup {NoQuestion}, asking : BOOLEAN]
  BY <1>1 DEF NoLookup
<1>3. "" \in Status
  BY DEF Status
<1>4. shown.paths = NoPaths /\ shown \in [status : Status, paths : Paths \cup {NoPaths}]
  BY <1>1, <1>3, ReportFacts
<1>5. TypeOK
  BY <1>1, <1>2, <1>4, NoDestinationFacts DEF TypeOK
<1> QED
  BY <1>1, <1>2, <1>4, <1>5, NoDestinationFacts
  DEF IInv, AsksForRecipient, NameIsOf, DestinationAnswersLookup, OffersAreCurrent,
      PayeeIsRecipient, OneDestination, IssuerAgrees, Subscribes, Ready

-----------------------------------------------------------------------------
(* One lemma per action. *)

LEMMA EditAmountIInv ==
  ASSUME IInv, NEW a \in Amount \cup {None}, EditAmount(a)
  PROVE  IInv'
<1> USE DEF IInv
<1> DEFINE held == IF a # None THEN None ELSE issuer
<1>1. UpdatePaths(destination, a, held) /\ amount' = a
      /\ UNCHANGED <<recipient, tag, lookup, canceled, naming, destination, payee>>
      /\ sendAmount' \in {a, sendAmount}
  BY DEF EditAmount
<1>2. /\ closed' \subseteq Paths
      /\ pathSubscription' \in Paths \cup {NoPaths}
      /\ shown' \in [status : Status, paths : Paths \cup {NoPaths}]
      /\ \A p \in {pathSubscription', shown'.paths} \ {NoPaths} :
           p = PathsFor(destination, a) /\ Subscribes(destination, a)
      /\ issuer' \in Account \cup {None}
      /\ Subscribes(destination, a) /\ a \notin Native => issuer' = destination.address
  BY <1>1, UpdatePathsOffers DEF TypeOK
<1>3. TypeOK'
  BY <1>1, <1>2 DEF TypeOK
<1>4. OffersAreCurrent'
  BY <1>1, <1>2 DEF OffersAreCurrent, PathsFor, Subscribes, Ready, IsValid
<1>5. IssuerAgrees'
  BY <1>1, <1>2 DEF IssuerAgrees, Subscribes, Ready, IsValid
<1>6. AsksForRecipient' /\ NameIsOf(destination)' /\ NameIsOf(payee)'
      /\ DestinationAnswersLookup' /\ PayeeIsRecipient' /\ OneDestination'
  BY <1>1 DEF AsksForRecipient, NameIsOf, DestinationAnswersLookup, PayeeIsRecipient,
              OneDestination
<1> QED
  BY <1>3, <1>4, <1>5, <1>6

(* setDestination on a recipient, or on none, whatever the caller does with *)
(* the form besides, as long as the recipient it leaves there is the one    *)
(* looked up.                                                               *)
LEMMA SetDestinationIInv ==
  ASSUME IInv, NEW r \in AnInput \cup {NoInput}, NEW t \in Tag \cup {None},
         SetDestination(r, t),
         recipient' = r, tag' \in Tag \cup {None}, sendAmount' = sendAmount,
         \/ payee' = NoDestination
         \/ payee' = payee /\ recipient' = recipient
  PROVE  IInv'
<1> USE DEF IInv
<1>1. canceled' \subseteq Question /\ naming' = naming /\ amount' = amount
  BY DEF SetDestination, Pending, TypeOK, AsksForRecipient
<1>2. payee' \in Destination /\ NameIsOf(payee)' /\ PayeeIsRecipient'
  BY NoDestinationFacts DEF TypeOK, NameIsOf, PayeeIsRecipient
<1>3. CASE r = NoInput
  <2>1. /\ lookup' = NoLookup /\ destination' = NoDestination
        /\ UpdatePaths(NoDestination, amount, issuer)
    BY <1>3 DEF SetDestination
  <2>2. NoDestination \in Destination /\ NoDestination.address = None /\ NoDestination.name = None
    BY NoDestinationFacts
  <2>3. /\ closed' \subseteq Paths
        /\ pathSubscription' \in Paths \cup {NoPaths}
        /\ shown' \in [status : Status, paths : Paths \cup {NoPaths}]
        /\ \A p \in {pathSubscription', shown'.paths} \ {NoPaths} :
             p = PathsFor(NoDestination, amount) /\ Subscribes(NoDestination, amount)
        /\ issuer' \in Account \cup {None}
    BY <2>1, <2>2, UpdatePathsOffers DEF TypeOK
  <2>4. TypeOK'
    BY <1>1, <1>2, <2>1, <2>2, <2>3 DEF TypeOK, NoLookup, NoQuestion
  <2>5. OffersAreCurrent'
    BY <1>1, <2>1, <2>3 DEF OffersAreCurrent, PathsFor, Subscribes, Ready, IsValid
  <2>6. AsksForRecipient' /\ NameIsOf(destination)' /\ DestinationAnswersLookup' /\ OneDestination'
    BY <2>1, <2>2 DEF AsksForRecipient, NameIsOf, DestinationAnswersLookup, OneDestination, NoLookup
  <2>7. IssuerAgrees'
    BY <2>1, <2>2 DEF IssuerAgrees, Subscribes, Ready, IsValid
  <2> QED
    BY <1>2, <2>4, <2>5, <2>6, <2>7
<1>4. CASE r # NoInput
  <2>1. /\ lookup' = [question |-> [input |-> r, tag |-> t], asking |-> TRUE]
        /\ closed' = closed \cup OpenPaths /\ pathSubscription' = NoPaths
        /\ shown' = Report("checking-destination")
        /\ destination' = destination /\ issuer' = issuer
    BY <1>4 DEF SetDestination, ClearPaths
  <2>2. r \in AnInput /\ [input |-> r, tag |-> t] \in Question
    BY <1>4 DEF Question
  <2>3. lookup'.asking /\ lookup'.question = [input |-> r, tag |-> t]
        /\ lookup' \in [question : Question \cup {NoQuestion}, asking : BOOLEAN]
    BY <2>1, <2>2
  <2>4. shown' \in [status : Status, paths : Paths \cup {NoPaths}] /\ shown'.paths = NoPaths
    BY <2>1, ReportFacts DEF Status
  <2>5. TypeOK'
    BY <1>1, <1>2, <2>1, <2>2, <2>3, <2>4 DEF TypeOK, OpenPaths
  <2>6. AsksForRecipient'
    BY <2>2, <2>3 DEF AsksForRecipient
  <2>7. OffersAreCurrent'
    BY <2>1, <2>4, NoOffers
  <2>8. NameIsOf(destination)' /\ DestinationAnswersLookup' /\ OneDestination' /\ IssuerAgrees'
    BY <1>1, <2>1, <2>3
    DEF NameIsOf, DestinationAnswersLookup, OneDestination, IssuerAgrees, Subscribes, Ready, IsValid
  <2> QED
    BY <1>2, <2>5, <2>6, <2>7, <2>8
<1> QED
  BY <1>3, <1>4

LEMMA EditRecipientIInv ==
  ASSUME IInv, NEW r \in Inputs \cup {NoInput}, EditRecipient(r)
  PROVE  IInv'
<1> USE DEF IInv
<1>1. r \in AnInput \cup {NoInput}
  BY PaymentAssumption DEF AnInput
<1>2. CASE NamesPayee(r)
  <2>1. recipient' = r /\ UNCHANGED <<tag, payee, shown, sendAmount, issuer, serviceVars>>
    BY <1>2 DEF EditRecipient
  <2>2. AddressOf(r.who) = payee.address /\ payee.address # None
    <3>1. CASE r.who = payee.address
      BY <1>2, <3>1, PaymentAssumption DEF NamesPayee, AddressOf, TypeOK, Destination
    <3>2. CASE r.who = payee.name
      BY <1>2, <3>2, PaymentAssumption DEF NamesPayee, AddressOf, TypeOK, Destination, NameIsOf
    <3> QED
      BY <1>2, <3>1, <3>2 DEF NamesPayee
  <2>3. AddressOf(r.who) = AddressOf(recipient.who)
    BY <2>2 DEF PayeeIsRecipient
  <2>4. TypeOK'
    BY <1>1, <2>1 DEF TypeOK, serviceVars
  <2>5. AsksForRecipient' /\ PayeeIsRecipient'
    BY <2>1, <2>2, <2>3 DEF AsksForRecipient, PayeeIsRecipient, serviceVars
  <2>6. NameIsOf(destination)' /\ NameIsOf(payee)' /\ DestinationAnswersLookup'
        /\ OffersAreCurrent' /\ OneDestination' /\ IssuerAgrees'
    BY <2>1 DEF NameIsOf, DestinationAnswersLookup, OffersAreCurrent, OneDestination,
                IssuerAgrees, Subscribes, Ready, IsValid, serviceVars
  <2> QED
    BY <2>4, <2>5, <2>6
<1>3. CASE ~NamesPayee(r)
  <2>1. /\ recipient' = r /\ tag' = None /\ payee' = NoDestination
        /\ SetDestination(r, None) /\ sendAmount' = sendAmount
    BY <1>3 DEF EditRecipient
  <2> QED
    BY <1>1, <2>1, SetDestinationIInv
<1> QED
  BY <1>2, <1>3

LEMMA EditTagIInv ==
  ASSUME IInv, NEW t \in Tag \cup {None}, EditTag(t)
  PROVE  IInv'
<1>1. /\ tag' = t /\ SetDestination(recipient, t)
      /\ recipient' = recipient /\ payee' = payee /\ sendAmount' = sendAmount
  BY DEF EditTag
<1>2. recipient \in AnInput \cup {NoInput}
  BY DEF IInv, TypeOK
<1> QED
  BY <1>1, <1>2, SetDestinationIInv

LEMMA ResetIInv ==
  ASSUME IInv, Reset
  PROVE  IInv'
<1> USE DEF IInv
<1>1. /\ recipient' = NoInput /\ tag' = None /\ payee' = NoDestination /\ sendAmount' = None
      /\ lookup' = NoLookup /\ canceled' = canceled \cup Pending /\ naming' = naming
      /\ destination' = NoDestination /\ amount' = None
      /\ UpdatePaths(NoDestination, None, None)
  BY DEF Reset
<1>2. canceled' \subseteq Question
  BY <1>1 DEF Pending, TypeOK, AsksForRecipient
<1>3. /\ closed' \subseteq Paths
      /\ pathSubscription' \in Paths \cup {NoPaths}
      /\ shown' \in [status : Status, paths : Paths \cup {NoPaths}]
      /\ \A p \in {pathSubscription', shown'.paths} \ {NoPaths} :
           p = PathsFor(NoDestination, None) /\ Subscribes(NoDestination, None)
      /\ issuer' \in Account \cup {None}
  BY <1>1, UpdatePathsOffers, NoDestinationFacts DEF TypeOK
<1>4. ~lookup'.asking /\ lookup' \in [question : Question \cup {NoQuestion}, asking : BOOLEAN]
  BY <1>1 DEF NoLookup
<1>5. TypeOK'
  BY <1>1, <1>2, <1>3, <1>4, NoDestinationFacts DEF TypeOK
<1>6. OffersAreCurrent'
  BY <1>1, <1>3 DEF OffersAreCurrent, PathsFor, Subscribes, Ready, IsValid
<1>7. IssuerAgrees'
  BY <1>1 DEF IssuerAgrees, Subscribes, Ready
<1> QED
  BY <1>1, <1>4, <1>5, <1>6, <1>7, NoDestinationFacts
  DEF AsksForRecipient, NameIsOf, DestinationAnswersLookup, PayeeIsRecipient, OneDestination

(* What the end of a lookup keeps, whatever it ends with. *)
LEMMA SettleKeeps ==
  ASSUME TypeOK, NEW d \in Destination, Settle(d)
  PROVE  /\ closed' \subseteq Paths
         /\ pathSubscription' \in Paths \cup {NoPaths}
         /\ shown' \in [status : Status, paths : Paths \cup {NoPaths}]
         /\ ~lookup'.asking /\ lookup'.question = lookup.question
         /\ lookup' \in [question : Question \cup {NoQuestion}, asking : BOOLEAN]
         /\ OffersAreCurrent' /\ IssuerAgrees' /\ issuer' \in Account \cup {None}
<1>1. destination' = d /\ amount' = amount /\ UpdatePaths(d, amount, issuer)
      /\ lookup' = [lookup EXCEPT !.asking = FALSE]
  BY DEF Settle
<1>2. /\ closed' \subseteq Paths
      /\ pathSubscription' \in Paths \cup {NoPaths}
      /\ shown' \in [status : Status, paths : Paths \cup {NoPaths}]
      /\ \A p \in {pathSubscription', shown'.paths} \ {NoPaths} :
           p = PathsFor(d, amount) /\ Subscribes(d, amount)
      /\ issuer' \in Account \cup {None}
      /\ Subscribes(d, amount) /\ amount \notin Native => issuer' = d.address
  BY <1>1, UpdatePathsOffers DEF TypeOK
<1>3. OffersAreCurrent' /\ IssuerAgrees'
  BY <1>1, <1>2 DEF OffersAreCurrent, IssuerAgrees, PathsFor, Subscribes, Ready, IsValid
<1> QED
  BY <1>1, <1>2, <1>3 DEF TypeOK

LEMMA LookupFoundIInv ==
  ASSUME IInv, LookupFound
  PROVE  IInv'
<1> USE DEF IInv
<1> DEFINE q == lookup.question
           d == Found(q)
<1>1. /\ lookup.asking /\ Settle(d) /\ payee' = d
      /\ recipient' = [who |-> IF d.name # None THEN d.name ELSE d.address, dt |-> None]
      /\ naming' = IF d.name # None THEN naming ELSE naming \cup {d}
      /\ destination' = d
      /\ UNCHANGED <<tag, canceled, amount, sendAmount>>
  BY DEF LookupFound, Settle
<1>2. q \in Question
  BY <1>1 DEF AsksForRecipient
<1>3. d \in Destination /\ d.address \in Account /\ NameIsOf(d)
  BY <1>2, FoundIsDestination
<1> HIDE DEF d
<1>4. /\ closed' \subseteq Paths
      /\ pathSubscription' \in Paths \cup {NoPaths}
      /\ shown' \in [status : Status, paths : Paths \cup {NoPaths}]
      /\ ~lookup'.asking /\ lookup'.question = q
      /\ lookup' \in [question : Question \cup {NoQuestion}, asking : BOOLEAN]
      /\ OffersAreCurrent' /\ IssuerAgrees' /\ issuer' \in Account \cup {None}
  BY <1>1, <1>3, SettleKeeps
<1>5. recipient' \in AnInput /\ AddressOf(recipient'.who) = d.address
  BY <1>1, <1>3, PaymentAssumption DEF AnInput, NameIsOf, AddressOf, Destination
<1>6. naming' \subseteq Destination
  BY <1>1, <1>3 DEF TypeOK
<1>7. TypeOK'
  BY <1>1, <1>3, <1>4, <1>5, <1>6 DEF TypeOK
<1>8. lookup' # NoLookup
  BY <1>2, <1>4, PaymentAssumption DEF NoLookup, NoQuestion, Question, AnInput, NoInput
<1>9. DestinationAnswersLookup'
  BY <1>1, <1>4, <1>8 DEF DestinationAnswersLookup, d
<1>10. NameIsOf(destination)' /\ NameIsOf(payee)'
  BY <1>1, <1>3 DEF NameIsOf
<1> QED
  BY <1>1, <1>4, <1>5, <1>7, <1>9, <1>10 DEF AsksForRecipient, PayeeIsRecipient, OneDestination

LEMMA LookupFailedIInv ==
  ASSUME IInv, LookupFailed
  PROVE  IInv'
<1> USE DEF IInv
<1>1. /\ Settle(NoDestination) /\ payee' \in {payee, NoDestination}
      /\ recipient' = recipient /\ naming' = naming
      /\ destination' = NoDestination
      /\ UNCHANGED <<tag, canceled, amount, sendAmount>>
  BY DEF LookupFailed, Settle
<1>2. /\ closed' \subseteq Paths
      /\ pathSubscription' \in Paths \cup {NoPaths}
      /\ shown' \in [status : Status, paths : Paths \cup {NoPaths}]
      /\ ~lookup'.asking
      /\ lookup' \in [question : Question \cup {NoQuestion}, asking : BOOLEAN]
      /\ OffersAreCurrent' /\ IssuerAgrees' /\ issuer' \in Account \cup {None}
  BY <1>1, NoDestinationFacts, SettleKeeps
<1>3. TypeOK'
  BY <1>1, <1>2, NoDestinationFacts DEF TypeOK
<1> QED
  BY <1>1, <1>2, <1>3, NoDestinationFacts
  DEF AsksForRecipient, NameIsOf, DestinationAnswersLookup, PayeeIsRecipient, OneDestination

LEMMA CanceledAnswerIInv ==
  ASSUME IInv, NEW q \in canceled, CanceledAnswer(q)
  PROVE  IInv'
BY DEF IInv, CanceledAnswer, TypeOK, AsksForRecipient, NameIsOf, DestinationAnswersLookup,
       OffersAreCurrent, PayeeIsRecipient, OneDestination, IssuerAgrees, Subscribes, Ready, IsValid

LEMMA ClosedUpdateIInv ==
  ASSUME IInv, NEW s \in closed, ClosedUpdate(s)
  PROVE  IInv'
BY DEF IInv, ClosedUpdate, TypeOK, AsksForRecipient, NameIsOf, DestinationAnswersLookup,
       OffersAreCurrent, PayeeIsRecipient, OneDestination, IssuerAgrees, Subscribes, Ready, IsValid

(* A name completes a destination; its address and tag stay. *)
LEMMA NameAnswerIInv ==
  ASSUME IInv, NEW d \in naming, NEW n \in Name \cup {None}, NameAnswer(d, n)
  PROVE  IInv'
<1> USE DEF IInv
<1> DEFINE Named(e) == IF e = d /\ n # None THEN [e EXCEPT !.name = n] ELSE e
<1>1. /\ destination' = Named(destination) /\ payee' = Named(payee) /\ naming' = naming \ {d}
      /\ UNCHANGED <<recipient, tag, lookup, canceled, amount, pathSubscription,
                     closed, shown, sendAmount, issuer>>
      /\ n # None => Federation[n].address = d.address
  BY DEF NameAnswer
<1>2. d \in Destination
  BY DEF TypeOK
<1>3. ASSUME NEW e \in Destination, NameIsOf(e)
      PROVE  /\ Named(e) \in Destination /\ NameIsOf(Named(e))
             /\ Named(e).address = e.address /\ Named(e).tag = e.tag
             /\ e = NoDestination => Named(e) = NoDestination
  <2>1. CASE e = d /\ n # None
    <3>1. n \in Name /\ Named(e) = [e EXCEPT !.name = n]
      BY <2>1
    <3>2. Federation[n].address = e.address /\ e.address # None
      BY <2>1, <1>1, <3>1, PaymentAssumption
    <3>3. /\ Named(e) \in Destination /\ Named(e).name = n
          /\ Named(e).address = e.address /\ Named(e).tag = e.tag
      BY <3>1 DEF Destination
    <3> QED
      BY <3>1, <3>2, <3>3, NoDestinationFacts DEF NameIsOf, AddressOf
  <2>2. CASE ~(e = d /\ n # None)
    BY <2>2, <1>3
  <2> QED
    BY <2>1, <2>2
<1>4. /\ destination \in Destination /\ payee \in Destination
      /\ NameIsOf(destination) /\ NameIsOf(payee)
  BY DEF TypeOK
<1>5. /\ destination' \in Destination /\ NameIsOf(destination)'
      /\ destination'.address = destination.address /\ destination'.tag = destination.tag
      /\ destination = NoDestination => destination' = NoDestination
      /\ payee' \in Destination /\ NameIsOf(payee)' /\ payee'.address = payee.address
      /\ payee = destination => payee' = destination'
  BY <1>1, <1>3, <1>4 DEF NameIsOf
<1> HIDE DEF Named
<1>6. TypeOK'
  BY <1>1, <1>5 DEF TypeOK
<1>7. AsksForRecipient' /\ PayeeIsRecipient' /\ OneDestination'
  BY <1>1, <1>5 DEF AsksForRecipient, PayeeIsRecipient, OneDestination
<1>8. DestinationAnswersLookup'
  BY <1>1, <1>5 DEF DestinationAnswersLookup
<1>9. OffersAreCurrent' /\ IssuerAgrees'
  BY <1>1, <1>5 DEF OffersAreCurrent, IssuerAgrees, PathsFor, Subscribes, Ready, IsValid
<1> QED
  BY <1>5, <1>6, <1>7, <1>8, <1>9

LEMMA PathUpdateIInv ==
  ASSUME IInv, NEW found \in BOOLEAN, PathUpdate(found)
  PROVE  IInv'
<1> USE DEF IInv
<1>1. /\ pathSubscription # NoPaths /\ shown' = BroadcastUpdate(pathSubscription, found)
      /\ UNCHANGED <<recipient, tag, payee, sendAmount, issuer, serviceVars>>
  BY DEF PathUpdate
<1>2. /\ pathSubscription = PathsFor(destination, amount) /\ Subscribes(destination, amount)
      /\ pathSubscription \in Paths
  BY <1>1 DEF OffersAreCurrent, TypeOK
<1>3. \/ shown' = [status |-> "paths-loaded", paths |-> pathSubscription]
      \/ \E s \in Status : shown' = Report(s)
  BY <1>1, <1>2 DEF BroadcastUpdate, BroadcastOwn, Status
<1>4. /\ shown' \in [status : Status, paths : Paths \cup {NoPaths}]
      /\ shown'.paths \in {pathSubscription, NoPaths}
  <2>1. CASE shown' = [status |-> "paths-loaded", paths |-> pathSubscription]
    BY <1>2, <2>1 DEF Status
  <2>2. CASE \E s \in Status : shown' = Report(s)
    BY <2>2, ReportFacts
  <2> QED
    BY <1>3, <2>1, <2>2
<1>5. TypeOK'
  BY <1>1, <1>4 DEF TypeOK, serviceVars
<1>6. OffersAreCurrent'
  BY <1>1, <1>2, <1>4 DEF OffersAreCurrent, serviceVars
<1> QED
  BY <1>1, <1>5, <1>6
  DEF AsksForRecipient, NameIsOf, DestinationAnswersLookup, PayeeIsRecipient, OneDestination,
      IssuerAgrees, Subscribes, Ready, IsValid, serviceVars

LEMMA NextIInv == IInv /\ [Next]_vars => IInv'
<1> SUFFICES ASSUME IInv, [Next]_vars
             PROVE  IInv'
  OBVIOUS
<1>1. CASE Edit
  BY <1>1, EditRecipientIInv, EditTagIInv, EditAmountIInv DEF Edit
<1>2. CASE Reset
  BY <1>2, ResetIInv
<1>3. CASE NetworkAnswer
  BY <1>3, LookupFoundIInv, LookupFailedIInv, CanceledAnswerIInv, NameAnswerIInv,
     PathUpdateIInv, ClosedUpdateIInv DEF NetworkAnswer
<1>4. CASE UNCHANGED vars
  BY <1>4 DEF vars, IInv, TypeOK, AsksForRecipient, NameIsOf, DestinationAnswersLookup,
              OffersAreCurrent, PayeeIsRecipient, OneDestination,
              IssuerAgrees, Subscribes, Ready, IsValid
<1> QED
  BY <1>1, <1>2, <1>3, <1>4 DEF Next

-----------------------------------------------------------------------------
(* The strengthened invariant holds of every state the form and the service *)
(* can reach.                                                               *)
THEOREM Inductive == Spec => []IInv
BY InitIInv, NextIInv, PTL DEF Spec

(* Every variable stays in its type. *)
THEOREM Typing == Spec => []TypeOK
<1>1. IInv => TypeOK
  BY DEF IInv
<1> QED
  BY <1>1, Inductive, PTL

(* No answer of an abandoned lookup becomes the destination. *)
THEOREM LookupsAnswered == Spec => []DestinationAnswersLookup
<1>1. IInv => DestinationAnswersLookup
  BY DEF IInv
<1> QED
  BY <1>1, Inductive, PTL

(* No path is offered for another destination or amount than the service's. *)
THEOREM OffersCurrent == Spec => []OffersAreCurrent
<1>1. IInv => OffersAreCurrent
  BY DEF IInv
<1> QED
  BY <1>1, Inductive, PTL

(* The pane pays the account of the recipient in the form.                   *)
THEOREM PayeeAgrees == Spec => []PayeeIsRecipient
<1>1. IInv => PayeeIsRecipient
  BY DEF IInv
<1> QED
  BY <1>1, Inductive, PTL

(* Form and service have one destination once no lookup is open.             *)
THEOREM ServiceAgrees == Spec => []OneDestination
<1>1. IInv => OneDestination
  BY DEF IInv
<1> QED
  BY <1>1, Inductive, PTL

(* setDestination keeps the promise of module LatestAnswer. *)
THEOREM Refinement == Spec => AnswersLatest
<1> USE DEF Lookups!vars, Seen
<1>1. Init => Lookups!Init
  <2> SUFFICES ASSUME Init PROVE Lookups!Init
    OBVIOUS
  <2>1. lookup = NoLookup /\ destination = NoDestination
    BY DEF Init
  <2>2. lookup.question = NoQuestion /\ lookup.asking = FALSE
    BY <2>1 DEF NoLookup
  <2> QED
    BY <2>1, <2>2 DEF Lookups!Init
<1>2. IInv /\ [Next]_vars => [Lookups!Next]_(Lookups!vars)
  <2> SUFFICES ASSUME IInv, [Next]_vars
               PROVE  \/ Lookups!Next
                      \/ UNCHANGED <<lookup.question, lookup.asking, Seen(destination)>>
    OBVIOUS
  <2>1. ASSUME NEW r \in AnInput \cup {NoInput}, NEW t \in Tag \cup {None}, SetDestination(r, t)
        PROVE  Lookups!Next
    <3>1. CASE r = NoInput
      BY <2>1, <3>1 DEF SetDestination, NoLookup, Lookups!Next, Lookups!Withdraw
    <3>2. CASE r # NoInput
      <4>1. [input |-> r, tag |-> t] \in Question
        BY <3>2 DEF Question
      <4>2. /\ lookup'.question = [input |-> r, tag |-> t] /\ lookup'.asking = TRUE
            /\ destination' = destination
        BY <2>1, <3>2 DEF SetDestination
      <4>3. Lookups!Ask([input |-> r, tag |-> t])
        BY <4>2 DEF Lookups!Ask
      <4> QED
        BY <4>1, <4>3 DEF Lookups!Next
    <3> QED
      BY <3>1, <3>2
  <2>2. CASE Edit
    <3>1. ASSUME NEW r \in Inputs \cup {NoInput}, EditRecipient(r)
          PROVE  \/ Lookups!Next
                 \/ UNCHANGED <<lookup.question, lookup.asking, Seen(destination)>>
      <4>1. r \in AnInput \cup {NoInput}
        BY PaymentAssumption DEF AnInput
      <4> QED
        BY <3>1, <4>1, <2>1 DEF EditRecipient, serviceVars
    <3>2. ASSUME NEW t \in Tag \cup {None}, EditTag(t)
          PROVE  Lookups!Next
      BY <3>2, <2>1 DEF EditTag, IInv, TypeOK
    <3>3. ASSUME NEW a \in Amount \cup {None}, EditAmount(a)
          PROVE  UNCHANGED <<lookup.question, lookup.asking, Seen(destination)>>
      BY <3>3 DEF EditAmount
    <3> QED
      BY <2>2, <3>1, <3>2, <3>3 DEF Edit
  <2>3. CASE Reset
    BY <2>3 DEF Reset, NoLookup, Lookups!Next, Lookups!Withdraw
  <2>4. CASE LookupFound \/ LookupFailed
    <3> DEFINE q == lookup.question
    <3>1. PICK d \in {NoDestination, Found(q)} : Settle(d)
      BY <2>4 DEF LookupFound, LookupFailed
    <3>2. q \in Question /\ lookup.asking
      BY <3>1 DEF Settle, IInv, AsksForRecipient
    <3>3. d \in Destination
      BY <3>1, <3>2, FoundIsDestination, NoDestinationFacts
    <3>4. Seen(d) \in Address
      BY <3>3 DEF Address, Destination
    <3>5. lookup'.asking = FALSE /\ lookup'.question = q /\ destination' = d
      BY <3>1 DEF Settle, IInv, TypeOK
    <3>6. Lookups!Reply(Seen(d))
      BY <3>1, <3>2, <3>5 DEF Lookups!Reply
    <3> QED
      BY <3>4, <3>6 DEF Lookups!Next
  <2>5. ASSUME NEW q \in canceled, CanceledAnswer(q)
        PROVE  UNCHANGED <<lookup.question, lookup.asking, Seen(destination)>>
    BY <2>5 DEF CanceledAnswer
  <2>6. ASSUME NEW d \in naming, NEW n \in Name \cup {None}, NameAnswer(d, n)
        PROVE  UNCHANGED <<lookup.question, lookup.asking, Seen(destination)>>
    <3>1. lookup' = lookup /\ destination' \in {destination, [destination EXCEPT !.name = n]}
      BY <2>6 DEF NameAnswer
    <3> QED
      BY <3>1 DEF IInv, TypeOK, Destination
  <2>7. ASSUME NEW found \in BOOLEAN, PathUpdate(found)
        PROVE  UNCHANGED <<lookup.question, lookup.asking, Seen(destination)>>
    BY <2>7 DEF PathUpdate, serviceVars
  <2>8. ASSUME NEW s \in closed, ClosedUpdate(s)
        PROVE  UNCHANGED <<lookup.question, lookup.asking, Seen(destination)>>
    BY <2>8 DEF ClosedUpdate
  <2>9. CASE UNCHANGED vars
    BY <2>9 DEF vars
  <2> QED
    BY <2>2, <2>3, <2>4, <2>5, <2>6, <2>7, <2>8, <2>9 DEF Next, NetworkAnswer
<1> QED
  BY <1>1, <1>2, Inductive, PTL DEF Spec, AnswersLatest, Lookups!Spec

-----------------------------------------------------------------------------
(***************************************************************************)
(* The send pane: what is signed is what was proposed, from the invariant  *)
(* of the payment form it works on.                                        *)
(***************************************************************************)
(* Pane and form: an amount the service has is the one the pane would send, *)
(* and the path that waits for confirmation is for that amount.             *)
AmountKept == amount # None => sendAmount = amount
ConfirmOK == pane = "confirm" => path \in Paths /\ path.amount = sendAmount

(* A path proposed with no lookup open: there is none while the pane waits,   *)
(* and payee and issuer are the account the path was found for.               *)
ConfirmSettled ==
  pane = "confirm" /\ ~early =>
    /\ ~lookup.asking
    /\ payee.address = path.address
    /\ sendAmount \in Amount \ Native => issuer = path.address

PaneInv ==
  /\ IInv /\ PaneTypeOK
  /\ AmountKept /\ ConfirmOK /\ ConfirmSettled /\ SignedAsProposed

-----------------------------------------------------------------------------
LEMMA PaneConstants ==
  MaxSends \in Nat /\ None \notin Amount /\ None \notin Account
BY PaneAssumption, PaymentAssumption

LEMMA PaneStates ==
  ASSUME NEW state \in {"form", "confirm", "sending"},
         NEW isOnline \in BOOLEAN, NEW isFunded \in BOOLEAN
  PROVE  PaneState(state, isOnline, isFunded) \in {state, "disconnected", "unfunded"}
BY DEF PaneState

(* Paths on screen are for the amount that would be sent. *)
LEMMA ShownAmount ==
  ASSUME IInv, AmountKept, shown.paths # NoPaths
  PROVE  /\ shown.paths \in Paths /\ shown.paths.amount = sendAmount
         /\ ~lookup.asking => payee.address = shown.paths.address
         /\ sendAmount \notin Native => issuer = shown.paths.address
<1>1. shown.paths \in Paths
  BY DEF IInv, TypeOK
<1>2. /\ shown.paths = PathsFor(destination, amount) /\ amount # None
      /\ Subscribes(destination, amount) /\ destination.address # None
  BY DEF IInv, OffersAreCurrent, Subscribes, Ready, IsValid
<1>3. sendAmount = amount /\ shown.paths.address = destination.address
  BY <1>2 DEF AmountKept, PathsFor
<1>4. destination # NoDestination
  BY <1>2, NoDestinationFacts
<1> QED
  BY <1>1, <1>2, <1>3, <1>4 DEF IInv, OneDestination, IssuerAgrees, PathsFor

(* The form and the network keep amount and send.amount together, and the   *)
(* form alone changes them.                                                 *)
LEMMA FormKeepsAmount ==
  ASSUME AmountKept, Edit \/ NetworkAnswer
  PROVE  AmountKept'
<1>1. CASE NetworkAnswer
  BY <1>1 DEF NetworkAnswer, AmountKept, LookupFound, LookupFailed, Settle, CanceledAnswer,
              NameAnswer, PathUpdate, ClosedUpdate, serviceVars
<1>2. ASSUME NEW a \in Amount \cup {None}, EditAmount(a)
      PROVE  AmountKept'
  BY <1>2 DEF EditAmount, AmountKept
<1>3. CASE \/ \E r \in Inputs \cup {NoInput} : EditRecipient(r)
           \/ \E t \in Tag \cup {None} : EditTag(t)
  BY <1>3 DEF EditRecipient, EditTag, SetDestination, AmountKept, serviceVars
<1> QED
  BY <1>1, <1>2, <1>3 DEF Edit

LEMMA NetworkKeepsSendAmount ==
  ASSUME NetworkAnswer
  PROVE  sendAmount' = sendAmount
BY DEF NetworkAnswer, LookupFound, LookupFailed, Settle, CanceledAnswer,
       NameAnswer, PathUpdate, ClosedUpdate

(* With no lookup open the network changes neither payee nor issuer, and      *)
(* opens none.                                                                *)
LEMMA NetworkKeepsPayee ==
  ASSUME IInv, NetworkAnswer, ~lookup.asking
  PROVE  /\ ~lookup'.asking /\ payee'.address = payee.address /\ issuer' = issuer
<1>1. ASSUME NEW d \in naming, NEW n \in Name \cup {None}, NameAnswer(d, n)
      PROVE  ~lookup'.asking /\ payee'.address = payee.address /\ issuer' = issuer
  <2>1. payee' \in {payee, [payee EXCEPT !.name = n]} /\ lookup' = lookup /\ issuer' = issuer
    BY <1>1 DEF NameAnswer
  <2> QED
    BY <2>1 DEF IInv, TypeOK, Destination
<1> QED
  BY <1>1 DEF NetworkAnswer, LookupFound, LookupFailed, Settle, CanceledAnswer,
              PathUpdate, ClosedUpdate, serviceVars

LEMMA PaneInitInv == PaneInit => PaneInv
<1> SUFFICES ASSUME PaneInit PROVE PaneInv
  OBVIOUS
<1>1. IInv
  BY InitIInv DEF PaneInit
<1>2. PaneState("form", online, funded) \in {"form", "disconnected", "unfunded"}
  BY PaneStates DEF PaneInit
<1>3. PaneTypeOK
  <2>1. TypeOK
    BY <1>1 DEF IInv
  <2>2. pane \in {"form", "confirm", "sending", "disconnected", "unfunded"}
    BY <1>2 DEF PaneInit
  <2>3. online \in BOOLEAN /\ funded \in BOOLEAN
    BY DEF PaneInit
  <2>4. /\ path \in Paths \cup {NoPaths} /\ tx \in Payments \cup {NoPayment} /\ result = ""
        /\ early \in BOOLEAN
    BY DEF PaneInit
  <2>5. sent \in 0..MaxSends /\ inFlight \subseteq 1..sent
    <3>1. sent = 0 /\ inFlight = {}
      BY DEF PaneInit
    <3>2. 0 \in 0..MaxSends
      BY PaneConstants
    <3> QED
      BY <3>1, <3>2
  <2> QED
    BY <2>1, <2>2, <2>3, <2>4, <2>5 DEF PaneTypeOK
<1>4. AmountKept /\ ConfirmOK /\ ConfirmSettled /\ SignedAsProposed
  BY <1>2, PaneConstants
  DEF PaneInit, Init, AmountKept, ConfirmOK, ConfirmSettled, SignedAsProposed, NoPayment, NoPaths
<1> QED
  BY <1>1, <1>3, <1>4 DEF PaneInv

(* The form and its answers under the pane. *)
LEMMA FormStepInv ==
  ASSUME PaneInv, FormEdit \/ Answered
  PROVE  PaneInv'
<1>1. IInv'
  BY NextIInv DEF PaneInv, FormEdit, Answered, Next
<1>2. AmountKept'
  BY FormKeepsAmount DEF PaneInv, FormEdit, Answered
<1>3. PaneTypeOK'
  BY <1>1 DEF PaneInv, PaneTypeOK, IInv, FormEdit, Answered, paneVars
<1>4. ConfirmOK'
  BY NetworkKeepsSendAmount DEF PaneInv, ConfirmOK, FormEdit, Answered, paneVars
<1>5. SignedAsProposed'
  BY DEF PaneInv, SignedAsProposed, FormEdit, Answered, paneVars
<1>6. ConfirmSettled'
  <2>1. CASE FormEdit
    BY <2>1 DEF FormEdit, ConfirmSettled, paneVars
  <2>2. CASE Answered
    <3> SUFFICES ASSUME pane' = "confirm", ~early'
                 PROVE  /\ ~lookup'.asking /\ payee'.address = path'.address
                        /\ sendAmount' \in Amount \ Native => issuer' = path'.address
      BY DEF ConfirmSettled
    <3>1. /\ ~lookup.asking /\ payee.address = path.address
          /\ sendAmount \in Amount \ Native => issuer = path.address
          /\ NetworkAnswer /\ path' = path
      BY <2>2 DEF PaneInv, ConfirmSettled, Answered, paneVars
    <3>2. ~lookup'.asking /\ payee'.address = payee.address /\ issuer' = issuer
      BY <3>1, NetworkKeepsPayee DEF PaneInv
    <3>3. sendAmount' = sendAmount
      BY <3>1, NetworkKeepsSendAmount
    <3> QED
      BY <3>1, <3>2, <3>3
  <2> QED
    BY <2>1, <2>2
<1> QED
  BY <1>1, <1>2, <1>3, <1>4, <1>5, <1>6 DEF PaneInv

(* What the pane does by itself leaves the form alone. *)
LEMMA PaneStepInv ==
  ASSUME PaneInv,
         \/ Propose \/ CancelConfirm \/ SendConfirm
         \/ \E i \in inFlight, r \in {"status", "error", "stellarerror"} : TransactionEvent(i, r)
         \/ Connected \/ Disconnected \/ AccountLoaded
  PROVE  PaneInv'
<1>0. /\ IInv /\ PaneTypeOK /\ AmountKept /\ ConfirmOK /\ ConfirmSettled /\ SignedAsProposed
      /\ online \in BOOLEAN /\ funded \in BOOLEAN
  BY DEF PaneInv, PaneTypeOK
<1>1. UNCHANGED vars
  BY DEF Propose, CancelConfirm, SendConfirm, TransactionEvent, Connected, Disconnected, AccountLoaded
<1>2. IInv' /\ AmountKept'
  <2>1. IInv'
    BY <1>0, <1>1, NextIInv
  <2> QED
    BY <1>0, <1>1, <2>1 DEF AmountKept, vars
<1>3. TypeOK'
  BY <1>2 DEF IInv
<1>4. CASE Propose
  <2>1. /\ path' \in Paths /\ path'.amount = sendAmount' /\ early' \in BOOLEAN
        /\ ~early' => /\ ~lookup'.asking /\ payee'.address = path'.address
                      /\ sendAmount' \in Amount \ Native => issuer' = path'.address
        /\ UNCHANGED <<result, online, funded, tx, sent, inFlight>>
    <3>1. /\ shown.paths # NoPaths /\ path' = shown.paths /\ early' = lookup.asking
          /\ UNCHANGED <<result, online, funded, tx, sent, inFlight>>
      BY <1>4 DEF Propose
    <3>2. lookup.asking \in BOOLEAN /\ UNCHANGED <<lookup, payee, sendAmount, issuer>>
      BY <1>0, <1>1 DEF IInv, TypeOK, vars
    <3> QED
      BY <1>0, <3>1, <3>2, ShownAmount
  <2>2. pane' \in {"confirm", "disconnected", "unfunded"}
    BY <1>0, <1>4, PaneStates DEF Propose, Show
  <2>3. online' \in BOOLEAN /\ funded' \in BOOLEAN
    BY <1>0, <2>1
  <2>4. /\ result' \in {"", "sending", "status", "error", "stellarerror"}
        /\ tx' \in Payments \cup {NoPayment}
        /\ sent' \in 0..MaxSends /\ inFlight' \subseteq 1..sent'
    BY <1>0, <2>1 DEF PaneTypeOK
  <2>5. PaneTypeOK'
    BY <1>3, <2>1, <2>2, <2>3, <2>4 DEF PaneTypeOK
  <2>6. ConfirmOK' /\ ConfirmSettled' /\ SignedAsProposed'
    BY <1>0, <2>1 DEF ConfirmOK, ConfirmSettled, SignedAsProposed
  <2> QED
    BY <1>2, <2>5, <2>6 DEF PaneInv
<1>5. CASE CancelConfirm
  <2>1. pane' \in {"form", "disconnected", "unfunded"}
    BY <1>0, <1>5, PaneStates DEF CancelConfirm, Show
  <2>2. UNCHANGED <<path, early, result, online, funded, tx, sent, inFlight>>
    BY <1>5 DEF CancelConfirm
  <2>3. PaneTypeOK'
    BY <1>0, <1>3, <2>1, <2>2 DEF PaneTypeOK
  <2>4. ConfirmOK' /\ ConfirmSettled' /\ SignedAsProposed'
    BY <1>0, <2>1, <2>2 DEF ConfirmOK, ConfirmSettled, SignedAsProposed
  <2> QED
    BY <1>2, <2>3, <2>4 DEF PaneInv
<1>6. CASE SendConfirm
  <2>1. pane' \in {"sending", "disconnected", "unfunded"}
    BY <1>0, <1>6, PaneStates DEF SendConfirm, Show
  <2>2. /\ pane = "confirm" /\ payee.address # None /\ sent < MaxSends /\ sent' = sent + 1
        /\ tx' = [address |-> payee.address, tag |-> payee.tag, amount |-> sendAmount,
                   issuer |-> issuer, path |-> path, early |-> early]
        /\ inFlight' = inFlight \cup {sent + 1} /\ result' = "sending"
        /\ UNCHANGED <<path, early, online, funded>>
    BY <1>6 DEF SendConfirm
  <2>3. sent' \in 0..MaxSends /\ inFlight' \subseteq 1..sent'
    <3>1. sent \in 0..MaxSends /\ inFlight \subseteq 1..sent
      BY <1>0 DEF PaneTypeOK
    <3>2. sent' \in 0..MaxSends
      BY <2>2, <3>1, PaneConstants
    <3>3. ASSUME NEW i \in inFlight' PROVE i \in 1..sent'
      <4>1. CASE i \in inFlight
        BY <2>2, <3>1, <4>1, PaneConstants
      <4>2. CASE i = sent + 1
        BY <2>2, <3>1, <4>2, PaneConstants
      <4> QED
        BY <2>2, <3>3, <4>1, <4>2
    <3> QED
      BY <3>2, <3>3
  <2>4. tx' \in Payments
    <3>1. path \in Paths /\ path.amount = sendAmount
      BY <1>0, <2>2 DEF ConfirmOK
    <3>2. sendAmount \in Amount
      BY <3>1 DEF Paths
    <3>3. /\ payee.address \in Account /\ payee.tag \in Tag \cup {None}
          /\ issuer \in Account \cup {None} /\ early \in BOOLEAN
      BY <1>0, <2>2 DEF PaneTypeOK, TypeOK, Destination
    <3> QED
      BY <2>2, <3>1, <3>2, <3>3 DEF Payments
  <2>5. SignedAsProposed'
    BY <1>0, <2>2 DEF SignedAsProposed, ConfirmOK, ConfirmSettled
  <2>6. PaneTypeOK'
    BY <1>0, <1>3, <2>1, <2>2, <2>3, <2>4 DEF PaneTypeOK
  <2> QED
    BY <1>2, <2>1, <2>5, <2>6 DEF PaneInv, ConfirmOK, ConfirmSettled
<1>7. CASE \E i \in inFlight, r \in {"status", "error", "stellarerror"} : TransactionEvent(i, r)
  <2>1. /\ inFlight' \subseteq inFlight /\ result' \in {"status", "error", "stellarerror"}
        /\ UNCHANGED <<pane, path, early, online, funded, tx, sent>>
    BY <1>7 DEF TransactionEvent
  <2>2. UNCHANGED <<sendAmount, issuer, payee, lookup>>
    BY <1>1 DEF vars
  <2>3. PaneTypeOK'
    BY <1>0, <1>3, <2>1 DEF PaneTypeOK
  <2>4. ConfirmOK' /\ ConfirmSettled' /\ SignedAsProposed'
    BY <1>0, <2>1, <2>2 DEF ConfirmOK, ConfirmSettled, SignedAsProposed
  <2> QED
    BY <1>2, <2>3, <2>4 DEF PaneInv
<1>8. CASE Connected \/ Disconnected \/ AccountLoaded
  <2>1. online' \in BOOLEAN /\ funded' \in BOOLEAN
    BY <1>0, <1>8 DEF Connected, Disconnected, AccountLoaded
  <2>2. UNCHANGED <<path, early, result, tx, sent, inFlight>>
    BY <1>8 DEF Connected, Disconnected, AccountLoaded
  <2>3. pane' \in {pane, "form", "disconnected", "unfunded"}
    BY <1>0, <1>8, PaneStates DEF Connected, Disconnected, AccountLoaded
  <2>4. UNCHANGED <<sendAmount, issuer, payee, lookup>>
    BY <1>1 DEF vars
  <2>5. PaneTypeOK'
    BY <1>0, <1>3, <2>1, <2>2, <2>3 DEF PaneTypeOK
  <2>6. ConfirmOK' /\ ConfirmSettled' /\ SignedAsProposed'
    BY <1>0, <2>2, <2>3, <2>4 DEF ConfirmOK, ConfirmSettled, SignedAsProposed
  <2> QED
    BY <1>2, <2>5, <2>6 DEF PaneInv
<1> QED
  BY <1>4, <1>5, <1>6, <1>7, <1>8

LEMMA PaneResetInv ==
  ASSUME PaneInv, PaneReset
  PROVE  PaneInv'
<1>1. IInv'
  BY NextIInv DEF PaneInv, PaneReset, Next
<1>2. /\ pane' \in {"form", "disconnected", "unfunded"}
      /\ UNCHANGED <<path, early, result, online, funded, tx, sent, inFlight>>
  BY PaneStates DEF PaneInv, PaneTypeOK, PaneReset, Show
<1>3. AmountKept'
  BY DEF PaneReset, Reset, AmountKept
<1>4. PaneTypeOK'
  BY <1>1, <1>2 DEF PaneInv, PaneTypeOK, IInv
<1>5. ConfirmOK' /\ ConfirmSettled' /\ SignedAsProposed'
  BY <1>2 DEF PaneInv, ConfirmOK, ConfirmSettled, SignedAsProposed
<1> QED
  BY <1>1, <1>3, <1>4, <1>5 DEF PaneInv

LEMMA PaneNextInv ==
  ASSUME PaneInv, [PaneNext]_allVars
  PROVE  PaneInv'
<1>1. CASE UNCHANGED allVars
  <2>1. UNCHANGED vars /\ UNCHANGED paneVars
    BY <1>1 DEF allVars
  <2>2. IInv'
    BY <2>1, NextIInv DEF PaneInv
  <2>3. PaneTypeOK'
    BY <2>1, <2>2 DEF PaneInv, PaneTypeOK, IInv, paneVars
  <2>4. AmountKept' /\ ConfirmOK' /\ ConfirmSettled' /\ SignedAsProposed'
    BY <2>1 DEF PaneInv, AmountKept, ConfirmOK, ConfirmSettled, SignedAsProposed, vars, paneVars
  <2> QED
    BY <2>2, <2>3, <2>4 DEF PaneInv
<1>2. CASE PaneNext
  BY <1>2, FormStepInv, PaneStepInv, PaneResetInv DEF PaneNext
<1> QED
  BY <1>1, <1>2

(* Form and pane agree on the amount in every state of the pane, connected  *)
(* or not.                                                                  *)
THEOREM PaneInductive == PaneSpec => []PaneInv
BY PaneInitInv, PaneNextInv, PTL DEF PaneSpec

(* Pane and form keep their types. *)
THEOREM PaneTyping == PaneSpec => []PaneTypeOK
<1>1. PaneInv => PaneTypeOK
  BY DEF PaneInv
<1> QED
  BY <1>1, PaneInductive, PTL

(* A transaction delivers the amount its path was found for and, unless the *)
(* path was picked while a lookup was open, to the account and with the     *)
(* issuer it was found for (send-controller.js 93-160, payment-service.js   *)
(* 163-173).                                                                *)
THEOREM Proposed == PaneSpec => []SignedAsProposed
<1>1. PaneInv => SignedAsProposed
  BY DEF PaneInv
<1> QED
  BY <1>1, PaneInductive, PTL

=============================================================================
