---------------------------- MODULE Registration ----------------------------
(***************************************************************************)
(* The registration form and the way of an attempt from the API server,    *)
(* which holds the names, to the wallet server, which holds the wallets.   *)
(*                                                                         *)
(* The chain of promises works on $scope.data itself: what it sends, it    *)
(* reads from the form as it is by then.  An attempt is known by its       *)
(* number, which stands for its keys and for the update token that the API *)
(* server gives it.                                                        *)
(***************************************************************************)
EXTENDS Naturals, FiniteSets

CONSTANTS
  Name, BadName,  \* usernames, well formed and not
  Strong, Weak,   \* passwords
  None,           \* an empty field, a free name
  Other,          \* another user
  MaxAttempts,    \* bound on the attempts that reach the API server
  MaxChecks,      \* bound on the checks of names in flight
  MaxEdits,       \* bound on the edits in the course of attempts
  MaxOthers       \* bound on the names that other users register

ASSUME RegistrationAssumption ==
  /\ None \notin Name \cup BadName \cup Strong \cup Weak
  /\ Name \cap BadName = {} /\ Strong \cap Weak = {}
  /\ Other \notin Nat /\ None \notin Nat /\ None # Other
  /\ MaxAttempts \in Nat /\ MaxChecks \in Nat
  /\ MaxEdits \in Nat /\ MaxOthers \in Nat

VARIABLES
  username, password, confirmation,  \* data
  confirmValid,  \* status.passwordConfirmValid
  available,     \* status.usernameAvailable: "unknown" (null), "yes", "no"
  due,           \* the debounced check of the name will run
  checks,        \* names that validateUsername has asked for
  step,          \* what attemptRegistration waits for: "idle", "register",
                 \* "registered", "create", "created"; "done" once logged in
  attempt,       \* number of the last attempt
  sent,          \* name and password the request in flight was sent with
  accepted,      \* what the server made of it
  registered,    \* API server: Name -> attempt, Other or None
  wallets,       \* wallet server: Name -> [owner, password], owner None for none
  releases,      \* failedRegistration requests in flight
  session,       \* the wallet logged in with: [name, owner, password], NoWallet for none
  edits,         \* history variable: edits of the form in the course of attempts
  lost           \* history variable: a server's work was done and its answer lost,
                 \* or a release was

data == <<username, password, confirmation, confirmValid>>
checking == <<available, due, checks>>
chain == <<step, attempt, sent, accepted, session>>
servers == <<registered, wallets, releases>>
vars == <<data, checking, chain, servers, edits, lost>>

Named == Name \cup BadName
Password == Strong \cup Weak
Owner == 1..MaxAttempts \cup {Other, None}
Nothing == [name |-> None, password |-> None]
NoWallet == [name |-> None, owner |-> None, password |-> None]

TypeOK ==
  /\ username \in Named \cup {None}
  /\ password \in Password \cup {None} /\ confirmation \in Password \cup {None}
  /\ confirmValid \in BOOLEAN
  /\ available \in {"unknown", "yes", "no"} /\ due \in BOOLEAN
  /\ checks \subseteq Named
  /\ step \in {"idle", "register", "registered", "create", "created", "done"}
  /\ attempt \in 0..MaxAttempts
  /\ sent \in [name : Named \cup {None}, password : Password \cup {None}]
  /\ step = "register" => sent.name # None
  /\ accepted \in BOOLEAN
  /\ registered \in [Name -> Owner]
  /\ wallets \in [Name -> [owner : Owner, password : Password \cup {None}]]
  /\ releases \subseteq [name : Named \cup {None}, token : 1..MaxAttempts]
  /\ session \in [name : Name \cup {None}, owner : Owner, password : Password \cup {None}]
  /\ edits \in 0..MaxEdits /\ lost \in BOOLEAN

Init ==
  /\ username = None /\ password = None /\ confirmation = None
  /\ confirmValid = FALSE
  /\ available = "unknown" /\ due = FALSE /\ checks = {}
  /\ step = "idle" /\ attempt = 0 /\ accepted = FALSE
  /\ sent = Nothing
  /\ registered = [n \in Name |-> None]
  /\ wallets = [n \in Name |-> [owner |-> None, password |-> None]]
  /\ releases = {} /\ session = NoWallet
  /\ edits = 0 /\ lost = FALSE

-----------------------------------------------------------------------------
(* The form.  Nothing in it is disabled while an attempt is under way. *)

Loading == step \notin {"idle", "done"}
Edits ==
  /\ step # "done"
  /\ Loading => edits < MaxEdits
  /\ edits' = IF Loading THEN edits + 1 ELSE edits

(* checkUsername of the scope *)
EditUsername(n) ==
  /\ Edits /\ n # username /\ username' = n
  /\ available' = "unknown" /\ due' = (due \/ n # None)
  /\ UNCHANGED <<password, confirmation, confirmValid, checks, chain, servers, lost>>

(* The watch of the password compares it with the confirmation, unless it is *)
(* emptied.  Slip: it does not.                                              *)
ConfirmValidUnwatched(p) == confirmValid
ConfirmValid(p) == IF p = None THEN confirmValid ELSE p = confirmation
EditPassword(p) ==
  /\ Edits /\ p # password /\ password' = p /\ confirmValid' = ConfirmValid(p)
  /\ UNCHANGED <<username, confirmation, checking, chain, servers, lost>>

EditConfirmation(p) ==
  /\ Edits /\ p # confirmation /\ confirmation' = p /\ confirmValid' = (password = p)
  /\ UNCHANGED <<username, password, checking, chain, servers, lost>>

(* The debounced check, with the name that is in the form by then *)
CheckUsername ==
  /\ due /\ due' = FALSE
  /\ checks' = IF username \in Name THEN checks \cup {username} ELSE checks
  /\ Cardinality(checks') <= MaxChecks
  /\ available' = CASE username = None -> "unknown"
                    [] username \in BadName -> "no"
                    [] OTHER -> available
  /\ UNCHANGED <<data, chain, servers, edits, lost>>

(* Its answer is taken for the name in the form, whichever it was asked for. *)
Availability(n) == {"unknown", IF registered[n] = None THEN "yes" ELSE "no"}
CheckAnswered(n) ==
  /\ checks' = checks \ {n}
  /\ available' \in Availability(n)
  /\ UNCHANGED <<data, due, chain, servers, edits, lost>>

-----------------------------------------------------------------------------
(* attemptRegistration, a singletonPromise: clicks while it runs are dropped. *)

(* validateInput, with PasswordCtrl's validator.  The captcha is always       *)
(* solved here; the server may refuse it.                                    *)
Valid ==
  /\ username # None /\ available # "no"
  /\ password \in Strong /\ confirmValid

Send(next) == step' = next /\ sent' = [name |-> username, password |-> password]

AttemptRegistration ==
  /\ step = "idle" /\ Valid /\ attempt < MaxAttempts
  /\ attempt' = attempt + 1 /\ Send("register")
  /\ UNCHANGED <<data, checking, accepted, session, servers, edits, lost>>

(* The API server; it refuses a captcha that it has seen.  A request may fail *)
(* to arrive.                                                                *)
Registers == sent.name \in Name /\ registered[sent.name] = None
RegisterHandled ==
  /\ step = "register" /\ step' = "registered"
  /\ \/ /\ accepted' = Registers
        /\ registered' = IF Registers THEN [registered EXCEPT ![sent.name] = attempt] ELSE registered
     \/ accepted' = FALSE /\ UNCHANGED registered
  /\ UNCHANGED <<data, checking, attempt, sent, session, wallets, releases, edits, lost>>

(* submitRegistration's answer, then createWallet.  Slip of the failure: the *)
(* promise is left open.                                                     *)
RegisterRefusedSilently == UNCHANGED <<step, sent>>
RegisterRefused == step' = "idle" /\ sent' = Nothing
RegisterAnswered(comes) ==
  /\ step = "registered"
  /\ lost' = (lost \/ (accepted /\ ~comes))
  /\ IF accepted /\ comes THEN Send("create") ELSE RegisterRefused
  /\ accepted' = FALSE
  /\ UNCHANGED <<data, checking, attempt, session, servers, edits>>

(* The wallet server *)
Creates == sent.name \in Name /\ wallets[sent.name].owner = None
CreateHandled ==
  /\ step = "create" /\ step' = "created"
  /\ \/ /\ accepted' = Creates
        /\ wallets' = IF Creates
             THEN [wallets EXCEPT ![sent.name] = [owner |-> attempt, password |-> sent.password]]
             ELSE wallets
     \/ accepted' = FALSE /\ UNCHANGED wallets
  /\ UNCHANGED <<data, checking, attempt, sent, session, registered, releases, edits, lost>>

(* createWallet's answer: login, or the release of the name.  Slip: the name *)
(* is kept.                                                                  *)
Login ==
  /\ step' = "done"
  /\ session' = [name |-> sent.name, owner |-> attempt, password |-> sent.password]
  /\ UNCHANGED releases
CreateRefusedKeepingName == step' = "idle" /\ UNCHANGED <<session, releases>>
CreateRefused ==
  /\ step' = "idle" /\ releases' = releases \cup {[name |-> username, token |-> attempt]}
  /\ UNCHANGED session
CreateAnswered(comes) ==
  /\ step = "created"
  /\ lost' = (lost \/ (accepted /\ ~comes))
  /\ IF accepted /\ comes THEN Login ELSE CreateRefused
  /\ accepted' = FALSE /\ sent' = Nothing
  /\ UNCHANGED <<data, checking, attempt, registered, wallets, edits>>

(* failedRegistration: the server releases a name to its token. *)
Release(r, comes) ==
  /\ releases' = releases \ {r}
  /\ registered' = IF comes /\ r.name \in Name /\ registered[r.name] = r.token
                     THEN [registered EXCEPT ![r.name] = None] ELSE registered
  /\ lost' = (lost \/ ~comes)
  /\ UNCHANGED <<data, checking, chain, wallets, edits>>

(* Other users: a name with its wallet, or a wallet only, whose name differs *)
(* in letter case (usernameHelper lowers it for the wallet server).          *)
OtherRegisters(n) ==
  /\ Cardinality({m \in Name : wallets[m].owner = Other}) < MaxOthers
  /\ registered[n] = None /\ wallets[n].owner = None
  /\ registered' \in {registered, [registered EXCEPT ![n] = Other]}
  /\ wallets' = [wallets EXCEPT ![n] = [owner |-> Other, password |-> None]]
  /\ UNCHANGED <<data, checking, chain, releases, edits, lost>>

Next ==
  \/ \E n \in Named \cup {None} : EditUsername(n)
  \/ \E p \in Password \cup {None} : EditPassword(p) \/ EditConfirmation(p)
  \/ CheckUsername
  \/ \E n \in checks : CheckAnswered(n)
  \/ AttemptRegistration \/ RegisterHandled \/ CreateHandled
  \/ \E comes \in BOOLEAN : RegisterAnswered(comes) \/ CreateAnswered(comes)
  \/ \E r \in releases, comes \in BOOLEAN : Release(r, comes)
  \/ \E n \in Name : OtherRegisters(n)

(* A request is answered or times out. *)
Served ==
  \/ RegisterHandled \/ CreateHandled
  \/ \E comes \in BOOLEAN : RegisterAnswered(comes) \/ CreateAnswered(comes)

Fairness == WF_vars(Served)

Spec == Init /\ [][Next]_vars /\ Fairness

-----------------------------------------------------------------------------
(* Who is logged in has the name at the API server with the keys of the      *)
(* wallet, and the wallet opens with the password that was confirmed, as     *)
(* long as the form was left alone while it was sent (registration-          *)
(* controller.js 176-363, password-controller.js 63-84).                     *)
LoginIsRegistered ==
  step = "done" /\ edits = 0 =>
    /\ registered[session.name] = session.owner
    /\ wallets[session.name].owner = session.owner
    /\ wallets[session.name].password = confirmation /\ confirmation \in Strong

(* A name is not kept by an attempt that failed, unless an answer or its     *)
(* release was lost or the form edited meanwhile: the release names what is  *)
(* in the form ("Release username", registration-controller.js 349-354).     *)
NamesAreReleased ==
  ~Loading /\ releases = {} /\ ~lost /\ edits = 0 =>
    \A n \in Name : registered[n] \in {None, Other} \/ n = session.name

(* Every attempt comes to an end, whichever server fails it, so the          *)
(* singletonPromise accepts another (registration-controller.js 176-363).    *)
AttemptsEnd == Loading ~> ~Loading
=============================================================================
