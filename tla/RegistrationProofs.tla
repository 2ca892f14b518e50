------------------------- MODULE RegistrationProofs -------------------------
(***************************************************************************)
(* The safety properties of Registration, proved for any names, passwords  *)
(* and numbers of attempts.                                                *)
(***************************************************************************)
EXTENDS Registration, TLAPS

(* Attempts are numbered from 1, and a release in flight is of one that is  *)
(* over.                                                                    *)
ReleasesOK ==
  /\ step # "idle" => attempt # 0
  /\ \A r \in releases : r.token <= attempt /\ (step # "idle" => r.token < attempt)

(* The watches keep the confirmation's flag true of the form.               *)
FormOK == confirmValid /\ password # None => password = confirmation

(* While an attempt runs over a form that is left alone, what was sent is   *)
(* what is in the form, and what the servers have accepted is there.        *)
SentIsForm ==
  /\ sent = [name |-> username, password |-> password]
  /\ password \in Strong /\ confirmValid
HasName == sent.name \in Name /\ registered[sent.name] = attempt
HasWallet ==
  /\ sent.name \in Name
  /\ wallets[sent.name] = [owner |-> attempt, password |-> sent.password]
AttemptOK ==
  /\ step = "registered" /\ accepted => HasName
  /\ step = "created" /\ accepted => HasWallet
  /\ edits = 0 =>
    /\ step \in {"register", "registered", "create", "created"} => SentIsForm
    /\ step \in {"create", "created"} => HasName
    /\ step = "done" => /\ session.name \in Name
                        /\ registered[session.name] = session.owner
                        /\ session.owner = attempt
                        /\ wallets[session.name].owner = session.owner
                        /\ wallets[session.name].password = confirmation
                        /\ confirmation \in Strong

(* Whoever holds a name: another user, an attempt whose release is on its   *)
(* way, the attempt under way, or the session.                              *)
Held(n) ==
  \/ step \in {"create", "created"} /\ n = sent.name
  \/ step = "registered" /\ accepted /\ n = sent.name
  \/ step = "done" /\ n = session.name
NamesOK ==
  ~lost /\ edits = 0 =>
    \A n \in Name : \/ registered[n] \in {None, Other}
                    \/ [name |-> n, token |-> registered[n]] \in releases
                    \/ Held(n)

IInv == TypeOK /\ ReleasesOK /\ FormOK /\ AttemptOK /\ NamesOK

LEMMA Constants ==
  /\ MaxAttempts \in Nat /\ MaxEdits \in Nat /\ 0 \in 0..MaxEdits /\ None \in Owner /\ Other \in Owner
  /\ \A k \in 1..MaxAttempts : k \in Owner /\ k \notin {None, Other}
BY RegistrationAssumption DEF Owner

LEMMA InitInv == Init => IInv
<1> SUFFICES ASSUME Init PROVE IInv
  OBVIOUS
<1>1. TypeOK
  <2>1. /\ registered \in [Name -> Owner]
        /\ wallets \in [Name -> [owner : Owner, password : Password \cup {None}]]
        /\ session \in [name : Name \cup {None}, owner : Owner, password : Password \cup {None}]
    BY Constants DEF Init, NoWallet
  <2>2. /\ sent \in [name : Named \cup {None}, password : Password \cup {None}]
        /\ attempt \in 0..MaxAttempts
    BY Constants DEF Init, Nothing
  <2>3. /\ username \in Named \cup {None} /\ password \in Password \cup {None}
        /\ confirmation \in Password \cup {None}
        /\ available \in {"unknown", "yes", "no"} /\ checks \subseteq Named
        /\ step = "idle"
        /\ releases \subseteq [name : Named \cup {None}, token : 1..MaxAttempts]
    BY DEF Init
  <2>4. /\ confirmValid \in BOOLEAN /\ due \in BOOLEAN /\ accepted \in BOOLEAN
        /\ edits = 0 /\ lost \in BOOLEAN
    BY Zenon DEF Init
  <2>5. edits \in 0..MaxEdits
    BY <2>4, Constants
  <2> QED
    BY <2>1, <2>2, <2>3, <2>4, <2>5 DEF TypeOK
<1>2. ReleasesOK /\ FormOK
  BY DEF Init, ReleasesOK, FormOK
<1>3. AttemptOK /\ NamesOK
  BY DEF Init, AttemptOK, NamesOK
<1> QED
  BY <1>1, <1>2, <1>3 DEF IInv

(* The form and its checks leave the attempt and the servers alone.         *)
LEMMA FormStep ==
  ASSUME IInv,
         \/ \E n \in Named \cup {None} : EditUsername(n)
         \/ \E p \in Password \cup {None} : EditPassword(p) \/ EditConfirmation(p)
         \/ CheckUsername
         \/ \E n \in checks : CheckAnswered(n)
  PROVE  IInv'
<1>0. TypeOK /\ ReleasesOK /\ FormOK /\ AttemptOK /\ NamesOK
  BY DEF IInv
<1>1. UNCHANGED <<chain, servers, lost>>
  BY DEF EditUsername, EditPassword, EditConfirmation, CheckUsername, CheckAnswered
<1>2. edits' \in 0..MaxEdits /\ (edits' = 0 => edits = 0)
  <2>1. edits \in 0..MaxEdits /\ MaxEdits \in Nat
    BY <1>0, Constants DEF TypeOK
  <2>2. edits' = edits \/ (edits < MaxEdits /\ edits' = edits + 1)
    BY DEF EditUsername, EditPassword, EditConfirmation, CheckUsername, CheckAnswered, Edits
  <2> QED
    BY <2>1, <2>2
<1>3. (edits' = 0 /\ step # "idle") => UNCHANGED data
  BY <1>0 DEF TypeOK, EditUsername, EditPassword, EditConfirmation, CheckUsername, CheckAnswered,
             Edits, Loading, data
<1>4. /\ username' \in Named \cup {None}
      /\ password' \in Password \cup {None} /\ confirmation' \in Password \cup {None}
      /\ confirmValid' \in BOOLEAN
      /\ FormOK'
  <2>1. CASE UNCHANGED data
    BY <1>0, <2>1 DEF TypeOK, FormOK, data
  <2>2. ASSUME NEW n \in Named \cup {None}, EditUsername(n)
        PROVE  username' = n /\ UNCHANGED <<password, confirmation, confirmValid>>
    BY <2>2 DEF EditUsername
  <2>3. ASSUME NEW p \in Password \cup {None}, EditPassword(p)
        PROVE  /\ password' = p /\ UNCHANGED <<username, confirmation>>
               /\ confirmValid' = ConfirmValid(p)
    BY <2>3 DEF EditPassword
  <2>4. ASSUME NEW p \in Password \cup {None}
        PROVE  /\ ConfirmValid(p) \in BOOLEAN
               /\ ConfirmValid(p) /\ p # None => p = confirmation
    BY <1>0, Zenon DEF TypeOK, ConfirmValid
  <2>5. ASSUME NEW p \in Password \cup {None}, EditConfirmation(p)
        PROVE  /\ confirmation' = p /\ UNCHANGED <<username, password>>
               /\ confirmValid' = (password = p)
    BY <2>5 DEF EditConfirmation
  <2>6. CASE CheckUsername \/ \E n \in checks : CheckAnswered(n)
    BY <2>1, <2>6 DEF CheckUsername, CheckAnswered
  <2>7. CASE \E n \in Named \cup {None} : EditUsername(n)
    BY <1>0, <2>2, <2>7 DEF TypeOK, FormOK
  <2>8. ASSUME NEW p \in Password \cup {None}, EditPassword(p)
        PROVE  confirmValid' \in BOOLEAN /\ FormOK'
    BY <1>0, <2>3, <2>4, <2>8 DEF FormOK
  <2>9. ASSUME NEW p \in Password \cup {None}, EditConfirmation(p)
        PROVE  confirmValid' \in BOOLEAN /\ FormOK'
    BY <1>0, <2>5, <2>9, Zenon DEF FormOK
  <2> QED
    BY <1>0, <2>3, <2>5, <2>6, <2>7, <2>8, <2>9 DEF TypeOK
<1>5. /\ available' \in {"unknown", "yes", "no"} /\ due' \in BOOLEAN
      /\ checks' \subseteq Named
  <2>1. CASE UNCHANGED <<available, due, checks>>
    BY <1>0, <2>1 DEF TypeOK
  <2>2. CASE CheckUsername
    BY <1>0, <2>2 DEF TypeOK, CheckUsername, Named
  <2>3. ASSUME NEW n \in checks, CheckAnswered(n)
        PROVE  available' \in {"unknown", "yes", "no"} /\ UNCHANGED due /\ checks' \subseteq checks
    BY <2>3 DEF CheckAnswered, Availability
  <2>4. ASSUME NEW n \in Named \cup {None}, EditUsername(n)
        PROVE  available' = "unknown" /\ UNCHANGED checks /\ due' \in BOOLEAN
    BY <1>0, <2>4 DEF TypeOK, EditUsername
  <2>5. CASE \E p \in Password \cup {None} : EditPassword(p) \/ EditConfirmation(p)
    BY <2>1, <2>5 DEF EditPassword, EditConfirmation, checking
  <2> QED
    BY <1>0, <2>2, <2>3, <2>4, <2>5 DEF TypeOK
<1>6. TypeOK'
  BY <1>0, <1>1, <1>2, <1>4, <1>5 DEF TypeOK, chain, servers
<1>7. ReleasesOK'
  BY <1>0, <1>1 DEF ReleasesOK, chain, servers
<1>8. AttemptOK'
  BY <1>0, <1>1, <1>2, <1>3 DEF AttemptOK, SentIsForm, HasName, HasWallet, chain, servers, data
<1>9. NamesOK'
  BY <1>0, <1>1, <1>2 DEF NamesOK, Held, chain, servers
<1> QED
  BY <1>4, <1>6, <1>7, <1>8, <1>9 DEF IInv

LEMMA RegisterStep ==
  ASSUME IInv, AttemptRegistration \/ RegisterHandled
  PROVE  IInv'
<1>0. TypeOK /\ ReleasesOK /\ FormOK /\ AttemptOK /\ NamesOK
  BY DEF IInv
<1>1. CASE AttemptRegistration
  <2>1. /\ UNCHANGED <<data, checking, accepted, session, servers, edits, lost>>
        /\ step = "idle" /\ step' = "register" /\ attempt' = attempt + 1 /\ attempt < MaxAttempts
        /\ sent' = [name |-> username, password |-> password]
        /\ username # None /\ password \in Strong /\ confirmValid
    BY <1>1 DEF AttemptRegistration, Send, Valid
  <2>2. attempt' \in 0..MaxAttempts /\ attempt' # 0
        /\ \A r \in releases : r.token < attempt'
    BY <1>0, <2>1, Constants DEF TypeOK, ReleasesOK
  <2>3. TypeOK'
    BY <1>0, <2>1, <2>2 DEF TypeOK, data, checking, servers
  <2>4. ReleasesOK' /\ FormOK'
    BY <1>0, <2>1, <2>2 DEF ReleasesOK, FormOK, TypeOK, servers, data
  <2>5. AttemptOK'
    BY <1>0, <2>1 DEF AttemptOK, SentIsForm, data
  <2>6. NamesOK'
    BY <1>0, <2>1 DEF NamesOK, Held, servers
  <2> QED
    BY <2>3, <2>4, <2>5, <2>6 DEF IInv
<1>2. CASE RegisterHandled
  <2>1. /\ UNCHANGED <<data, checking, attempt, sent, session, wallets, releases, edits, lost>>
        /\ step = "register" /\ step' = "registered"
        /\ \/ /\ accepted' = TRUE /\ sent.name \in Name /\ registered[sent.name] = None
              /\ registered' = [registered EXCEPT ![sent.name] = attempt]
           \/ accepted' = FALSE /\ registered' = registered
    BY <1>2, Zenon DEF RegisterHandled, Registers
  <2>2. attempt \in 1..MaxAttempts /\ attempt \in Owner
    BY <1>0, <2>1, Constants DEF TypeOK, ReleasesOK
  <2>3. registered' \in [Name -> Owner] /\ accepted' \in BOOLEAN
    BY <1>0, <2>1, <2>2, ZenonT(40) DEF TypeOK
  <2>4. TypeOK'
    BY <1>0, <2>1, <2>3 DEF TypeOK, data, checking
  <2>5. ReleasesOK' /\ FormOK'
    BY <1>0, <2>1 DEF ReleasesOK, FormOK, data
  <2>6. AttemptOK'
    BY <1>0, <2>1 DEF AttemptOK, SentIsForm, HasName, TypeOK, data
  <2>7. NamesOK'
    BY <1>0, <2>1 DEF NamesOK, Held, TypeOK
  <2> QED
    BY <2>4, <2>5, <2>6, <2>7 DEF IInv
<1> QED
  BY <1>1, <1>2

LEMMA RegisterAnswerStep ==
  ASSUME IInv, NEW comes \in BOOLEAN, RegisterAnswered(comes)
  PROVE  IInv'
<1>0. TypeOK /\ ReleasesOK /\ FormOK /\ AttemptOK /\ NamesOK
  BY DEF IInv
<1>1. /\ UNCHANGED <<data, checking, attempt, session, servers, edits>>
      /\ step = "registered" /\ accepted' = FALSE
      /\ \/ /\ accepted /\ step' = "create" /\ lost' = lost
            /\ sent' = [name |-> username, password |-> password]
         \/ /\ step' = "idle" /\ sent' = Nothing
            /\ accepted => lost' = TRUE
            /\ ~accepted => lost' = lost
  BY <1>0, Zenon DEF RegisterAnswered, RegisterRefused, Send, TypeOK
<1>2. sent' \in [name : Named \cup {None}, password : Password \cup {None}]
      /\ lost' \in BOOLEAN /\ (~lost' => ~lost)
  <2>1. lost' \in BOOLEAN
    BY Zenon DEF RegisterAnswered
  <2>2. ~lost' => ~lost
    BY DEF RegisterAnswered
  <2> QED
    BY <1>0, <1>1, <2>1, <2>2 DEF TypeOK, Nothing
<1>3. TypeOK'
  BY <1>0, <1>1, <1>2, ZenonT(40) DEF TypeOK, data, checking, servers
<1>4. ReleasesOK' /\ FormOK'
  BY <1>0, <1>1 DEF ReleasesOK, FormOK, servers, data
<1>5. AttemptOK'
  BY <1>0, <1>1 DEF AttemptOK, SentIsForm, HasName, servers, data
<1>6. NamesOK'
  BY <1>0, <1>1, <1>2 DEF NamesOK, Held, AttemptOK, SentIsForm, servers
<1> QED
  BY <1>3, <1>4, <1>5, <1>6 DEF IInv

LEMMA CreateStep ==
  ASSUME IInv, CreateHandled
  PROVE  IInv'
<1>0. TypeOK /\ ReleasesOK /\ FormOK /\ AttemptOK /\ NamesOK
  BY DEF IInv
<1>1. /\ UNCHANGED <<data, checking, attempt, sent, session, registered, releases, edits, lost>>
      /\ step = "create" /\ step' = "created"
      /\ \/ /\ accepted' = TRUE /\ sent.name \in Name
            /\ wallets' = [wallets EXCEPT ![sent.name] =
                             [owner |-> attempt, password |-> sent.password]]
         \/ accepted' = FALSE /\ wallets' = wallets
  BY Zenon DEF CreateHandled, Creates
<1>2. attempt \in Owner
  BY <1>0, <1>1, Constants DEF TypeOK, ReleasesOK
<1>3. /\ wallets' \in [Name -> [owner : Owner, password : Password \cup {None}]]
      /\ accepted' \in BOOLEAN
  <2>1. [owner |-> attempt, password |-> sent.password]
          \in [owner : Owner, password : Password \cup {None}]
    BY <1>0, <1>2 DEF TypeOK
  <2>2. wallets \in [Name -> [owner : Owner, password : Password \cup {None}]]
    BY <1>0 DEF TypeOK
  <2> QED
    BY <1>1, <2>1, <2>2
<1>4. TypeOK'
  BY <1>0, <1>1, <1>3 DEF TypeOK, data, checking
<1>5. ReleasesOK' /\ FormOK'
  BY <1>0, <1>1 DEF ReleasesOK, FormOK, data
<1>6. AttemptOK'
  BY <1>0, <1>1 DEF AttemptOK, SentIsForm, HasName, HasWallet, TypeOK, data
<1>7. NamesOK'
  BY <1>0, <1>1 DEF NamesOK, Held
<1> QED
  BY <1>4, <1>5, <1>6, <1>7 DEF IInv

LEMMA CreateAnswerStep ==
  ASSUME IInv, NEW comes \in BOOLEAN, CreateAnswered(comes)
  PROVE  IInv'
<1>0. TypeOK /\ ReleasesOK /\ FormOK /\ AttemptOK /\ NamesOK
  BY DEF IInv
<1>1. /\ UNCHANGED <<data, checking, attempt, registered, wallets, edits>>
      /\ step = "created" /\ accepted' = FALSE /\ sent' = Nothing
      /\ \/ /\ accepted /\ step' = "done" /\ lost' = lost /\ releases' = releases
            /\ session' = [name |-> sent.name, owner |-> attempt, password |-> sent.password]
         \/ /\ step' = "idle" /\ session' = session
            /\ releases' = releases \cup {[name |-> username, token |-> attempt]}
  BY <1>0, Zenon DEF CreateAnswered, CreateRefused, Login, TypeOK
<1>2. lost' \in BOOLEAN /\ (~lost' => ~lost)
  <2>1. lost' \in BOOLEAN
    BY Zenon DEF CreateAnswered
  <2>2. ~lost' => ~lost
    BY DEF CreateAnswered
  <2> QED
    BY <2>1, <2>2
<1>3. attempt \in 1..MaxAttempts /\ attempt \in Owner
  BY <1>0, <1>1, Constants DEF TypeOK, ReleasesOK
<1>4. sent' \in [name : Named \cup {None}, password : Password \cup {None}]
  BY <1>1 DEF Nothing
<1>5. CASE /\ accepted /\ step' = "done" /\ lost' = lost /\ releases' = releases
           /\ session' = [name |-> sent.name, owner |-> attempt, password |-> sent.password]
  <2>1. sent.name \in Name /\ sent.password \in Password \cup {None}
    BY <1>0, <1>1, <1>5 DEF TypeOK, AttemptOK, HasWallet
  <2>2. session' \in [name : Name \cup {None}, owner : Owner, password : Password \cup {None}]
    BY <1>3, <1>5, <2>1
  <2>3. TypeOK'
    BY <1>0, <1>1, <1>2, <1>4, <1>5, <2>2 DEF TypeOK, data, checking
  <2>4. ReleasesOK' /\ FormOK'
    BY <1>0, <1>1, <1>5 DEF ReleasesOK, FormOK, data
  <2>5. AttemptOK'
    BY <1>0, <1>1, <1>5, <2>1, RegistrationAssumption
       DEF AttemptOK, SentIsForm, HasName, HasWallet, FormOK, TypeOK, data
  <2>6. NamesOK'
    BY <1>0, <1>1, <1>5 DEF NamesOK, Held
  <2> QED
    BY <2>3, <2>4, <2>5, <2>6 DEF IInv
<1>6. CASE /\ step' = "idle" /\ session' = session
           /\ releases' = releases \cup {[name |-> username, token |-> attempt]}
  <2>1. releases' \subseteq [name : Named \cup {None}, token : 1..MaxAttempts]
    BY <1>0, <1>3, <1>6 DEF TypeOK
  <2>2. TypeOK'
    BY <1>0, <1>1, <1>2, <1>4, <1>6, <2>1 DEF TypeOK, data, checking
  <2>3. ReleasesOK' /\ FormOK'
    BY <1>0, <1>1, <1>3, <1>6 DEF ReleasesOK, FormOK, data
  <2>4. AttemptOK'
    BY <1>0, <1>1, <1>6 DEF AttemptOK
  <2>5. NamesOK'
    <3>1. SUFFICES ASSUME ~lost', edits' = 0, NEW n \in Name
          PROVE  \/ registered[n] \in {None, Other}
                 \/ [name |-> n, token |-> registered[n]] \in releases'
      BY <1>1 DEF NamesOK
    <3>2. SentIsForm /\ HasName
      BY <1>0, <1>1, <3>1 DEF AttemptOK
    <3>3. CASE n = sent.name
      BY <1>6, <3>2, <3>3 DEF SentIsForm, HasName
    <3>4. CASE n # sent.name
      BY <1>0, <1>1, <1>2, <1>6, <3>1, <3>4 DEF NamesOK, Held
    <3> QED
      BY <3>3, <3>4
  <2> QED
    BY <2>2, <2>3, <2>4, <2>5 DEF IInv
<1> QED
  BY <1>1, <1>5, <1>6

LEMMA ReleaseStep ==
  ASSUME IInv, NEW r \in releases, NEW comes \in BOOLEAN, Release(r, comes)
  PROVE  IInv'
<1>0. TypeOK /\ ReleasesOK /\ FormOK /\ AttemptOK /\ NamesOK
  BY DEF IInv
<1>1. /\ UNCHANGED <<data, checking, chain, wallets, edits>>
      /\ releases' = releases \ {r}
      /\ \/ /\ r.name \in Name /\ registered[r.name] = r.token
            /\ registered' = [registered EXCEPT ![r.name] = None]
         \/ registered' = registered
  BY DEF Release
<1>2. lost' \in BOOLEAN
  BY Zenon DEF Release
<1>3. registered' \in [Name -> Owner]
  BY <1>0, <1>1, Constants DEF TypeOK
<1>4. TypeOK'
  BY <1>0, <1>1, <1>2, <1>3 DEF TypeOK, data, checking, chain
<1>5. ReleasesOK' /\ FormOK'
  BY <1>0, <1>1 DEF ReleasesOK, FormOK, data, chain
<1>6. ASSUME NEW n \in Name, registered[n] = attempt, step # "idle"
      PROVE  registered'[n] = registered[n]
  BY <1>0, <1>1, <1>6, Constants DEF TypeOK, ReleasesOK
<1>7. AttemptOK'
  BY <1>0, <1>1, <1>6 DEF AttemptOK, SentIsForm, HasName, HasWallet, data, chain
<1>8. NamesOK'
  <2>1. SUFFICES ASSUME ~lost', edits' = 0, NEW n \in Name
        PROVE  \/ registered'[n] \in {None, Other}
               \/ [name |-> n, token |-> registered'[n]] \in releases'
               \/ Held(n)'
    BY DEF NamesOK
  <2>2. ~lost /\ comes /\ edits = 0
    <3>1. lost' = (lost \/ ~comes) /\ edits' = edits
      BY DEF Release
    <3> QED
      BY <2>1, <3>1
  <2>3. registered' = IF r.name \in Name /\ registered[r.name] = r.token
                        THEN [registered EXCEPT ![r.name] = None] ELSE registered
    BY <2>2 DEF Release
  <2>4. Held(n) => Held(n)'
    BY <1>0, <1>1 DEF Held, chain
  <2>5. \/ registered[n] \in {None, Other}
        \/ [name |-> n, token |-> registered[n]] \in releases
        \/ Held(n)
    BY <1>0, <2>2 DEF NamesOK
  <2>6. registered'[n] \in {None, registered[n]}
    BY <1>0, <1>1 DEF TypeOK
  <2>7. CASE [name |-> n, token |-> registered[n]] = r
    BY <1>0, <2>3, <2>7 DEF TypeOK
  <2>8. CASE [name |-> n, token |-> registered[n]] # r
    BY <1>1, <2>4, <2>5, <2>6, <2>8
  <2> QED
    BY <2>7, <2>8
<1> QED
  BY <1>4, <1>5, <1>7, <1>8 DEF IInv

LEMMA OtherStep ==
  ASSUME IInv, NEW n \in Name, OtherRegisters(n)
  PROVE  IInv'
<1>0. TypeOK /\ ReleasesOK /\ FormOK /\ AttemptOK /\ NamesOK
  BY DEF IInv
<1>1. /\ UNCHANGED <<data, checking, chain, releases, edits, lost>>
      /\ registered[n] = None /\ wallets[n].owner = None
      /\ registered' \in {registered, [registered EXCEPT ![n] = Other]}
      /\ wallets' = [wallets EXCEPT ![n] = [owner |-> Other, password |-> None]]
  BY DEF OtherRegisters
<1>2. registered' \in [Name -> Owner]
  BY <1>0, <1>1, Constants DEF TypeOK
<1>3. wallets' \in [Name -> [owner : Owner, password : Password \cup {None}]]
  <2>1. [owner |-> Other, password |-> None] \in [owner : Owner, password : Password \cup {None}]
    BY Constants
  <2> QED
    BY <1>0, <1>1, <2>1 DEF TypeOK
<1>4. TypeOK'
  BY <1>0, <1>1, <1>2, <1>3 DEF TypeOK, data, checking, chain
<1>5. ReleasesOK' /\ FormOK'
  BY <1>0, <1>1 DEF ReleasesOK, FormOK, data, chain
<1>6. attempt # None /\ attempt \in Nat
  BY <1>0, Constants, RegistrationAssumption DEF TypeOK
<1>7. \A k \in Name : /\ registered[k] # None => registered'[k] = registered[k]
                      /\ wallets[k].owner # None => wallets'[k] = wallets[k]
  BY <1>0, <1>1 DEF TypeOK
<1>8. AttemptOK'
  <2>1. (step = "registered" /\ accepted => HasName)'
    BY <1>0, <1>1, <1>6, <1>7 DEF AttemptOK, HasName, chain
  <2>2. (step = "created" /\ accepted => HasWallet)'
    BY <1>0, <1>1, <1>6, <1>7 DEF AttemptOK, HasWallet, chain
  <2>3. SentIsForm => SentIsForm'
    BY <1>1 DEF SentIsForm, chain, data
  <2>4. HasName => HasName'
    BY <1>1, <1>6, <1>7 DEF HasName, chain
  <2>5. step = "done" /\ edits = 0 =>
          /\ session.name \in Name
          /\ registered[session.name] = session.owner /\ session.owner = attempt
          /\ registered'[session.name] = session.owner
          /\ wallets[session.name].owner = session.owner
          /\ wallets'[session.name] = wallets[session.name]
          /\ wallets[session.name].password = confirmation /\ confirmation \in Strong
    BY <1>0, <1>6, <1>7 DEF AttemptOK
  <2> QED
    BY <1>0, <1>1, <2>1, <2>2, <2>3, <2>4, <2>5 DEF AttemptOK, chain, data
<1>9. NamesOK'
  <2>1. \A k \in Name : registered'[k] \in {registered[k], Other}
    BY <1>0, <1>1 DEF TypeOK
  <2>2. \A k \in Name : Held(k) => Held(k)'
    BY <1>1 DEF Held, chain
  <2> QED
    BY <1>0, <1>1, <2>1, <2>2 DEF NamesOK
<1> QED
  BY <1>4, <1>5, <1>8, <1>9 DEF IInv

LEMMA NextInv ==
  ASSUME IInv, [Next]_vars
  PROVE  IInv'
<1>1. CASE UNCHANGED vars
  BY <1>1 DEF IInv, TypeOK, ReleasesOK, FormOK, AttemptOK, NamesOK, Held, SentIsForm, HasName,
             HasWallet, vars, data, checking, chain, servers
<1>2. CASE AttemptRegistration \/ RegisterHandled \/ CreateHandled
  BY <1>2, RegisterStep, CreateStep
<1>3. CASE \E comes \in BOOLEAN : RegisterAnswered(comes) \/ CreateAnswered(comes)
  BY <1>3, RegisterAnswerStep, CreateAnswerStep
<1>4. CASE \E r \in releases, comes \in BOOLEAN : Release(r, comes)
  BY <1>4, ReleaseStep
<1>5. CASE \E n \in Name : OtherRegisters(n)
  BY <1>5, OtherStep
<1> QED
  BY <1>1, <1>2, <1>3, <1>4, <1>5, FormStep DEF Next

(* The names and the attempts keep to what the form and the servers allow,  *)
(* whatever the order of edits, answers and losses.                         *)
THEOREM Inductive == Spec => []IInv
BY InitInv, NextInv, PTL DEF Spec

(* Every variable keeps its type.                                           *)
THEOREM Typing == Spec => []TypeOK
<1>1. IInv => TypeOK
  BY DEF IInv
<1> QED
  BY <1>1, Inductive, PTL

(* Who is logged in has the name with the keys of the wallet, and a wallet  *)
(* that opens with the password that was confirmed (registration-           *)
(* controller.js 176-363).                                                  *)
THEOREM LoggedInRegistered == Spec => []LoginIsRegistered
<1>1. IInv => LoginIsRegistered
  BY DEF IInv, AttemptOK, LoginIsRegistered
<1> QED
  BY <1>1, Inductive, PTL

(* A failed attempt keeps no name, unless an answer or its release was lost *)
(* or the form edited meanwhile (registration-controller.js 349-354).       *)
THEOREM Released == Spec => []NamesAreReleased
<1>1. IInv => NamesAreReleased
  BY DEF IInv, NamesOK, Held, TypeOK, Loading, NamesAreReleased
<1> QED
  BY <1>1, Inductive, PTL
=============================================================================
