---------------------------- MODULE SessionProofs ----------------------------
(***************************************************************************)
(* Proofs about Session for any users, phones, requests and bounds.        *)
(***************************************************************************)
EXTENDS Session, TLAPS

USE DEF Tap, End, Is, On, notes

LEMMA EmptyType == Empty \in Prefs
  BY DEF Empty, Prefs

\* What a handler does to the requests keeps them well-typed.
LEMMA OrphanType ==
  ASSUME SessionTypeOK, NEW d \in Phone, NEW kinds
  PROVE  Orphan(d, kinds) \in [Call -> CallRec \cup {NoCall}]
  <1>1. calls \in [Call -> CallRec \cup {NoCall}]
    BY DEF SessionTypeOK
  <1>2. ASSUME NEW e \in Call, On(e, d)
        PROVE  [calls[e] EXCEPT !.live = FALSE] \in CallRec
    BY <1>1, <1>2 DEF CallRec
  <1> QED
    BY <1>1, <1>2 DEF Orphan

LEMMA EndType ==
  ASSUME SessionTypeOK, NEW c \in Call
  PROVE  /\ [calls EXCEPT ![c] = NoCall] \in [Call -> CallRec \cup {NoCall}]
         /\ calls[c] # NoCall => calls[c] \in CallRec
  BY DEF SessionTypeOK

LEMMA ReplaceType ==
  ASSUME SessionTypeOK, NEW c \in Call, NEW d \in Phone, NEW s \in Screen,
         Replace(c, d, s)
  PROVE  /\ screen' \in [Phone -> Screen]
         /\ calls' \in [Call -> CallRec \cup {NoCall}]
         /\ outlived' \in BOOLEAN
  <1>1. Orphan(d, AnyKind) \in [Call -> CallRec \cup {NoCall}]
    BY OrphanType
  <1> QED
    BY <1>1 DEF Replace, SessionTypeOK, Orphans

LEMMA AskType ==
  ASSUME SessionTypeOK, NEW c \in Call, NEW d \in Phone,
         NEW kind \in AnyKind, NEW u \in User \cup {NoUser},
         NEW t \in Phone \cup {NoToken}, Ask(c, kind, d, u, t)
  PROVE  calls' \in [Call -> CallRec \cup {NoCall}]
  BY DEF Ask, SessionTypeOK, CallRec, AnyKind

LEMMA InitTyped == SessionInit => SessionTypeOK
  <1> SUFFICES ASSUME SessionInit PROVE SessionTypeOK
    OBVIOUS
  <1>1. prefs \in [Phone -> Prefs] /\ form \in [Phone -> Prefs]
    BY EmptyType DEF SessionInit
  <1>2. screen \in [Phone -> Screen] /\ early \subseteq User \cup {NoUser}
        /\ refused \in [Phone -> SUBSET User] /\ signed \in [Phone -> User \cup {NoUser}]
    BY DEF SessionInit, Screen
  <1>3. token \in [User -> Phone \cup {NoToken}] /\ used \in [User -> SUBSET Phone]
        /\ calls \in [Call -> CallRec \cup {NoCall}]
    BY DEF SessionInit
  <1> QED
    BY <1>1, <1>2, <1>3 DEF SessionInit, SessionTypeOK

LEMMA TouchTyped ==
  ASSUME SessionTypeOK, NEW d \in Phone, Touch(d)
  PROVE  SessionTypeOK'
  <1>0. /\ prefs[d] \in Prefs /\ form[d] \in Prefs
        /\ prefs[d].user \in User \cup {NoUser}
        /\ form[d].user \in User \cup {NoUser}
        /\ form[d].token \in Phone \cup {NoToken}
    BY DEF SessionTypeOK, Prefs
  <1>1. CASE BackToSignUp(d)
    <2>1. Orphan(d, {"verify", "register"}) \in [Call -> CallRec \cup {NoCall}]
      BY OrphanType
    <2> QED
      BY <1>1, <2>1 DEF BackToSignUp, SessionTypeOK, Screen
  <1>2. CASE OpenProfile(d)
    BY <1>0, <1>2 DEF OpenProfile, SessionTypeOK, Screen
  <1>3. CASE BackToHome(d)
    <2>1. Orphan(d, {"save"}) \in [Call -> CallRec \cup {NoCall}]
      BY OrphanType
    <2> QED
      BY <1>3, <2>1 DEF BackToHome, SessionTypeOK, Screen
  <1>4. CASE Quit(d)
    BY <1>4 DEF Quit, SessionTypeOK, Screen
  <1>5. ASSUME NEW u \in User, SendCode(d, u) PROVE SessionTypeOK'
    <2>1. [user |-> u, token |-> NoToken] \in Prefs
      BY DEF Prefs
    <2> QED
      BY <1>5, <2>1 DEF SendCode, SessionTypeOK, Screen
  <1>6. ASSUME NEW c \in Call, Launch(d, c) PROVE SessionTypeOK'
    <2>1. calls' \in [Call -> CallRec \cup {NoCall}]
      BY <1>0, <1>6, AskType DEF Launch, AnyKind
    <2> QED
      BY <1>6, <2>1 DEF Launch, SessionTypeOK, Screen
  <1>7. ASSUME NEW c \in Call, TapVerify(d, c) PROVE SessionTypeOK'
    <2>1. calls' \in [Call -> CallRec \cup {NoCall}]
      BY <1>0, <1>7, AskType DEF TapVerify, AnyKind
    <2> QED
      BY <1>7, <2>1 DEF TapVerify, SessionTypeOK
  <1>8. ASSUME NEW c \in Call, TapLogout(d, c) PROVE SessionTypeOK'
    <2>1. calls' \in [Call -> CallRec \cup {NoCall}]
      BY <1>0, <1>8, AskType DEF TapLogout, AnyKind
    <2> QED
      BY <1>8, <2>1 DEF TapLogout, SessionTypeOK
  <1>9. ASSUME NEW c \in Call, TapSave(d, c) PROVE SessionTypeOK'
    <2>1. calls' \in [Call -> CallRec \cup {NoCall}]
      BY <1>0, <1>9, AskType DEF TapSave, AnyKind
    <2> QED
      BY <1>9, <2>1 DEF TapSave, SessionTypeOK
  <1>10. CASE TokenArrives(d)
    BY <1>10 DEF TokenArrives, SessionTypeOK, Screen
  <1>11. CASE CloseDrawer(d)
    <2>1. Orphan(d, {"logout"}) \in [Call -> CallRec \cup {NoCall}]
      BY OrphanType
    <2> QED
      BY <1>11, <2>1 DEF CloseDrawer, SessionTypeOK
  <1> QED
    BY <1>1, <1>2, <1>3, <1>4, <1>5, <1>6, <1>7, <1>8, <1>9, <1>10, <1>11 DEF Touch

LEMMA ReturnTyped ==
  ASSUME SessionTypeOK, NEW c \in Call, Returns(c)
  PROVE  SessionTypeOK'
  <1>0. /\ calls[c] \in CallRec
        /\ calls[c].on \in Phone /\ calls[c].user \in User \cup {NoUser}
        /\ [user |-> calls[c].user, token |-> calls[c].token] \in Prefs
        /\ [calls EXCEPT ![c] = NoCall] \in [Call -> CallRec \cup {NoCall}]
        /\ {"home", "signup"} \subseteq Screen
    <2>1. calls[c] # NoCall
      BY DEF Returns, CheckReturns, VerifyReturns, RegisterReturns,
             LogoutReturns, SaveReturns
    <2> QED
      BY <2>1, EndType DEF CallRec, Prefs, Screen
  <1>1. CASE CheckReturns(c)
    BY <1>0, <1>1, ReplaceType DEF CheckReturns, SessionTypeOK
  <1>2. CASE VerifyReturns(c)
    <2>1. [calls[c] EXCEPT !.kind = "register", !.phase = "sent"] \in CallRec
      BY <1>0 DEF CallRec
    <2>2. calls' \in [Call -> CallRec \cup {NoCall}]
      <3>1. CASE calls' # [calls EXCEPT ![c] = NoCall]
        <4> DEFINE v == [calls[c] EXCEPT !.kind = "register", !.phase = "sent"]
        <4>1. calls' = [calls EXCEPT ![c] = v]
          BY <1>0, <1>2, <3>1 DEF VerifyReturns, SessionTypeOK
        <4>2. v \in CallRec
          BY <2>1
        <4> HIDE DEF v
        <4> QED
          BY <4>1, <4>2 DEF SessionTypeOK
      <3>2. CASE calls' = [calls EXCEPT ![c] = NoCall]
        BY <1>0, <3>2
      <3> QED
        BY <3>1, <3>2
    <2>3. /\ prefs' \in [Phone -> Prefs] /\ signed' \in [Phone -> User \cup {NoUser}]
          /\ refused' \in [Phone -> SUBSET User]
      BY <1>0, <1>2 DEF VerifyReturns, SessionTypeOK
    <2>4. early' \subseteq User \cup {NoUser}
      BY <1>0, <1>2 DEF VerifyReturns, SessionTypeOK
    <2> QED
      BY <1>2, <2>2, <2>3, <2>4 DEF VerifyReturns, SessionTypeOK
  <1>3. CASE RegisterReturns(c)
    <2>1. screen' \in [Phone -> Screen] /\ outlived' \in BOOLEAN
          /\ calls' \in [Call -> CallRec \cup {NoCall}]
      BY <1>0, <1>3, ReplaceType DEF RegisterReturns, SessionTypeOK
    <2>2. prefs' \in [Phone -> Prefs]
      <3>1. [prefs[calls[c].on] EXCEPT !.token = calls[c].on] \in Prefs
        BY <1>0 DEF SessionTypeOK, Prefs
      <3> QED
        BY <1>0, <1>3, <3>1 DEF RegisterReturns, SessionTypeOK
    <2> QED
      BY <1>3, <2>1, <2>2 DEF RegisterReturns, SessionTypeOK
  <1>4. CASE LogoutReturns(c)
    <2>1. screen' \in [Phone -> Screen] /\ outlived' \in BOOLEAN
          /\ calls' \in [Call -> CallRec \cup {NoCall}]
      BY <1>0, <1>4, ReplaceType DEF LogoutReturns, SessionTypeOK
    <2> QED
      BY <1>0, <1>4, <2>1, EmptyType DEF LogoutReturns, SessionTypeOK
  <1>5. CASE SaveReturns(c)
    <2>1. screen' \in [Phone -> Screen] /\ outlived' \in BOOLEAN
          /\ calls' \in [Call -> CallRec \cup {NoCall}]
      BY <1>0, <1>5, ReplaceType DEF SaveReturns, SessionTypeOK
    <2> QED
      BY <1>0, <1>5, <2>1, EmptyType DEF SaveReturns, SessionTypeOK
  <1> QED
    BY <1>1, <1>2, <1>3, <1>4, <1>5 DEF Returns

LEMMA ServeTyped ==
  ASSUME SessionTypeOK, NEW c \in Call, Serve(c) \/ Refuse(c) \/ Lose(c)
  PROVE  SessionTypeOK'
  <1>0. /\ calls[c] \in CallRec /\ calls \in [Call -> CallRec \cup {NoCall}]
        /\ calls[c].on \in Phone /\ calls[c].token \in Phone \cup {NoToken}
    BY EndType DEF Serve, Refuse, Lose, SessionTypeOK, CallRec
  <1>1. CASE Refuse(c)
    <2>1. [calls[c] EXCEPT !.phase = "failed"] \in CallRec
      BY <1>0 DEF CallRec
    <2>2. calls[c].user \in User
      BY <1>0, <1>1 DEF Refuse, CallRec
    <2> QED
      BY <1>0, <1>1, <2>1, <2>2 DEF Refuse, SessionTypeOK
  <1>2. CASE Lose(c)
    <2>1. [calls[c] EXCEPT !.phase = "failed"] \in CallRec
      BY <1>0 DEF CallRec
    <2> QED
      BY <1>0, <1>2, <2>1 DEF Lose, SessionTypeOK
  <1>3. CASE Serve(c) /\ calls[c].user = NoUser
    <2>1. [calls[c] EXCEPT !.phase = "failed"] \in CallRec
      BY <1>0 DEF CallRec
    <2> QED
      BY <1>0, <1>3, <2>1 DEF Serve, SessionTypeOK
  <1>4. CASE Serve(c) /\ calls[c].user # NoUser
    <2>1. calls[c].user \in User
      BY <1>0, <1>4 DEF CallRec
    <2> DEFINE t == IF calls[c].kind = "verify" THEN token[calls[c].user]
                                                ELSE calls[c].token
    <2>2. t \in Phone \cup {NoToken}
      BY <1>0, <2>1 DEF SessionTypeOK
    <2>3. [calls[c] EXCEPT !.phase = "done", !.token = t] \in CallRec
      BY <1>0, <2>2 DEF CallRec
    <2>4. calls' \in [Call -> CallRec \cup {NoCall}]
      BY <1>0, <1>4, <2>3 DEF Serve
    <2>5. token' \in [User -> Phone \cup {NoToken}]
      BY <1>0, <1>4, <2>1 DEF Serve, SessionTypeOK
    <2>6. used' \in [User -> SUBSET Phone]
      BY <1>0, <1>4, <2>1 DEF Serve, SessionTypeOK
    <2> QED
      BY <1>4, <2>4, <2>5, <2>6 DEF Serve, SessionTypeOK
  <1> QED
    BY <1>1, <1>2, <1>3, <1>4

\* The type invariant of the session, whatever is tapped, lost or killed.
THEOREM SessionTypeCorrect == SessionSpec => []SessionTypeOK
  <1>1. SessionTypeOK /\ [SessionNext]_sVars => SessionTypeOK'
    <2> SUFFICES ASSUME SessionTypeOK, [SessionNext]_sVars PROVE SessionTypeOK'
      OBVIOUS
    <2>1. CASE UNCHANGED sVars
      BY <2>1 DEF sVars, SessionTypeOK
    <2> QED
      BY <2>1, TouchTyped, ReturnTyped, ServeTyped DEF SessionNext
  <1> QED
    BY <1>1, InitTyped, PTL DEF SessionSpec

-----------------------------------------------------------------------------
(***************************************************************************)
(* As long as every answer meets its screen, a request in flight tells     *)
(* which screen its phone shows, so that two handlers of one phone never   *)
(* overlap where they would store different users.                         *)
(***************************************************************************)
Where == [check |-> {"splash"}, verify |-> {"verify", "ready"},
          register |-> {"verify", "ready"},
          logout |-> {"home", "profile"}, save |-> {"profile"}]

Attended ==
  \A c \in Call : calls[c] # NoCall =>
    calls[c].live /\ screen[calls[c].on] \in Where[calls[c].kind]

OwnData ==
  \A d \in Phone :
    /\ prefs[d].user \in {signed[d], NoUser}
    /\ screen[d] = "profile" => form[d].user \in {signed[d], NoUser}

OwnSaves ==
  \A c \in Call : calls[c] # NoCall /\ calls[c].kind = "save" =>
    calls[c].user \in {signed[calls[c].on], NoUser}

OwnInv == ~outlived => Attended /\ OwnData /\ OwnSaves

LEMMA WhereValues ==
  /\ Where["check"] = {"splash"} /\ Where["verify"] = {"verify", "ready"}
  /\ Where["register"] = {"verify", "ready"} /\ Where["save"] = {"profile"}
  /\ Where["logout"] = {"home", "profile"}
  BY DEF Where

\* If no answer has been outlived, the screens a handler removes had no other
\* request in flight, and only its own request ends.
LEMMA ReplaceAlone ==
  ASSUME SessionTypeOK, NEW c \in Call, NEW d \in Phone, NEW s,
         Replace(c, d, s), ~outlived'
  PROVE  /\ ~outlived
         /\ \A e \in Call \ {c} : calls[e] # NoCall => calls[e].on # d
         /\ \A e \in Call : calls'[e] = IF e = c THEN NoCall ELSE calls[e]
         /\ screen' = [screen EXCEPT ![d] = s]
  <1>1. ~outlived /\ ~Orphans(d, AnyKind, c)
    BY DEF Replace, SessionTypeOK, Orphans
  <1>2. \A e \in Call \ {c} : calls[e] # NoCall => calls[e].on # d
    BY <1>1 DEF Orphans, SessionTypeOK, CallRec, AnyKind
  <1> QED
    BY <1>1, <1>2 DEF Replace, Orphan

LEMMA OutlivedStays ==
  ASSUME SessionTypeOK, [SessionNext]_sVars, ~outlived' PROVE ~outlived
  <1>1. ASSUME NEW d \in Phone, Touch(d) PROVE ~outlived
    BY <1>1 DEF SessionTypeOK, Touch, TokenArrives, CloseDrawer, BackToSignUp,
       OpenProfile, BackToHome, Quit, SendCode, Launch, TapVerify, TapLogout, TapSave
  <1>2. ASSUME NEW c \in Call, Returns(c) PROVE ~outlived
    BY <1>2 DEF SessionTypeOK, Returns, CheckReturns, VerifyReturns,
       RegisterReturns, LogoutReturns, SaveReturns, Replace, Orphans
  <1>3. ASSUME NEW c \in Call, Serve(c) \/ Refuse(c) \/ Lose(c) PROVE ~outlived
    BY <1>3 DEF Serve, Refuse, Lose
  <1>4. CASE UNCHANGED sVars
    BY <1>4 DEF sVars
  <1> QED
    BY <1>1, <1>2, <1>3, <1>4 DEF SessionNext

LEMMA TouchOwn ==
  ASSUME SessionTypeOK, ~outlived, Attended, OwnData, OwnSaves,
         NEW d \in Phone, Touch(d), ~outlived'
  PROVE  Attended' /\ OwnData' /\ OwnSaves'
  <1> USE DEF SessionTypeOK
  <1>0. \A c \in Call : calls[c] # NoCall => calls[c] \in CallRec
    OBVIOUS
  <1>1. CASE BackToSignUp(d)
    <2>1. \A e \in Call : ~On(e, d) /\ calls'[e] = calls[e]
      BY <1>1 DEF BackToSignUp, Orphan
    <2>2. Attended'
      BY <1>1, <2>1 DEF BackToSignUp, Attended
    <2>3. OwnData' /\ OwnSaves'
      BY <1>1, <2>1 DEF BackToSignUp, OwnData, OwnSaves
    <2> QED
      BY <2>2, <2>3
  <1>2. CASE OpenProfile(d)
    <2>1. Attended'
      BY <1>0, <1>2, WhereValues DEF OpenProfile, Attended, CallRec
    <2>2. OwnData' /\ OwnSaves'
      BY <1>2 DEF OpenProfile, OwnData, OwnSaves
    <2> QED
      BY <2>1, <2>2
  <1>3. CASE BackToHome(d)
    <2>1. \A e \in Call : /\ calls'[e] = calls[e]
                          /\ calls[e] # NoCall /\ calls[e].kind = "save" => calls[e].on # d
      BY <1>3 DEF BackToHome, Orphan
    <2>2. Attended'
      BY <1>0, <1>3, <2>1, WhereValues DEF BackToHome, Attended, CallRec
    <2>3. OwnData' /\ OwnSaves'
      BY <1>3, <2>1 DEF BackToHome, OwnData, OwnSaves
    <2> QED
      BY <2>2, <2>3
  <1>4. CASE Quit(d)
    <2>1. \A e \in Call : /\ calls'[e] = IF On(e, d) THEN NoCall ELSE calls[e]
      BY <1>4 DEF Quit
    <2>2. Attended'
      BY <1>4, <2>1 DEF Quit, Attended
    <2>3. OwnData' /\ OwnSaves'
      BY <1>4, <2>1 DEF Quit, OwnData, OwnSaves
    <2> QED
      BY <2>2, <2>3
  <1>5. ASSUME NEW u \in User, SendCode(d, u)
        PROVE  Attended' /\ OwnData' /\ OwnSaves'
    <2>1. Attended'
      BY <1>0, <1>5, WhereValues DEF SendCode, Attended, CallRec
    <2>2. OwnData' /\ OwnSaves'
      BY <1>5 DEF SendCode, OwnData, OwnSaves
    <2> QED
      BY <2>1, <2>2
  <1>6. ASSUME NEW c \in Call, Launch(d, c)
        PROVE  Attended' /\ OwnData' /\ OwnSaves'
    <2>1. Attended'
      BY <1>0, <1>6, WhereValues DEF Launch, Ask, Attended, CallRec
    <2>2. OwnData' /\ OwnSaves'
      BY <1>6 DEF Launch, Ask, OwnData, OwnSaves
    <2> QED
      BY <2>1, <2>2
  <1>7. ASSUME NEW c \in Call, TapVerify(d, c)
        PROVE  Attended' /\ OwnData' /\ OwnSaves'
    <2>1. Attended'
      BY <1>0, <1>7, WhereValues DEF TapVerify, Verifying, Ask, Attended, CallRec
    <2>2. OwnData' /\ OwnSaves'
      BY <1>7 DEF TapVerify, Ask, OwnData, OwnSaves
    <2> QED
      BY <2>1, <2>2
  <1>8. ASSUME NEW c \in Call, TapLogout(d, c)
        PROVE  Attended' /\ OwnData' /\ OwnSaves'
    <2>1. Attended'
      BY <1>0, <1>8, WhereValues DEF TapLogout, Ask, Attended, CallRec
    <2>2. OwnData' /\ OwnSaves'
      BY <1>8 DEF TapLogout, Ask, OwnData, OwnSaves
    <2> QED
      BY <2>1, <2>2
  <1>9. ASSUME NEW c \in Call, TapSave(d, c)
        PROVE  Attended' /\ OwnData' /\ OwnSaves'
    <2>1. Attended'
      BY <1>0, <1>9, WhereValues DEF TapSave, Ask, Attended, CallRec
    <2>2. OwnData' /\ OwnSaves'
      BY <1>9 DEF TapSave, Ask, OwnData, OwnSaves
    <2> QED
      BY <2>1, <2>2
  <1>10. CASE TokenArrives(d)
    <2>1. Attended'
      BY <1>0, <1>10, WhereValues DEF TokenArrives, Attended, CallRec
    <2>2. OwnData' /\ OwnSaves'
      BY <1>10 DEF TokenArrives, OwnData, OwnSaves
    <2> QED
      BY <2>1, <2>2
  <1>11. ~CloseDrawer(d)
    BY DEF CloseDrawer
  <1> QED
    BY <1>1, <1>2, <1>3, <1>4, <1>5, <1>6, <1>7, <1>8, <1>9, <1>10, <1>11 DEF Touch

LEMMA ReturnOwn ==
  ASSUME SessionTypeOK, ~outlived, Attended, OwnData, OwnSaves,
         NEW c \in Call, Returns(c), ~outlived'
  PROVE  Attended' /\ OwnData' /\ OwnSaves'
  <1> USE DEF SessionTypeOK
  <1> DEFINE d == calls[c].on
  <1>0. /\ \A e \in Call : calls[e] # NoCall => calls[e] \in CallRec
        /\ calls[c] # NoCall /\ d \in Phone /\ calls[c].live
    <2>1. calls[c] # NoCall
      BY DEF Returns, CheckReturns, VerifyReturns, RegisterReturns,
             LogoutReturns, SaveReturns
    <2> QED
      BY <2>1 DEF Attended, CallRec
  \* The handler replaced the screens of d, or only ended.
  <1>1. ASSUME \A e \in Call : calls'[e] = IF e = c THEN NoCall ELSE calls[e],
               \/ screen' = screen
               \/ /\ \A e \in Call \ {c} : calls[e] # NoCall => calls[e].on # d
                  /\ \E s \in {"home", "signup"} : screen' = [screen EXCEPT ![d] = s],
               prefs'[d].user \in {signed[d], NoUser},
               \A p \in Phone \ {d} : prefs'[p] = prefs[p],
               UNCHANGED <<form, signed>>
        PROVE  Attended' /\ OwnData' /\ OwnSaves'
    <2>1. Attended'
      BY <1>0, <1>1 DEF Attended, CallRec
    <2>2. OwnData'
      BY <1>0, <1>1 DEF OwnData
    <2>3. OwnSaves'
      BY <1>1 DEF OwnSaves
    <2> QED
      BY <2>1, <2>2, <2>3
  <1>2. ASSUME NEW s \in {"home", "signup"}, Replace(c, d, s)
        PROVE  /\ \A e \in Call : calls'[e] = IF e = c THEN NoCall ELSE calls[e]
               /\ \A e \in Call \ {c} : calls[e] # NoCall => calls[e].on # d
               /\ screen' = [screen EXCEPT ![d] = s]
    BY <1>0, <1>2, ReplaceAlone
  <1>3. End(c) => \A e \in Call : calls'[e] = IF e = c THEN NoCall ELSE calls[e]
    OBVIOUS
  <1>4. CASE CheckReturns(c)
    <2>1. /\ \E s \in {"home", "signup"} : Replace(c, d, s)
          /\ UNCHANGED <<prefs, form, signed>>
      BY <1>4 DEF CheckReturns
    <2>2. prefs'[d].user \in {signed[d], NoUser}
      BY <1>0, <2>1 DEF OwnData
    <2> QED
      BY <1>1, <1>2, <2>1, <2>2
  <1>5. CASE VerifyReturns(c)
    <2>1. CASE calls[c].phase = "done"
      <3>1. /\ prefs' = [prefs EXCEPT ![d] = [user |-> calls[c].user,
                                              token |-> calls[c].token]]
            /\ signed' = [signed EXCEPT ![d] = calls[c].user]
            /\ \/ calls' = [calls EXCEPT ![c].kind = "register", ![c].phase = "sent"]
               \/ End(c)
            /\ UNCHANGED <<screen, form>>
            /\ calls[c].kind = "verify"
        BY <1>5, <2>1 DEF VerifyReturns
      <3>2. /\ \A e \in Call \ {c} : calls'[e] = calls[e]
            /\ \/ /\ calls'[c].kind = "register" /\ calls'[c].live
                  /\ calls'[c].on = d
               \/ calls'[c] = NoCall
        <4>1. CASE End(c)
          BY <4>1
        <4>2. CASE calls' = [calls EXCEPT ![c].kind = "register", ![c].phase = "sent"]
          BY <1>0, <4>2 DEF CallRec
        <4> QED
          BY <3>1, <4>1, <4>2
      <3>3. screen[d] \in {"verify", "ready"}
        BY <1>0, <3>1, WhereValues DEF Attended
      <3>4. Attended'
        BY <1>0, <3>1, <3>2, <3>3, WhereValues DEF Attended
      <3>5. OwnData'
        BY <1>0, <3>1, <3>3 DEF OwnData
      <3>6. OwnSaves'
        BY <1>0, <3>1, <3>2, <3>3, WhereValues DEF OwnSaves, Attended, CallRec
      <3> QED
        BY <3>4, <3>5, <3>6
    <2>2. CASE calls[c].phase # "done"
      <3>1. End(c) /\ UNCHANGED <<prefs, signed, screen, form>>
        BY <1>5, <2>2 DEF VerifyReturns
      <3>2. prefs'[d].user \in {signed[d], NoUser}
        BY <1>0, <3>1 DEF OwnData
      <3> QED
        BY <1>1, <1>3, <3>1, <3>2
    <2> QED
      BY <2>1, <2>2
  <1>6. CASE RegisterReturns(c)
    <2>1. /\ \/ End(c) /\ screen' = screen
             \/ \E s \in {"home", "signup"} : Replace(c, d, s)
          /\ UNCHANGED <<form, signed>>
          /\ prefs' = [prefs EXCEPT ![d].token = d] \/ prefs' = prefs
      BY <1>6 DEF RegisterReturns
    <2>2. prefs'[d].user = prefs[d].user /\ \A p \in Phone \ {d} : prefs'[p] = prefs[p]
      BY <1>0, <2>1 DEF Prefs
    <2>3. prefs'[d].user \in {signed[d], NoUser}
      BY <1>0, <2>2 DEF OwnData
    <2> QED
      BY <1>1, <1>2, <1>3, <2>1, <2>2, <2>3
  <1>7. CASE LogoutReturns(c)
    <2>1. /\ \/ End(c) /\ screen' = screen
             \/ \E s \in {"home", "signup"} : Replace(c, d, s)
          /\ UNCHANGED <<form, signed>>
          /\ prefs' = [prefs EXCEPT ![d] = Empty] \/ prefs' = prefs
      BY <1>7 DEF LogoutReturns
    <2>2. /\ prefs'[d].user \in {signed[d], NoUser}
          /\ \A p \in Phone \ {d} : prefs'[p] = prefs[p]
      BY <1>0, <2>1 DEF OwnData, Empty
    <2> QED
      BY <1>1, <1>2, <1>3, <2>1, <2>2
  <1>8. CASE SaveReturns(c)
    <2>1. /\ \/ End(c) /\ screen' = screen
             \/ \E s \in {"home", "signup"} : Replace(c, d, s)
          /\ UNCHANGED <<form, signed>>
          /\ \/ prefs' = [prefs EXCEPT ![d] = Empty]
             \/ prefs' = [prefs EXCEPT ![d] = [user |-> calls[c].user,
                                               token |-> calls[c].token]]
          /\ calls[c].kind = "save"
      BY <1>8 DEF SaveReturns
    <2>2. /\ prefs'[d].user \in {signed[d], NoUser}
          /\ \A p \in Phone \ {d} : prefs'[p] = prefs[p]
      BY <1>0, <2>1 DEF OwnSaves, Empty
    <2> QED
      BY <1>1, <1>2, <1>3, <2>1, <2>2
  <1> QED
    BY <1>4, <1>5, <1>6, <1>7, <1>8 DEF Returns

\* The backend, and the loss of a request, change its phase and token only.
LEMMA ServeFrame ==
  ASSUME SessionTypeOK, NEW c \in Call, Serve(c) \/ Refuse(c) \/ Lose(c)
  PROVE  /\ calls[c] # NoCall /\ calls'[c] # NoCall
         /\ \A e \in Call \ {c} : calls'[e] = calls[e]
         /\ calls'[c].kind = calls[c].kind /\ calls'[c].on = calls[c].on
         /\ calls'[c].user = calls[c].user /\ calls'[c].live = calls[c].live
         /\ UNCHANGED <<prefs, screen, form, outlived, signed, early>>
         /\ \A d \in Phone : /\ refused[d] \subseteq refused'[d]
                             /\ refused'[d] # refused[d] =>
                                  On(c, d) /\ calls[c].kind = "check"
  <1> USE DEF SessionTypeOK
  <1>1. /\ calls[c] # NoCall /\ calls[c] \in CallRec
        /\ UNCHANGED <<prefs, screen, form, outlived, signed, early>>
        /\ \A d \in Phone : /\ refused[d] \subseteq refused'[d]
                            /\ refused'[d] # refused[d] =>
                                 On(c, d) /\ calls[c].kind = "check"
    BY DEF Serve, Refuse, Lose
  <1>2. PICK p, t : calls' = [calls EXCEPT ![c] = [calls[c] EXCEPT !.phase = p, !.token = t]]
    <2>1. CASE Refuse(c) \/ Lose(c) \/ calls[c].user = NoUser
      <3>1. calls' = [calls EXCEPT ![c] = [calls[c] EXCEPT !.phase = "failed"]]
        BY <2>1 DEF Serve, Refuse, Lose
      <3>2. [calls[c] EXCEPT !.phase = "failed"]
              = [calls[c] EXCEPT !.phase = "failed", !.token = calls[c].token]
        BY <1>1 DEF CallRec
      <3> QED
        BY <3>1, <3>2
    <2>2. CASE ~Refuse(c) /\ ~Lose(c) /\ calls[c].user # NoUser
      BY <2>2 DEF Serve
    <2> QED
      BY <2>1, <2>2
  <1>3. calls'[c] = [calls[c] EXCEPT !.phase = p, !.token = t]
    BY <1>2
  <1>4. calls'[c] # NoCall
    <2>1. calls' \in [Call -> CallRec \cup {NoCall}]
      BY ServeTyped
    <2>2. CASE Refuse(c) \/ Lose(c) \/ calls[c].user = NoUser
      <3>1. [calls[c] EXCEPT !.phase = "failed"] \in CallRec
        BY <1>1 DEF CallRec
      <3> QED
        BY <2>2, <3>1, NoCallIsNone DEF Serve, Refuse, Lose
    <2>3. CASE ~Refuse(c) /\ ~Lose(c) /\ calls[c].user # NoUser
      <3> DEFINE w == IF calls[c].kind = "verify" THEN token[calls[c].user]
                                                  ELSE calls[c].token
      <3>1. calls[c].user \in User /\ w \in Phone \cup {NoToken}
        BY <1>1, <2>3 DEF CallRec
      <3>2. [calls[c] EXCEPT !.phase = "done", !.token = w] \in CallRec
        BY <1>1, <3>1 DEF CallRec
      <3> QED
        BY <2>3, <3>2, NoCallIsNone DEF Serve
    <2> QED
      BY <2>2, <2>3
  <1> QED
    BY <1>1, <1>2, <1>3, <1>4 DEF CallRec

LEMMA NextOwn ==
  SessionTypeOK /\ OwnInv /\ [SessionNext]_sVars => OwnInv'
  <1> SUFFICES ASSUME SessionTypeOK, OwnInv, [SessionNext]_sVars, ~outlived'
               PROVE  Attended' /\ OwnData' /\ OwnSaves'
    BY DEF OwnInv
  <1>0. ~outlived /\ Attended /\ OwnData /\ OwnSaves
    BY OutlivedStays DEF OwnInv
  <1>1. ASSUME NEW c \in Call, Serve(c) \/ Refuse(c) \/ Lose(c)
        PROVE  Attended' /\ OwnData' /\ OwnSaves'
    <2>1. /\ calls[c] # NoCall
          /\ \A e \in Call \ {c} : calls'[e] = calls[e]
          /\ calls'[c].kind = calls[c].kind /\ calls'[c].on = calls[c].on
          /\ calls'[c].user = calls[c].user /\ calls'[c].live = calls[c].live
          /\ UNCHANGED <<prefs, screen, form, signed>>
      BY <1>1, ServeFrame
    <2> QED
      BY <1>0, <2>1 DEF Attended, OwnData, OwnSaves
  <1>2. CASE UNCHANGED sVars
    BY <1>0, <1>2 DEF sVars, Attended, OwnData, OwnSaves
  <1> QED
    BY <1>0, <1>1, <1>2, TouchOwn, ReturnOwn DEF SessionNext

\* The invariant holds whatever is tapped, lost or killed.
THEOREM OwnInvariant == SessionSpec => []OwnInv
  <1>1. SessionInit => OwnInv
    BY DEF SessionInit, OwnInv, Attended, OwnData, OwnSaves, Empty
  <1> QED
    BY <1>1, NextOwn, SessionTypeCorrect, PTL DEF SessionSpec

\* A phone never stores the data of anyone but the user who last entered a code
\* on it, as long as no answer outlives its screen, whatever fails.
THEOREM StoresOwnUser == SessionSpec => []NeverAnotherUser
  <1>1. OwnInv => NeverAnotherUser
    BY DEF OwnInv, OwnData, NeverAnotherUser
  <1> QED
    BY <1>1, OwnInvariant, PTL

\* Nothing but an entered code, or the profile form of the user who is signed
\* in, puts a user into the preferences of a phone that had none.
THEOREM SignsInByCode == SessionSpec => SignedInByCode
  <1> DEFINE Good(d) ==
        \E c \in Call : /\ On(c, d) /\ calls[c].user = prefs'[d].user
                        /\ \/ calls[c].kind = "verify"
                           \/ calls[c].kind = "save" /\ screen[d] = "profile"
             Step == ~outlived' =>
                       \A d \in Phone :
                         prefs[d].user = NoUser /\ prefs'[d].user # NoUser => Good(d)
  <1>1. SessionTypeOK /\ OwnInv /\ [SessionNext]_sVars => Step
    <2> SUFFICES ASSUME SessionTypeOK, OwnInv, [SessionNext]_sVars, ~outlived',
                        NEW d \in Phone, prefs[d].user = NoUser, prefs'[d].user # NoUser
                 PROVE  Good(d)
      OBVIOUS
    <2>0. Attended
      BY OutlivedStays DEF OwnInv
    <2>1. prefs' # prefs
      OBVIOUS
    <2>2. PICK c \in Call : Returns(c)
      <3>1. ASSUME NEW p \in Phone, Touch(p) PROVE FALSE
        BY <2>1, <3>1 DEF Touch, TokenArrives, CloseDrawer, BackToSignUp,
           OpenProfile, BackToHome, Quit, SendCode, Launch, TapVerify, TapLogout, TapSave
      <3>2. ASSUME NEW c \in Call, Serve(c) \/ Refuse(c) \/ Lose(c) PROVE FALSE
        BY <2>1, <3>2 DEF Serve, Refuse, Lose
      <3> QED
        BY <2>1, <3>1, <3>2 DEF SessionNext, sVars
    <2>3. \/ VerifyReturns(c) /\ calls[c].phase = "done"
          \/ RegisterReturns(c) \/ LogoutReturns(c) \/ SaveReturns(c)
      BY <2>1, <2>2 DEF Returns, CheckReturns, VerifyReturns
    <2>4. calls[c] # NoCall /\ calls[c] \in CallRec /\ calls[c].on \in Phone
      BY <2>3 DEF VerifyReturns, RegisterReturns, LogoutReturns, SaveReturns,
         SessionTypeOK, CallRec
    <2>5. CASE VerifyReturns(c) /\ calls[c].phase = "done"
      BY <2>4, <2>5 DEF VerifyReturns, SessionTypeOK
    <2>6. CASE RegisterReturns(c)
      <3>1. prefs'[d].user = prefs[d].user
        BY <2>4, <2>6 DEF RegisterReturns, SessionTypeOK, Prefs
      <3> QED
        BY <3>1
    <2>7. CASE LogoutReturns(c)
      BY <2>4, <2>7 DEF LogoutReturns, SessionTypeOK, Empty
    <2>8. CASE SaveReturns(c)
      <3>1. calls[c].on = d /\ calls[c].user = prefs'[d].user
        BY <2>4, <2>8 DEF SaveReturns, SessionTypeOK, Empty
      <3>2. screen[d] = "profile" /\ calls[c].kind = "save"
        BY <2>0, <2>4, <2>8, <3>1, WhereValues DEF SaveReturns, Attended
      <3> QED
        BY <2>4, <3>1, <3>2
    <2> QED
      BY <2>3, <2>5, <2>6, <2>7, <2>8
  <1>2. SessionTypeOK /\ OwnInv /\ [SessionNext]_sVars => [Step]_sVars
    BY <1>1
  <1> HIDE DEF Step
  <1>3. SessionSpec => [][Step]_sVars
    BY <1>2, OwnInvariant, SessionTypeCorrect, PTL DEF SessionSpec
  <1> QED
    BY <1>3 DEF SignedInByCode, Step

-----------------------------------------------------------------------------
(***************************************************************************)
(* Without failures as well, what a request carries is what its phone      *)
(* stores: what a phone keeps while its user signs in (Kept), and what the *)
(* requests say of it (Tells).  A phone that has not been through a        *)
(* sign-in without a push token stores its own token with the user (Held), *)
(* also while the user a start refused is kept behind the sign-in page.    *)
(***************************************************************************)
SigningIn(d) == screen[d] = "signup" \/ Verifying(d)

Excused(d) == {NoUser} \cup refused[d] \cup early

Held(d) ==
  /\ prefs[d].user \notin {NoUser} \cup early
  /\ SigningIn(d) => prefs[d].user \in refused[d]

Kept(d) ==
  /\ screen[d] = "signup" => prefs[d].user \in Excused(d)
  /\ Verifying(d) =>
       /\ form[d].user # NoUser
       /\ \/ prefs[d].user \in Excused(d)
          \/ /\ prefs[d].user = form[d].user
             /\ \E c \in Call : On(c, d) /\ calls[c].kind = "register"
  /\ Held(d) => prefs[d].token = d
  /\ screen[d] \in {"home", "profile"} => prefs[d].user # NoUser
  /\ screen[d] = "profile" => form[d] = prefs[d]

Tells(c) ==
  LET k == calls[c]
      d == k.on
  IN  /\ k.kind \in {"check", "logout", "save"} => k.user = prefs[d].user
      /\ k.kind = "save" => k.token = d \/ k.user \in early
      /\ k.kind \in {"verify", "register"} => k.user = form[d].user
      /\ k.kind = "register" => prefs[d].user = form[d].user
      /\ k.phase = "failed" =>
           \/ k.user = NoUser
           \/ k.kind = "check" /\ k.user \in refused[d]
      /\ k.phase = "done" => k.user # NoUser

KeptAll == \A d \in Phone : Kept(d)

TellsAll == \A c \in Call : calls[c] # NoCall => Tells(c)

KeptInv == Undisturbed => KeptAll /\ TellsAll

LEMMA UndisturbedStays ==
  ASSUME SessionTypeOK, [SessionNext]_sVars, Undisturbed' PROVE Undisturbed
  <1>1. ~outlived
    BY OutlivedStays DEF Undisturbed
  <1>2. faults' = faults \/ faults' = faults + 1
    BY DEF SessionNext, sVars, Touch, TokenArrives, CloseDrawer, BackToSignUp,
       OpenProfile, BackToHome, Quit, SendCode, Launch, TapVerify, TapLogout,
       TapSave, Returns, CheckReturns, VerifyReturns, RegisterReturns,
       LogoutReturns, SaveReturns, Serve, Refuse, Lose
  <1> QED
    BY <1>1, <1>2 DEF Undisturbed, SessionTypeOK

\* The phones and the requests that a step leaves alone.
LEMMA KeptFrame ==
  ASSUME NEW d \in Phone, prefs'[d] = prefs[d], screen'[d] = screen[d],
         form'[d] = form[d], Kept(d),
         refused[d] \subseteq refused'[d], early \subseteq early',
         SigningIn(d) => refused'[d] = refused[d],
         \A c \in Call : On(c, d) /\ calls[c].kind = "register" =>
           calls'[c] # NoCall /\ calls'[c].on = d /\ calls'[c].kind = "register"
  PROVE  Kept(d)' /\ (Held(d)' => Held(d))
  BY DEF Kept, Held, Excused, SigningIn, Verifying

LEMMA TellsFrame ==
  ASSUME NEW c \in Call, Tells(c), calls'[c] = calls[c],
         prefs'[calls[c].on] = prefs[calls[c].on],
         \/ form'[calls[c].on].user = form[calls[c].on].user
         \/ calls[c].kind \notin {"verify", "register"},
         early \subseteq early',
         \/ calls[c].kind # "check"
         \/ refused[calls[c].on] \subseteq refused'[calls[c].on]
  PROVE  Tells(c)'
  BY DEF Tells

\* A request that was just sent.
LEMMA TellsSent ==
  ASSUME NEW c \in Call, NEW d \in Phone, NEW kind \in AnyKind \ {"register"},
         NEW u \in User \cup {NoUser}, NEW t \in Phone \cup {NoToken},
         calls \in [Call -> CallRec \cup {NoCall}], Ask(c, kind, d, u, t),
         kind = "verify" => u = form'[d].user,
         kind # "verify" => u = prefs'[d].user,
         kind = "save" => t = d \/ u \in early'
  PROVE  On(c, d)' /\ Tells(c)'
  <1> DEFINE r == [kind |-> kind, on |-> d, user |-> u, token |-> t,
                   phase |-> "sent", live |-> TRUE]
  <1>1. calls'[c] = r
    BY DEF Ask
  <1>2. r \in CallRec /\ r # NoCall
    <2>1. kind \in {"check", "verify", "register", "logout", "save"}
      BY DEF AnyKind
    <2>2. r \in CallRec
      BY <2>1 DEF CallRec
    <2> QED
      BY <2>2, NoCallIsNone
  <1>3. r.on = d /\ r.kind = kind /\ r.user = u /\ r.token = t /\ r.phase = "sent"
    OBVIOUS
  <1> HIDE DEF r
  <1>4. On(c, d)'
    BY <1>1, <1>2, <1>3
  <1>5. Tells(c)'
    BY <1>1, <1>3 DEF Tells, AnyKind
  <1> QED
    BY <1>4, <1>5

LEMMA TouchKept ==
  ASSUME SessionTypeOK, Undisturbed, Attended, KeptAll, TellsAll,
         NEW d \in Phone, Touch(d), Undisturbed'
  PROVE  KeptAll' /\ TellsAll'
  <1> USE DEF SessionTypeOK
  <1>0. /\ \A c \in Call : calls[c] # NoCall => calls[c] \in CallRec /\ Tells(c)
        /\ \A p \in Phone : Kept(p) /\ prefs[p] \in Prefs
        /\ ~outlived /\ ~outlived' /\ faults = 0 /\ faults' = 0
    BY DEF TellsAll, KeptAll, Undisturbed
  \* It is enough to look at d and at the requests that change.
  <1>1. ASSUME \A p \in Phone \ {d} :
                 /\ prefs'[p] = prefs[p] /\ screen'[p] = screen[p]
                 /\ form'[p] = form[p],
               prefs'[d] = prefs[d], UNCHANGED notes,
               \/ form'[d].user = form[d].user
               \/ \A c \in Call :
                    On(c, d) => calls[c].kind \notin {"verify", "register"},
               \A c \in Call : \/ calls'[c] = calls[c]
                               \/ calls[c] = NoCall /\ On(c, d)' /\ Tells(c)',
               Kept(d)'
        PROVE  KeptAll' /\ TellsAll'
    <2>1. ASSUME NEW p \in Phone PROVE Kept(p)'
      <3>1. CASE p = d
        BY <1>1, <3>1
      <3>2. CASE p # d
        BY <1>0, <1>1, <3>2, KeptFrame
      <3> QED
        BY <3>1, <3>2
    <2>2. ASSUME NEW c \in Call, calls'[c] # NoCall PROVE Tells(c)'
      <3>1. CASE calls'[c] = calls[c]
        <4>1. calls[c] \in CallRec /\ Tells(c) /\ calls[c].on \in Phone
          BY <1>0, <2>2, <3>1 DEF CallRec
        <4>2. /\ prefs'[calls[c].on] = prefs[calls[c].on]
              /\ \/ form'[calls[c].on].user = form[calls[c].on].user
                 \/ calls[c].kind \notin {"verify", "register"}
          BY <1>1, <2>2, <3>1, <4>1
        <4> QED
          BY <1>1, <3>1, <4>1, <4>2, TellsFrame
      <3>2. CASE calls'[c] # calls[c]
        BY <1>1, <3>2
      <3> QED
        BY <3>1, <3>2
    <2> QED
      BY <2>1, <2>2 DEF KeptAll, TellsAll
  <1>2. CASE BackToSignUp(d)
    <2>1. \A e \in Call : ~On(e, d) /\ calls'[e] = calls[e]
      BY <1>0, <1>2 DEF BackToSignUp, Orphan
    <2>2. Kept(d)'
      BY <1>0, <1>2, <2>1 DEF BackToSignUp, Kept, Held, Excused, SigningIn, Verifying
    <2> QED
      BY <1>1, <1>2, <2>1, <2>2 DEF BackToSignUp
  <1>3. CASE OpenProfile(d)
    <2>0. \A c \in Call : On(c, d) => calls[c].kind \notin {"verify", "register"}
      BY <1>0, <1>3, WhereValues DEF OpenProfile, Attended, CallRec
    <2>1. Kept(d)'
      BY <1>0, <1>3 DEF OpenProfile, Kept, Held, Excused, SigningIn, Verifying
    <2> QED
      BY <1>1, <1>3, <2>0, <2>1 DEF OpenProfile
  <1>4. CASE BackToHome(d)
    <2>1. \A e \in Call : calls'[e] = calls[e]
      BY <1>0, <1>4 DEF BackToHome, Orphan
    <2>2. Kept(d)'
      BY <1>0, <1>4, <2>1 DEF BackToHome, Kept, Held, Excused, SigningIn, Verifying
    <2> QED
      BY <1>1, <1>4, <2>1, <2>2 DEF BackToHome
  <1>5. CASE Quit(d)
    <2>1. \A e \in Call : ~On(e, d) /\ calls'[e] = calls[e]
      BY <1>0, <1>5 DEF Quit
    <2>2. Kept(d)'
      BY <1>0, <1>5, <2>1 DEF Quit, Kept, Held, Excused, SigningIn, Verifying, Screen
    <2> QED
      BY <1>1, <1>5, <2>1, <2>2 DEF Quit
  <1>6. ASSUME NEW u \in User, SendCode(d, u) PROVE KeptAll' /\ TellsAll'
    <2>1. \A e \in Call : ~On(e, d)
      BY <1>0, <1>6, WhereValues DEF SendCode, Attended, CallRec
    <2>2. Kept(d)'
      BY <1>0, <1>6, SessionSentinels DEF SendCode, Kept, Held, Excused, SigningIn, Verifying
    <2> QED
      BY <1>1, <1>6, <2>1, <2>2 DEF SendCode
  <1>7. ASSUME NEW c \in Call, Launch(d, c) PROVE KeptAll' /\ TellsAll'
    <2>1. Kept(d)'
      BY <1>0, <1>7 DEF Launch, Kept, Held, Excused, SigningIn, Verifying
    <2>2. On(c, d)' /\ Tells(c)'
      <3>1. prefs[d].user \in User \cup {NoUser}
        BY <1>0 DEF Prefs
      <3> QED
        BY <1>7, <3>1, TellsSent DEF Launch, AnyKind
    <2> QED
      BY <1>1, <1>7, <2>1, <2>2 DEF Launch, Ask
  <1>8. ASSUME NEW c \in Call, TapVerify(d, c) PROVE KeptAll' /\ TellsAll'
    <2>1. Kept(d)'
      <3>1. \A e \in Call : On(e, d) => calls'[e] = calls[e]
        BY <1>8 DEF TapVerify, Ask
      <3> QED
        BY <1>0, <1>8, <3>1, KeptFrame DEF TapVerify
    <2>2. On(c, d)' /\ Tells(c)'
      <3>1. form[d].user \in User \cup {NoUser}
        BY <1>0 DEF Prefs
      <3> QED
        BY <1>8, <3>1, TellsSent DEF TapVerify, AnyKind
    <2> QED
      BY <1>1, <1>8, <2>1, <2>2 DEF TapVerify, Ask
  <1>9. ASSUME NEW c \in Call, TapLogout(d, c) PROVE KeptAll' /\ TellsAll'
    <2>1. Kept(d)'
      BY <1>0, <1>9 DEF TapLogout, Kept, Held, Excused, SigningIn, Verifying
    <2>2. On(c, d)' /\ Tells(c)'
      <3>1. prefs[d].user \in User \cup {NoUser}
        BY <1>0 DEF Prefs
      <3> QED
        BY <1>9, <3>1, TellsSent DEF TapLogout, AnyKind
    <2> QED
      BY <1>1, <1>9, <2>1, <2>2 DEF TapLogout, Ask
  <1>10. ASSUME NEW c \in Call, TapSave(d, c) PROVE KeptAll' /\ TellsAll'
    <2>1. Kept(d)'
      BY <1>0, <1>10 DEF TapSave, Kept, Held, Excused, SigningIn, Verifying
    <2>2. On(c, d)' /\ Tells(c)'
      <3>1. form[d] = prefs[d] /\ (prefs[d].token = d \/ prefs[d].user \in early)
        BY <1>0, <1>10 DEF TapSave, Kept, Held, Excused, SigningIn, Verifying
      <3>2. /\ form[d].user \in User \cup {NoUser}
            /\ form[d].token \in Phone \cup {NoToken}
        BY <1>0, <3>1 DEF Prefs
      <3> QED
        BY <1>10, <3>1, <3>2, TellsSent DEF TapSave, AnyKind
    <2> QED
      BY <1>1, <1>10, <2>1, <2>2 DEF TapSave, Ask
  <1>11. CASE TokenArrives(d)
    <2>1. Kept(d)'
      BY <1>0, <1>11 DEF TokenArrives, Kept, Held, Excused, SigningIn, Verifying
    <2> QED
      BY <1>1, <1>11, <2>1 DEF TokenArrives
  <1>12. ~CloseDrawer(d)
    BY <1>0 DEF CloseDrawer
  <1> QED
    BY <1>2, <1>3, <1>4, <1>5, <1>6, <1>7, <1>8, <1>9, <1>10, <1>11, <1>12 DEF Touch

LEMMA ReturnKept ==
  ASSUME SessionTypeOK, Undisturbed, Attended, KeptAll, TellsAll,
         NEW c \in Call, Returns(c), Undisturbed'
  PROVE  KeptAll' /\ TellsAll'
  <1> USE DEF SessionTypeOK
  <1> DEFINE d == calls[c].on
  <1>0. /\ \A e \in Call : calls[e] # NoCall => calls[e] \in CallRec /\ Tells(e)
        /\ \A p \in Phone : Kept(p) /\ prefs[p] \in Prefs
        /\ calls[c] # NoCall /\ d \in Phone /\ calls[c].live
        /\ ~outlived'
    <2>1. calls[c] # NoCall
      BY DEF Returns, CheckReturns, VerifyReturns, RegisterReturns,
             LogoutReturns, SaveReturns
    <2> QED
      BY <2>1 DEF Attended, CallRec, TellsAll, KeptAll, Undisturbed
  \* No request on d is left when its screens have been replaced.
  <1>1. ASSUME NEW s \in {"home", "signup"}, Replace(c, d, s),
               \A p \in Phone \ {d} : prefs'[p] = prefs[p],
               UNCHANGED <<form, notes>>,
               s = "signup" => prefs'[d].user \in Excused(d),
               s = "home" => prefs'[d].user # NoUser,
               prefs'[d].user \in {NoUser} \cup early \/ prefs'[d].token = d
        PROVE  KeptAll' /\ TellsAll'
    <2>1. /\ \A e \in Call : calls'[e] = IF e = c THEN NoCall ELSE calls[e]
          /\ \A e \in Call \ {c} : calls[e] # NoCall => calls[e].on # d
          /\ screen' = [screen EXCEPT ![d] = s]
      BY <1>0, <1>1, ReplaceAlone
    <2>2. ASSUME NEW p \in Phone PROVE Kept(p)'
      <3>1. CASE p = d
        BY <1>0, <1>1, <2>1, <3>1 DEF Kept, Held, Excused, Verifying
      <3>2. CASE p # d
        BY <1>0, <1>1, <2>1, <3>2, KeptFrame
      <3> QED
        BY <3>1, <3>2
    <2>3. ASSUME NEW e \in Call, calls'[e] # NoCall PROVE Tells(e)'
      <3>1. calls'[e] = calls[e] /\ calls[e].on # d /\ calls[e] \in CallRec /\ Tells(e)
        BY <1>0, <2>1, <2>3
      <3>2. calls[e].on \in Phone
        BY <3>1 DEF CallRec
      <3>3. /\ prefs'[calls[e].on] = prefs[calls[e].on]
            /\ form' = form /\ refused' = refused /\ early' = early
        BY <1>1, <3>1, <3>2
      <3> QED
        BY <3>1, <3>3, TellsFrame
    <2> QED
      BY <2>2, <2>3 DEF KeptAll, TellsAll
  \* A failed request would be one of no user; only a check is.
  <1>2. /\ calls[c].kind \in {"verify", "register"} => Verifying(d)
        /\ calls[c].kind = "logout" => screen[d] \in {"home", "profile"}
        /\ calls[c].kind = "save" => screen[d] = "profile"
        /\ calls[c].kind = "check" => screen[d] = "splash"
    BY <1>0, WhereValues DEF Attended, Verifying
  <1>3. calls[c].kind # "check" => calls[c].phase # "failed"
    BY <1>0, <1>2 DEF Kept, Tells, CallRec
  <1>4. CASE CheckReturns(c)
    <2>1. /\ UNCHANGED <<prefs, form, notes>> /\ calls[c].kind = "check"
          /\ \/ calls[c].phase = "done" /\ Replace(c, d, "home")
             \/ calls[c].phase = "failed" /\ Replace(c, d, "signup")
      BY <1>4 DEF CheckReturns
    <2>2. prefs'[d].user \in {NoUser} \cup early \/ prefs'[d].token = d
      BY <1>0, <1>2, <2>1 DEF Kept, Held, SigningIn, Verifying
    <2>3. CASE calls[c].phase = "done" /\ Replace(c, d, "home")
      <3>1. prefs'[d].user # NoUser
        BY <1>0, <2>1, <2>3 DEF Tells
      <3> QED
        BY <1>1, <2>1, <2>2, <2>3, <3>1
    <2>4. CASE calls[c].phase = "failed" /\ Replace(c, d, "signup")
      <3>1. prefs'[d].user \in Excused(d)
        BY <1>0, <2>1, <2>4 DEF Tells, Excused
      <3> QED
        BY <1>1, <2>1, <2>2, <2>4, <3>1
    <2> QED
      BY <2>1, <2>3, <2>4
  <1>5. CASE VerifyReturns(c)
    <2>1. /\ prefs' = [prefs EXCEPT ![d] = [user |-> calls[c].user,
                                            token |-> calls[c].token]]
          /\ \/ /\ calls' = [calls EXCEPT ![c].kind = "register", ![c].phase = "sent"]
                /\ early' = early
             \/ End(c) /\ early' = early \cup {calls[c].user}
          /\ UNCHANGED <<screen, form>>
          /\ refused' = [refused EXCEPT ![d] = @ \ {calls[c].user}]
          /\ calls[c].kind = "verify"
      BY <1>3, <1>5 DEF VerifyReturns
    <2>2. /\ \A e \in Call \ {c} : calls'[e] = calls[e]
          /\ \/ /\ calls'[c].kind = "register" /\ calls'[c].phase = "sent"
                /\ calls'[c].on = d /\ calls'[c].user = calls[c].user
                /\ calls'[c] # NoCall
             \/ calls'[c] = NoCall /\ calls[c].user \in early'
          /\ early \subseteq early'
      <3>1. CASE End(c) /\ early' = early \cup {calls[c].user}
        BY <3>1
      <3>2. CASE /\ calls' = [calls EXCEPT ![c].kind = "register", ![c].phase = "sent"]
                 /\ early' = early
        <4> DEFINE v == [calls[c] EXCEPT !.kind = "register", !.phase = "sent"]
        <4>1. v \in CallRec
          BY <1>0 DEF CallRec
        <4>2. v.kind = "register" /\ v.phase = "sent" /\ v.on = d /\ v.user = calls[c].user
          BY <1>0 DEF CallRec
        <4>3. calls' = [calls EXCEPT ![c] = v]
          BY <1>0, <3>2
        <4> HIDE DEF v
        <4>4. calls'[c] = v /\ \A e \in Call \ {c} : calls'[e] = calls[e]
          BY <4>3
        <4> QED
          BY <3>2, <4>1, <4>2, <4>4, NoCallIsNone
      <3> QED
        BY <2>1, <3>1, <3>2
    <2>3. Verifying(d) /\ calls[c].user = form[d].user /\ form[d].user # NoUser
      BY <1>0, <1>2, <2>1 DEF Tells, Kept
    <2>4. /\ prefs'[d].user = form[d].user
          /\ \A p \in Phone \ {d} : prefs'[p] = prefs[p] /\ refused'[p] = refused[p]
          /\ form[d].user \notin refused'[d]
      BY <1>0, <2>1, <2>3
    <2>5. ASSUME NEW p \in Phone PROVE Kept(p)'
      <3>1. CASE p = d
        <4>1. Verifying(p)' /\ screen'[p] \notin {"signup", "home", "profile"}
          BY <2>1, <2>3, <3>1 DEF Verifying
        <4>2. ~Held(p)'
          BY <2>4, <3>1, <4>1 DEF Held, SigningIn
        <4>3. \/ prefs'[p].user \in Excused(p)'
              \/ \E e \in Call : On(e, p)' /\ calls'[e].kind = "register"
          BY <2>2, <2>3, <2>4, <3>1 DEF Excused
        <4> QED
          BY <2>1, <2>3, <2>4, <3>1, <4>1, <4>2, <4>3 DEF Kept
      <3>2. CASE p # d
        <4>1. \A e \in Call : On(e, p) => calls'[e] = calls[e]
          BY <2>2, <3>2
        <4> QED
          BY <1>0, <2>1, <2>2, <2>4, <3>2, <4>1, KeptFrame
      <3> QED
        BY <3>1, <3>2
    <2>6. ASSUME NEW e \in Call, calls'[e] # NoCall PROVE Tells(e)'
      <3>1. CASE e = c
        BY <2>1, <2>2, <2>3, <2>4, <2>6, <3>1 DEF Tells
      <3>2. CASE e # c
        <4>1. calls'[e] = calls[e] /\ calls[e] \in CallRec /\ Tells(e)
          BY <1>0, <2>2, <2>6, <3>2
        <4>2. CASE calls[e].on = d
          <5>0. screen[d] \in Where[calls[e].kind]
            BY <2>6, <4>1, <4>2 DEF Attended
          <5>1. calls[e].kind \in {"verify", "register"}
            BY <2>3, <4>1, <5>0, WhereValues DEF CallRec, Verifying
          <5> QED
            BY <2>1, <2>4, <4>1, <4>2, <5>1 DEF Tells
        <4>3. CASE calls[e].on # d
          <5>1. calls[e].on \in Phone
            BY <4>1 DEF CallRec
          <5> QED
            BY <2>1, <2>2, <2>4, <4>1, <4>3, <5>1, TellsFrame
        <4> QED
          BY <4>2, <4>3
      <3> QED
        BY <3>1, <3>2
    <2> QED
      BY <2>5, <2>6 DEF KeptAll, TellsAll
  <1>6. CASE RegisterReturns(c)
    <2>1. /\ prefs' = [prefs EXCEPT ![d].token = d] /\ Replace(c, d, "home")
          /\ UNCHANGED <<form, notes>> /\ calls[c].kind = "register"
      BY <1>0, <1>3, <1>6 DEF RegisterReturns
    <2>2. prefs[d].user # NoUser
      BY <1>0, <1>2, <2>1 DEF Tells, Kept
    <2>3. prefs'[d].user = prefs[d].user /\ prefs'[d].token = d
      BY <1>0, <2>1 DEF Prefs
    <2> QED
      BY <1>1, <2>1, <2>2, <2>3
  <1>7. CASE LogoutReturns(c)
    <2>1. /\ prefs' = [prefs EXCEPT ![d] = Empty] /\ Replace(c, d, "signup")
          /\ UNCHANGED <<form, notes>>
      BY <1>0, <1>3, <1>7 DEF LogoutReturns
    <2>2. prefs'[d].user = NoUser /\ NoUser \in Excused(d)
      BY <1>0, <2>1 DEF Empty, Excused
    <2> QED
      BY <1>1, <2>1, <2>2
  <1>8. CASE SaveReturns(c)
    <2>1. /\ prefs' = [prefs EXCEPT ![d] = [user |-> calls[c].user,
                                            token |-> calls[c].token]]
          /\ Replace(c, d, "home")
          /\ UNCHANGED <<form, notes>> /\ calls[c].kind = "save"
      BY <1>0, <1>3, <1>8 DEF SaveReturns
    <2>2. /\ calls[c].user = prefs[d].user /\ prefs[d].user # NoUser
          /\ calls[c].token = d \/ calls[c].user \in early
      BY <1>0, <1>2, <2>1 DEF Tells, Kept
    <2>3. prefs'[d].user # NoUser /\ (prefs'[d].user \in early \/ prefs'[d].token = d)
      BY <1>0, <2>1, <2>2
    <2> QED
      BY <1>1, <2>1, <2>3
  <1> QED
    BY <1>4, <1>5, <1>6, <1>7, <1>8 DEF Returns

LEMMA ServeKept ==
  ASSUME SessionTypeOK, Undisturbed, Attended, KeptAll, TellsAll,
         NEW c \in Call, Serve(c) \/ Refuse(c) \/ Lose(c), Undisturbed'
  PROVE  KeptAll' /\ TellsAll'
  <1> DEFINE k == calls[c]
  <1>1. /\ k # NoCall /\ calls'[c] # NoCall
        /\ \A e \in Call \ {c} : calls'[e] = calls[e]
        /\ calls'[c].kind = k.kind /\ calls'[c].on = k.on /\ calls'[c].user = k.user
        /\ UNCHANGED <<prefs, screen, form, early>>
        /\ \A p \in Phone : /\ refused[p] \subseteq refused'[p]
                            /\ refused'[p] # refused[p] => On(c, p) /\ k.kind = "check"
    BY ServeFrame
  <1>2. (Serve(c) \/ Refuse(c)) /\ k \in CallRec /\ k.on \in Phone
    <2>1. faults = 0 /\ faults' = 0
      BY DEF Undisturbed
    <2> QED
      BY <1>1, <2>1 DEF Lose, SessionTypeOK, CallRec
  <1>3. /\ \/ calls'[c].phase = "failed" /\ k.user = NoUser
           \/ calls'[c].phase = "failed" /\ k.kind = "check" /\ k.user \in refused'[k.on]
           \/ calls'[c].phase = "done" /\ k.user # NoUser
        /\ k.kind = "save" => calls'[c].token = k.token
    <2>1. CASE Serve(c) /\ k.user = NoUser
      <3>1. calls'[c] = [k EXCEPT !.phase = "failed"]
        BY <1>2, <2>1 DEF Serve, SessionTypeOK
      <3> QED
        BY <1>2, <2>1, <3>1 DEF CallRec
    <2>2. CASE Serve(c) /\ k.user # NoUser
      <3> DEFINE t == IF k.kind = "verify" THEN token[k.user] ELSE k.token
      <3>1. calls'[c] = [k EXCEPT !.phase = "done", !.token = t]
        BY <1>2, <2>2 DEF Serve, SessionTypeOK
      <3> QED
        BY <1>2, <2>2, <3>1 DEF CallRec
    <2>3. CASE Refuse(c)
      <3>1. calls'[c] = [k EXCEPT !.phase = "failed"]
        BY <1>2, <2>3 DEF Refuse, SessionTypeOK
      <3>2. k.kind = "check" /\ k.user \in refused'[k.on]
        BY <1>2, <2>3 DEF Refuse, SessionTypeOK
      <3> QED
        BY <1>2, <3>1, <3>2 DEF CallRec
    <2> QED
      BY <1>2, <2>1, <2>2, <2>3
  <1>4. ASSUME NEW p \in Phone PROVE Kept(p)'
    <2>1. Kept(p)
      BY DEF KeptAll
    <2>2. SigningIn(p) => ~(On(c, p) /\ k.kind = "check")
      BY <1>1, WhereValues DEF Attended, SigningIn, Verifying
    <2>3. \A e \in Call : On(e, p) /\ calls[e].kind = "register" =>
            calls'[e] # NoCall /\ calls'[e].on = p /\ calls'[e].kind = "register"
      BY <1>1
    <2>4. /\ prefs'[p] = prefs[p] /\ screen'[p] = screen[p] /\ form'[p] = form[p]
          /\ early' = early
      BY <1>1
    <2>5. refused[p] \subseteq refused'[p] /\ (SigningIn(p) => refused'[p] = refused[p])
      BY <1>1, <2>2
    <2> QED
      BY <2>1, <2>3, <2>4, <2>5, KeptFrame
  <1>5. ASSUME NEW e \in Call, calls'[e] # NoCall PROVE Tells(e)'
    <2>1. CASE e = c
      <3>1. Tells(c)
        BY <1>1 DEF TellsAll
      <3> QED
        BY <1>1, <1>2, <1>3, <2>1, <3>1 DEF Tells
    <2>2. CASE e # c
      <3>1. calls'[e] = calls[e] /\ Tells(e)
        BY <1>1, <1>5, <2>2 DEF TellsAll
      <3>2. calls[e].on \in Phone
        BY <1>5, <3>1 DEF SessionTypeOK, CallRec
      <3>3. /\ prefs' = prefs /\ form' = form /\ early' = early
            /\ refused[calls[e].on] \subseteq refused'[calls[e].on]
        BY <1>1, <3>2
      <3> QED
        BY <3>1, <3>3, TellsFrame
    <2> QED
      BY <2>1, <2>2
  <1> QED
    BY <1>4, <1>5 DEF KeptAll, TellsAll

LEMMA NextKept ==
  SessionTypeOK /\ OwnInv /\ KeptInv /\ [SessionNext]_sVars => KeptInv'
  <1> SUFFICES ASSUME SessionTypeOK, OwnInv, KeptInv, [SessionNext]_sVars,
                      Undisturbed'
               PROVE  KeptAll' /\ TellsAll'
    BY DEF KeptInv
  <1>1. Undisturbed /\ Attended /\ KeptAll /\ TellsAll
    <2>1. Undisturbed
      BY UndisturbedStays
    <2> QED
      BY <2>1 DEF KeptInv, OwnInv, Undisturbed
  <1>2. CASE UNCHANGED sVars
    BY <1>1, <1>2 DEF sVars, KeptAll, Kept, Held, Excused, SigningIn, Verifying,
                       TellsAll, Tells
  <1> QED
    BY <1>1, <1>2, TouchKept, ReturnKept, ServeKept DEF SessionNext

\* The invariant holds without failures, whatever is tapped.
THEOREM KeptInvariant == SessionSpec => []KeptInv
  <1>1. SessionInit => KeptInv
    BY DEF SessionInit, KeptInv, KeptAll, Kept, Held, Verifying, TellsAll, Empty
  <1> QED
    BY <1>1, NextKept, OwnInvariant, SessionTypeCorrect, PTL DEF SessionSpec

\* A logout leaves no stored user behind the sign-in page: unless a request failed
\* or its answer came too late, only a user whom a start refused, or who was
\* verified without a push token, is kept there.
THEOREM SignsOutCleanly == SessionSpec => []SignedOutIsClean
  <1>1. KeptInv => SignedOutIsClean
    BY DEF KeptInv, KeptAll, Kept, Excused, SignedOutIsClean
  <1> QED
    BY <1>1, KeptInvariant, PTL

-----------------------------------------------------------------------------
(***************************************************************************)
(* What the backend holds follows what the phones store: a token leads to  *)
(* a phone that stores its user or has refused him (Tokens), a phone that  *)
(* holds a user has been registered for him (Stored), and an answer that   *)
(* is still on its way says what the backend has done (Told).  Nothing is  *)
(* claimed of the users who were verified without a push token.            *)
(***************************************************************************)
Registered(u, d) ==
  /\ d \in used[u]
  /\ \/ token[u] = d
     \/ \E e \in used[u] : e # d
     \/ \E c \in Call : On(c, d) /\ calls[c].kind = "logout"

Tokens ==
  \A u \in User \ early, d \in Phone : token[u] = d =>
    d \in used[u] /\ (prefs[d].user = u \/ u \in refused[d])

Stored == \A d \in Phone : Held(d) => Registered(prefs[d].user, d)

Told(c) ==
  LET k == calls[c] IN
  k.user \notin early =>
  /\ k.kind = "logout" /\ k.phase = "done" =>
       \/ token[k.user] # k.on
       \/ \E e \in Call : On(e, k.on) /\ calls[e].kind = "save"
  /\ k.kind = "register" /\ k.phase = "done" => Registered(k.user, k.on)

ToldAll == \A c \in Call : calls[c] # NoCall => Told(c)

TokenInv == Undisturbed => Tokens /\ Stored /\ ToldAll

\* A phone stays known to the backend while nobody but another registered
\* phone takes its token and its logout stays in flight.
LEMMA KnownFrame ==
  ASSUME NEW u \in User, NEW d \in Phone, Registered(u, d), used[u] \subseteq used'[u],
         token[u] = d => token'[u] = d \/ \E e \in used'[u] : e # d,
         \A c \in Call : On(c, d) /\ calls[c].kind = "logout" =>
           calls'[c] # NoCall /\ calls'[c].on = d /\ calls'[c].kind = "logout"
  PROVE  Registered(u, d)'
  BY DEF Registered

LEMMA TouchToken ==
  ASSUME SessionTypeOK, Undisturbed, Attended, KeptAll, TellsAll,
         Tokens, Stored, ToldAll, NEW d \in Phone, Touch(d), Undisturbed'
  PROVE  Tokens' /\ Stored' /\ ToldAll'
  <1>0. /\ \A c \in Call : calls[c] # NoCall => calls[c] \in CallRec
        /\ \A p \in Phone : Kept(p) /\ prefs[p] \in Prefs
        /\ ~outlived /\ ~outlived' /\ faults = 0 /\ faults' = 0
    BY DEF KeptAll, Undisturbed, SessionTypeOK
  \* A tap changes no store and ends no request.
  <1> DEFINE Quiet ==
        /\ UNCHANGED <<prefs, token, used, notes>>
        /\ \A c \in Call : \/ calls'[c] = calls[c]
                           \/ calls[c] = NoCall /\ calls'[c].phase = "sent"
        /\ \A p \in Phone : Held(p)' => Held(p)
  <1>1. Quiet
    <2> USE DEF SessionTypeOK, SigningIn, Held, Verifying
    <2>1. CASE BackToSignUp(d)
      <3>1. \A e \in Call : calls'[e] = calls[e]
        BY <1>0, <2>1 DEF BackToSignUp, Orphan
      <3> QED
        BY <2>1, <3>1 DEF BackToSignUp
    <2>2. CASE OpenProfile(d)
      BY <2>2 DEF OpenProfile
    <2>3. CASE BackToHome(d)
      <3>1. \A e \in Call : calls'[e] = calls[e]
        BY <1>0, <2>3 DEF BackToHome, Orphan
      <3> QED
        BY <2>3, <3>1 DEF BackToHome
    <2>4. CASE Quit(d)
      <3>1. \A e \in Call : ~On(e, d) /\ calls'[e] = calls[e]
        BY <1>0, <2>4 DEF Quit
      <3>2. SigningIn(d) => prefs[d].user \in Excused(d)
        BY <1>0, <3>1 DEF Kept
      <3> QED
        BY <2>4, <3>1, <3>2 DEF Quit, Excused
    <2>5. ASSUME NEW u \in User, SendCode(d, u) PROVE Quiet
      BY <2>5 DEF SendCode
    <2>6. ASSUME NEW c \in Call,
                 \/ Launch(d, c) \/ TapVerify(d, c) \/ TapLogout(d, c) \/ TapSave(d, c)
          PROVE  Quiet
      <3>1. \A e \in Call : \/ calls'[e] = calls[e]
                            \/ calls[e] = NoCall /\ calls'[e].phase = "sent"
        BY <2>6 DEF Launch, TapVerify, TapLogout, TapSave, Ask
      <3>2. UNCHANGED <<prefs, token, used, notes>>
        BY <2>6 DEF Launch, TapVerify, TapLogout, TapSave
      <3>3. \A p \in Phone : SigningIn(p) => SigningIn(p)'
        BY <2>6 DEF Launch, TapVerify, TapLogout, TapSave
      <3> QED
        BY <3>1, <3>2, <3>3
    <2>7. CASE TokenArrives(d)
      BY <2>7 DEF TokenArrives
    <2>8. ~CloseDrawer(d)
      BY <1>0 DEF CloseDrawer
    <2> QED
      BY <2>1, <2>2, <2>3, <2>4, <2>5, <2>6, <2>7, <2>8 DEF Touch
  <1>2. ASSUME NEW u \in User, NEW p \in Phone, Registered(u, p) PROVE Registered(u, p)'
    BY <1>1, <1>2, KnownFrame
  <1>3. Tokens'
    BY <1>1 DEF Tokens
  <1>4. Stored'
    <2> SUFFICES ASSUME NEW p \in Phone, Held(p)' PROVE Registered(prefs[p].user, p)'
      BY DEF Stored
    <2>1. Registered(prefs[p].user, p)
      BY <1>1 DEF Stored
    <2>2. PICK v \in User : v = prefs[p].user
      BY <1>0, <1>1 DEF Held, Prefs
    <2>3. Registered(v, p)'
      BY <1>2, <2>1, <2>2
    <2> QED
      BY <1>1, <2>2, <2>3 DEF Registered
  <1>5. ASSUME NEW e \in Call, calls'[e] # NoCall PROVE Told(e)'
    <2>1. CASE calls'[e] = calls[e]
      <3>1. /\ calls[e] \in CallRec /\ Told(e)
            /\ calls[e].phase = "done" => calls[e].user \in User
        BY <1>0, <1>5, <2>1 DEF ToldAll, TellsAll, Tells, CallRec
      <3>2. calls[e].user \notin early /\ calls[e].kind = "register"
              /\ calls[e].phase = "done" => Registered(calls[e].user, calls[e].on)'
        <4> SUFFICES ASSUME calls[e].kind = "register", calls[e].phase = "done",
                            calls[e].user \notin early
                     PROVE  Registered(calls[e].user, calls[e].on)'
          OBVIOUS
        <4>1. PICK v \in User, p \in Phone : v = calls[e].user /\ p = calls[e].on
          BY <3>1 DEF CallRec
        <4>2. Registered(v, p)
          BY <3>1, <4>1 DEF Told
        <4>3. Registered(v, p)'
          BY <1>2, <4>2
        <4> QED
          BY <2>1, <4>1, <4>3 DEF Registered
      <3>3. \A f \in Call : On(f, calls[e].on) => calls'[f] = calls[f]
        BY <1>1
      <3> QED
        BY <1>1, <2>1, <3>1, <3>2, <3>3 DEF Told
    <2>2. CASE calls'[e] # calls[e]
      BY <1>1, <2>2 DEF Told
    <2> QED
      BY <2>1, <2>2
  <1> QED
    BY <1>3, <1>4, <1>5 DEF ToldAll

LEMMA ServeToken ==
  ASSUME SessionTypeOK, Undisturbed, Attended, KeptAll, TellsAll,
         Tokens, Stored, ToldAll,
         NEW c \in Call, Serve(c) \/ Refuse(c) \/ Lose(c), Undisturbed'
  PROVE  Tokens' /\ Stored' /\ ToldAll'
  <1> DEFINE k == calls[c]
             d == k.on
             u == k.user
  <1>1. /\ k # NoCall /\ calls'[c] # NoCall
        /\ \A e \in Call \ {c} : calls'[e] = calls[e]
        /\ calls'[c].kind = k.kind /\ calls'[c].on = d /\ calls'[c].user = u
        /\ UNCHANGED <<prefs, screen, early>>
        /\ \A p \in Phone : /\ refused[p] \subseteq refused'[p]
                            /\ refused'[p] # refused[p] => On(c, p) /\ k.kind = "check"
    BY ServeFrame
  <1>2. /\ Serve(c) \/ Refuse(c)
        /\ k \in CallRec /\ d \in Phone /\ k.phase = "sent"
        /\ Kept(d) /\ Tells(c)
        /\ \A e \in Call : calls[e] # NoCall => calls[e] \in CallRec /\ Tells(e) /\ Told(e)
        /\ \A p \in Phone : prefs[p].user # NoUser => prefs[p].user \in User
    <2>1. faults = 0 /\ faults' = 0
      BY DEF Undisturbed
    <2>2. (Serve(c) \/ Refuse(c)) /\ k \in CallRec /\ k.phase = "sent"
      BY <1>1, <2>1 DEF Lose, Serve, Refuse, SessionTypeOK
    <2> QED
      BY <1>1, <2>2 DEF KeptAll, TellsAll, ToldAll, SessionTypeOK, CallRec, Prefs
  <1>3. screen[d] \in Where[k.kind]
    BY <1>1 DEF Attended
  <1>4. ASSUME NEW v \in User, NEW p \in Phone, Registered(v, p),
               used[v] \subseteq used'[v],
               token[v] = p => token'[v] = p \/ \E e \in used'[v] : e # p
        PROVE  Registered(v, p)'
    BY <1>1, <1>4, KnownFrame
  \* What the backend does with the token of the user.
  <1> DEFINE Still  == /\ UNCHANGED <<token, used>>
                       /\ k.kind \in {"check", "verify"} \/ calls'[c].phase = "failed"
             Takes  == /\ u \in User /\ k.kind \in {"register", "save"}
                       /\ token' = [token EXCEPT ![u] = d]
                       /\ d \in used'[u] /\ used[u] \subseteq used'[u]
                       /\ \A v \in User \ {u} : used'[v] = used[v]
             Leaves == /\ u \in User /\ k.kind = "logout"
                       /\ token' = [token EXCEPT ![u] = NoToken]
                       /\ d \in used[u] /\ used' = used
             Early  == /\ u \in early
                       /\ \A v \in User \ {u} :
                            token'[v] = token[v] /\ used'[v] = used[v]
  <1>5. Still \/ Takes \/ Leaves \/ Early
    <2>1. CASE Refuse(c)
      <3>1. calls'[c].phase = "failed"
        BY <1>2, <2>1 DEF Refuse, SessionTypeOK, CallRec
      <3> QED
        BY <2>1, <3>1 DEF Refuse
    <2>2. CASE Serve(c) /\ u = NoUser
      <3>1. calls'[c].phase = "failed"
        BY <1>2, <2>2 DEF Serve, SessionTypeOK, CallRec
      <3> QED
        BY <1>2, <2>2, <3>1 DEF Serve
    <2>3. CASE Serve(c) /\ u \in early /\ u # NoUser
      <3>1. u \in User
        BY <1>2, <2>3 DEF CallRec
      <3> QED
        BY <1>2, <2>3, <3>1 DEF Serve, SessionTypeOK, CallRec
    <2>4. CASE Serve(c) /\ u \notin {NoUser} \cup early
      <3>1. u \in User
        BY <1>2, <2>4 DEF CallRec
      <3>2. k.kind \in {"save", "logout"} => d \in used[u]
        <4>1. k.kind \in {"save", "logout"} => ~SigningIn(d)
          BY <1>3, WhereValues DEF SigningIn, Verifying
        <4> QED
          BY <1>2, <2>4, <4>1 DEF Tells, Stored, Held, Registered
      <3>3. CASE k.kind \in {"check", "verify"}
        BY <1>2, <2>4, <3>3 DEF Serve
      <3>4. CASE k.kind = "register"
        BY <1>2, <2>4, <3>1, <3>4 DEF Serve, SessionTypeOK
      <3>5. CASE k.kind = "save"
        <4>1. k.token = d
          BY <1>2, <2>4, <3>5 DEF Tells
        <4> QED
          BY <1>2, <2>4, <3>1, <3>2, <3>5, <4>1 DEF Serve
      <3>6. CASE k.kind = "logout"
        BY <1>2, <2>4, <3>1, <3>2, <3>6 DEF Serve
      <3> QED
        BY <1>2, <3>3, <3>4, <3>5, <3>6 DEF CallRec
    <2> QED
      BY <1>2, <2>1, <2>2, <2>3, <2>4
  <1> HIDE DEF Still, Takes, Leaves, Early
  <1>6. ASSUME NEW v \in User \ early, NEW p \in Phone, Registered(v, p) PROVE Registered(v, p)'
    <2>1. CASE v = u /\ Takes
      BY <1>4, <1>6, <2>1 DEF Takes, SessionTypeOK
    <2>2. CASE v = u /\ Leaves
      <3>1. CASE p = d
        BY <1>1, <2>2, <3>1 DEF Leaves, Registered
      <3>2. CASE p # d
        BY <1>4, <1>6, <2>2, <3>2 DEF Leaves
      <3> QED
        BY <3>1, <3>2
    <2>3. CASE v # u \/ Still
      <3>1. token'[v] = token[v] /\ used'[v] = used[v]
        BY <1>5, <2>3 DEF Still, Takes, Leaves, Early, SessionTypeOK
      <3> QED
        BY <1>4, <1>6, <3>1
    <2> QED
      BY <1>5, <2>1, <2>2, <2>3 DEF Early
  <1>7. Tokens'
    <2> SUFFICES ASSUME NEW v \in User \ early, NEW p \in Phone, token'[v] = p
                 PROVE  p \in used'[v] /\ (prefs[p].user = v \/ v \in refused[p])
      BY <1>1 DEF Tokens
    <2>1. CASE token[v] = p
      <3>1. used[v] \subseteq used'[v]
        BY <1>5 DEF Still, Takes, Leaves, Early
      <3> QED
        BY <2>1, <3>1 DEF Tokens
    <2>2. CASE token[v] # p
      <3>1. Takes /\ v = u /\ p = d
        BY <1>5, <2>2, SessionSentinels DEF Still, Takes, Leaves, Early, SessionTypeOK
      <3>2. prefs[d].user = u
        <4>1. k.kind = "register" => u = form[d].user /\ prefs[d].user = form[d].user
          BY <1>2 DEF Tells
        <4>2. k.kind = "save" => u = prefs[d].user
          BY <1>2 DEF Tells
        <4> QED
          BY <3>1, <4>1, <4>2 DEF Takes
      <3> QED
        BY <3>1, <3>2 DEF Takes
    <2> QED
      BY <2>1, <2>2
  <1>8. Stored'
    <2> SUFFICES ASSUME NEW p \in Phone, Held(p)' PROVE Registered(prefs[p].user, p)'
      BY <1>1 DEF Stored
    <2>1. Held(p)
      <3>1. On(c, p) /\ k.kind = "check" => ~SigningIn(p)
        BY <1>3, WhereValues DEF SigningIn, Verifying
      <3>2. /\ prefs'[p] = prefs[p] /\ screen'[p] = screen[p] /\ early' = early
            /\ refused'[p] = refused[p] \/ ~SigningIn(p)
        BY <1>1, <3>1
      <3> QED
        BY <3>2 DEF Held, SigningIn, Verifying
    <2>2. Registered(prefs[p].user, p)
      BY <2>1 DEF Stored
    <2>3. PICK v \in User \ early : v = prefs[p].user
      BY <1>2, <2>1 DEF Held
    <2>4. Registered(v, p)'
      BY <1>6, <2>2, <2>3
    <2> QED
      BY <1>1, <2>3, <2>4 DEF Registered
  <1>9. ASSUME NEW e \in Call, calls'[e] # NoCall, calls'[e].user \notin early
        PROVE  Told(e)'
    <2>1. CASE e = c
      <3>1. CASE Still
        <4>1. /\ calls'[c].kind = k.kind
              /\ k.kind \in {"check", "verify"} \/ calls'[c].phase = "failed"
          BY <1>1, <3>1 DEF Still
        <4> QED
          BY <2>1, <4>1 DEF Told
      <3>2. CASE Takes
        <4>1. token'[u] = d /\ d \in used'[u] /\ k.kind # "logout"
          BY <3>2 DEF Takes, SessionTypeOK
        <4> QED
          BY <1>1, <2>1, <4>1 DEF Told, Registered
      <3>3. CASE Leaves
        <4>1. token'[u] # d
          BY <1>2, <3>3, SessionSentinels DEF Leaves, SessionTypeOK
        <4> QED
          BY <1>1, <2>1, <3>3, <4>1 DEF Leaves, Told
      <3> QED
        BY <1>1, <1>5, <1>9, <2>1, <3>1, <3>2, <3>3 DEF Early
    <2>2. CASE e # c
      <3>1. /\ calls'[e] = calls[e] /\ calls[e] # NoCall /\ calls[e] \in CallRec
            /\ Told(e)
            /\ calls[e].phase = "done" => calls[e].user \in User
            /\ calls[e].on \in Phone
        BY <1>1, <1>2, <1>9, <2>2 DEF Tells, CallRec
      <3>2. calls[e].kind = "register" /\ calls[e].phase = "done" =>
              Registered(calls[e].user, calls[e].on)'
        BY <1>6, <1>9, <3>1 DEF Told
      <3>3. ASSUME calls[e].kind = "logout", calls[e].phase = "done",
                   token'[calls[e].user] = calls[e].on
            PROVE  \E f \in Call : On(f, calls[e].on)' /\ calls'[f].kind = "save"
        <4>1. CASE token[calls[e].user] = calls[e].on
          <5>1. PICK f \in Call : On(f, calls[e].on) /\ calls[f].kind = "save"
            BY <1>9, <3>1, <3>3, <4>1 DEF Told
          <5>2. calls'[f] # NoCall /\ calls'[f].on = calls[f].on
                /\ calls'[f].kind = calls[f].kind
            BY <1>1, <5>1
          <5> QED
            BY <3>1, <5>1, <5>2
        <4>2. CASE token[calls[e].user] # calls[e].on
          <5>1. Takes /\ d = calls[e].on
            BY <1>5, <1>9, <3>1, <3>3, <4>2, SessionSentinels
               DEF Still, Takes, Leaves, Early, SessionTypeOK
          <5>2. screen[d] \in {"home", "profile"}
            BY <3>1, <3>3, <5>1, WhereValues DEF Attended
          <5>3. k.kind = "save"
            BY <1>3, <5>1, <5>2, WhereValues DEF Takes
          <5> QED
            BY <1>1, <3>1, <5>1, <5>3
        <4> QED
          BY <4>1, <4>2
      <3> QED
        BY <3>1, <3>2, <3>3 DEF Told
    <2> QED
      BY <2>1, <2>2
  <1> QED
    BY <1>1, <1>7, <1>8, <1>9 DEF ToldAll, Told

LEMMA ReturnToken ==
  ASSUME SessionTypeOK, Undisturbed, Attended, KeptAll, TellsAll,
         Tokens, Stored, ToldAll,
         NEW c \in Call, Returns(c), Undisturbed'
  PROVE  Tokens' /\ Stored' /\ ToldAll'
  <1> DEFINE k == calls[c]
             d == k.on
  <1>0. /\ \A e \in Call : calls[e] # NoCall =>
             /\ calls[e] \in CallRec /\ Tells(e) /\ Told(e) /\ calls[e].on \in Phone
             /\ calls[e].phase = "done" => calls[e].user \in User
        /\ k # NoCall /\ k.live /\ d \in Phone /\ Kept(d) /\ ~outlived'
        /\ \A p \in Phone : prefs[p].user # NoUser => prefs[p].user \in User
        /\ prefs[d] \in Prefs /\ UNCHANGED <<token, used>>
    <2>1. k # NoCall /\ UNCHANGED <<token, used>>
      BY DEF Returns, CheckReturns, VerifyReturns, RegisterReturns,
             LogoutReturns, SaveReturns
    <2>2. ASSUME NEW e \in Call, calls[e] # NoCall
          PROVE  /\ calls[e] \in CallRec /\ Tells(e) /\ Told(e) /\ calls[e].on \in Phone
                 /\ calls[e].phase = "done" => calls[e].user \in User
      BY <2>2 DEF SessionTypeOK, TellsAll, ToldAll, Tells, CallRec
    <2>3. d \in Phone /\ k.live
      BY <2>1, <2>2 DEF Attended
    <2> QED
      BY <2>1, <2>2, <2>3 DEF KeptAll, Undisturbed, SessionTypeOK, Prefs
  \* The screens of d have been replaced, and no other request is left there.
  <1>1. ASSUME NEW s \in {"home", "signup"}, Replace(c, d, s),
               \A p \in Phone \ {d} : prefs'[p] = prefs[p],
               UNCHANGED notes,
               \/ prefs'[d].user \in {NoUser} \cup early
               \/ /\ prefs'[d].user = prefs[d].user /\ k.kind # "logout"
                  /\ Registered(prefs[d].user, d),
               \A v \in User \ early : token[v] = d =>
                 prefs'[d].user = v \/ v \in refused[d]
        PROVE  Tokens' /\ Stored' /\ ToldAll'
    <2>1. /\ \A e \in Call : calls'[e] = IF e = c THEN NoCall ELSE calls[e]
          /\ \A e \in Call \ {c} : calls[e] # NoCall => calls[e].on # d
          /\ screen' = [screen EXCEPT ![d] = s]
      BY <1>0, <1>1, ReplaceAlone
    <2>2. ASSUME NEW v \in User, NEW p \in Phone, Registered(v, p),
                 p # d \/ k.kind # "logout"
          PROVE  Registered(v, p)'
      BY <1>0, <2>1, <2>2 DEF Registered
    <2>3. Tokens'
      BY <1>0, <1>1 DEF Tokens
    <2>4. ASSUME NEW p \in Phone, Held(p)' PROVE Registered(prefs[p].user, p)'
      <3>1. prefs'[p].user = prefs[p].user /\ Registered(prefs[p].user, p)
            /\ (p # d \/ k.kind # "logout")
        <4>1. CASE p = d
          BY <1>1, <2>4, <4>1 DEF Held
        <4>2. CASE p # d
          BY <1>1, <2>1, <2>4, <4>2
             DEF Stored, Held, SigningIn, Verifying, SessionTypeOK
        <4> QED
          BY <4>1, <4>2
      <3>2. PICK v \in User : v = prefs[p].user
        BY <1>0, <2>4, <3>1 DEF Held
      <3>3. Registered(v, p)'
        BY <2>2, <3>1, <3>2
      <3> QED
        BY <3>1, <3>2, <3>3 DEF Registered
    <2>5. ASSUME NEW e \in Call, calls'[e] # NoCall, calls'[e].user \notin early
          PROVE  Told(e)'
      <3>1. calls'[e] = calls[e] /\ e # c /\ calls[e] # NoCall /\ calls[e].on # d
        BY <2>1, <2>5
      <3>2. /\ Told(e) /\ calls[e].on \in Phone
            /\ calls[e].phase = "done" => calls[e].user \in User
        BY <1>0, <3>1
      <3>3. PICK p \in Phone : p = calls[e].on
        BY <3>2
      <3>4. \A f \in Call : On(f, p) => calls'[f] = calls[f]
        BY <2>1, <3>1, <3>3
      <3>5. ASSUME NEW v \in User, v = calls[e].user, calls[e].kind = "register",
                   calls[e].phase = "done"
            PROVE  Registered(v, p)'
        <4>1. Registered(v, p)
          BY <2>5, <3>1, <3>2, <3>3, <3>5 DEF Told
        <4> QED
          BY <2>2, <3>1, <3>3, <4>1
      <3> QED
        BY <1>0, <2>5, <3>1, <3>2, <3>3, <3>4, <3>5 DEF Told, Registered
    <2>6. Stored'
      BY <2>4 DEF Stored
    <2>7. ToldAll'
      BY <1>1, <2>5 DEF ToldAll, Told
    <2> QED
      BY <2>3, <2>6, <2>7
  <1>2. /\ k.kind \in {"verify", "register"} => Verifying(d)
        /\ k.kind \in {"check", "logout", "save"} => ~SigningIn(d)
        /\ k.kind \in {"logout", "save"} => screen[d] \in {"home", "profile"}
    BY <1>0, WhereValues DEF Attended, SigningIn, Verifying
  <1>3. k.kind # "check" => k.phase # "failed"
    <2>1. k.kind \in {"verify", "register", "logout", "save", "check"}
      BY <1>0 DEF CallRec
    <2> QED
      BY <1>0, <1>2, <2>1 DEF Kept, Tells
  \* A phone that shows no sign-in page holds its user, if he is not excused.
  <1>4. ~SigningIn(d) /\ prefs[d].user \notin {NoUser} \cup early =>
          Registered(prefs[d].user, d)
    BY <1>0 DEF Stored, Held
  <1>5. \A v \in User \ early : token[v] = d => prefs[d].user = v \/ v \in refused[d]
    BY <1>0 DEF Tokens
  <1>6. CASE CheckReturns(c)
    <2>1. /\ UNCHANGED prefs /\ k.kind = "check" /\ UNCHANGED notes
          /\ \E s \in {"home", "signup"} : Replace(c, d, s)
      BY <1>6 DEF CheckReturns
    <2> QED
      BY <1>1, <1>2, <1>4, <1>5, <2>1
  <1>7. CASE VerifyReturns(c)
    <2>1. /\ prefs' = [prefs EXCEPT ![d] = [user |-> k.user, token |-> k.token]]
          /\ \/ /\ calls' = [calls EXCEPT ![c].kind = "register", ![c].phase = "sent"]
                /\ early' = early
             \/ End(c) /\ early' = early \cup {k.user}
          /\ refused' = [refused EXCEPT ![d] = @ \ {k.user}]
          /\ UNCHANGED screen /\ k.kind = "verify"
      BY <1>3, <1>7 DEF VerifyReturns
    <2>2. /\ \A e \in Call \ {c} : calls'[e] = calls[e]
          /\ \/ /\ calls'[c] # NoCall /\ calls'[c].kind = "register"
                /\ calls'[c].phase = "sent" /\ calls'[c].on = d
             \/ calls'[c] = NoCall
          /\ early \subseteq early'
      <3>1. CASE End(c) /\ early' = early \cup {k.user}
        BY <3>1 DEF SessionTypeOK
      <3>2. CASE /\ calls' = [calls EXCEPT ![c].kind = "register", ![c].phase = "sent"]
                 /\ early' = early
        <4> DEFINE v == [calls[c] EXCEPT !.kind = "register", !.phase = "sent"]
        <4>1. v \in CallRec
          BY <1>0 DEF CallRec
        <4>2. v.kind = "register" /\ v.phase = "sent" /\ v.on = d
          BY <1>0 DEF CallRec
        <4>3. calls' = [calls EXCEPT ![c] = v]
          BY <1>0, <3>2 DEF SessionTypeOK
        <4> HIDE DEF v
        <4>4. calls'[c] = v /\ \A e \in Call \ {c} : calls'[e] = calls[e]
          BY <4>3 DEF SessionTypeOK
        <4> QED
          BY <3>2, <4>1, <4>2, <4>4, NoCallIsNone
      <3> QED
        BY <2>1, <3>1, <3>2
    <2>3. Verifying(d) /\ k.user = form[d].user
      BY <1>0, <1>2, <2>1 DEF Tells
    <2>4. /\ \A p \in Phone \ {d} : prefs'[p] = prefs[p] /\ refused'[p] = refused[p]
          /\ prefs'[d].user = k.user /\ refused'[d] = refused[d] \ {k.user}
      BY <1>0, <2>1 DEF SessionTypeOK
    <2>5. ASSUME NEW v \in User, NEW p \in Phone, Registered(v, p)
          PROVE  Registered(v, p)'
      <3>1. \A e \in Call : calls[e] # NoCall /\ calls[e].kind = "logout" =>
                              calls'[e] = calls[e]
        BY <2>1, <2>2
      <3> QED
        BY <1>0, <2>5, <3>1, KnownFrame
    <2>6. Tokens'
      <3> SUFFICES ASSUME NEW v \in User \ early, NEW p \in Phone, token[v] = p
                   PROVE  p \in used[v] /\ (prefs'[p].user = v \/ v \in refused'[p])
        BY <1>0, <2>2 DEF Tokens
      <3>1. p \in used[v] /\ (prefs[p].user = v \/ v \in refused[p])
        BY DEF Tokens
      <3>2. CASE p = d
        <4>1. prefs[d].user \in Excused(d) \/ prefs[d].user = k.user
          BY <1>0, <2>3 DEF Kept
        <4> QED
          BY <2>4, <3>1, <3>2, <4>1, SessionSentinels DEF Excused
      <3>3. CASE p # d
        BY <2>4, <3>1, <3>3
      <3> QED
        BY <3>2, <3>3
    <2>7. ASSUME NEW p \in Phone, Held(p)' PROVE Registered(prefs[p].user, p)'
      <3>1. p # d
        BY <2>1, <2>3, <2>4, <2>7 DEF Held, SigningIn, Verifying
      <3>2. prefs'[p].user = prefs[p].user /\ Held(p)
        BY <2>1, <2>2, <2>4, <2>7, <3>1 DEF Held, SigningIn, Verifying
      <3>3. PICK v \in User : v = prefs[p].user
        BY <1>0, <3>2 DEF Held
      <3>4. Registered(v, p)'
        BY <2>5, <3>2, <3>3 DEF Stored
      <3> QED
        BY <3>2, <3>3, <3>4 DEF Registered
    <2>8. ASSUME NEW e \in Call, calls'[e] # NoCall, calls'[e].user \notin early
          PROVE  Told(e)'
      <3>1. CASE e = c
        BY <2>2, <2>8, <3>1 DEF Told
      <3>2. CASE e # c
        <4>1. /\ calls'[e] = calls[e] /\ Told(e) /\ calls[e].on \in Phone
              /\ calls[e].phase = "done" => calls[e].user \in User
          BY <1>0, <2>2, <2>8, <3>2
        <4>2. PICK p \in Phone : p = calls[e].on
          BY <4>1
        <4>3. \A f \in Call : calls[f] # NoCall /\ calls[f].kind = "save" =>
                                calls'[f] = calls[f]
          BY <2>1, <2>2
        <4>4. ASSUME NEW v \in User, v = calls[e].user, calls[e].kind = "register",
                     calls[e].phase = "done"
              PROVE  Registered(v, p)'
          <5>1. Registered(v, p)
            BY <2>8, <4>1, <4>2, <4>4 DEF Told
          <5> QED
            BY <2>5, <5>1
        <4> QED
          BY <1>0, <2>8, <4>1, <4>2, <4>3, <4>4 DEF Told, Registered
      <3> QED
        BY <3>1, <3>2
    <2>9. Stored'
      BY <2>7 DEF Stored
    <2>10. ToldAll'
      BY <2>2, <2>8 DEF ToldAll, Told
    <2> QED
      BY <2>6, <2>9, <2>10
  <1>8. CASE RegisterReturns(c)
    <2>1. /\ prefs' = [prefs EXCEPT ![d].token = d] /\ Replace(c, d, "home")
          /\ k.kind = "register" /\ k.phase = "done" /\ UNCHANGED notes
      BY <1>0, <1>3, <1>8 DEF RegisterReturns
    <2>2. prefs'[d].user = prefs[d].user /\ \A p \in Phone \ {d} : prefs'[p] = prefs[p]
      BY <1>0, <2>1 DEF SessionTypeOK, Prefs
    <2>3. k.user = prefs[d].user /\ (k.user \in early \/ Registered(k.user, d))
      BY <1>0, <2>1 DEF Tells, Told
    <2> QED
      BY <1>1, <1>5, <2>1, <2>2, <2>3
  <1>9. CASE LogoutReturns(c)
    <2>1. /\ prefs' = [prefs EXCEPT ![d] = Empty] /\ Replace(c, d, "signup")
          /\ k.kind = "logout" /\ k.phase = "done" /\ UNCHANGED notes
      BY <1>0, <1>3, <1>9 DEF LogoutReturns
    <2>2. \A e \in Call : ~(On(e, d) /\ calls[e].kind = "save")
      BY <1>0, <2>1, ReplaceAlone
    <2>3. (token[k.user] # d \/ k.user \in early) /\ k.user = prefs[d].user
      BY <1>0, <2>1, <2>2 DEF Told, Tells
    <2>4. \A v \in User \ early : token[v] = d => v \in refused[d]
      BY <1>5, <2>3
    <2>5. prefs'[d].user = NoUser /\ \A p \in Phone \ {d} : prefs'[p] = prefs[p]
      BY <1>0, <2>1 DEF SessionTypeOK, Empty
    <2> QED
      BY <1>1, <2>1, <2>4, <2>5
  <1>10. CASE SaveReturns(c)
    <2>1. /\ prefs' = [prefs EXCEPT ![d] = [user |-> k.user, token |-> k.token]]
          /\ Replace(c, d, "home") /\ k.kind = "save" /\ UNCHANGED notes
      BY <1>0, <1>3, <1>10 DEF SaveReturns
    <2>2. k.user = prefs[d].user
      BY <1>0, <2>1 DEF Tells
    <2>3. prefs'[d].user = prefs[d].user /\ \A p \in Phone \ {d} : prefs'[p] = prefs[p]
      BY <1>0, <2>1, <2>2 DEF SessionTypeOK
    <2> QED
      BY <1>1, <1>2, <1>4, <1>5, <2>1, <2>3
  <1> QED
    BY <1>6, <1>7, <1>8, <1>9, <1>10 DEF Returns

LEMMA NextToken ==
  SessionTypeOK /\ OwnInv /\ KeptInv /\ TokenInv /\ [SessionNext]_sVars => TokenInv'
  <1> SUFFICES ASSUME SessionTypeOK, OwnInv, KeptInv, TokenInv, [SessionNext]_sVars,
                      Undisturbed'
               PROVE  Tokens' /\ Stored' /\ ToldAll'
    BY DEF TokenInv
  <1>1. /\ Undisturbed /\ Attended /\ KeptAll /\ TellsAll
        /\ Tokens /\ Stored /\ ToldAll
    <2>1. Undisturbed
      BY UndisturbedStays
    <2> QED
      BY <2>1 DEF KeptInv, OwnInv, TokenInv, Undisturbed
  <1>2. CASE UNCHANGED sVars
    BY <1>1, <1>2 DEF sVars, Tokens, Stored, Held, SigningIn, Verifying, ToldAll,
                       Told, Registered
  <1> QED
    BY <1>1, <1>2, TouchToken, ReturnToken, ServeToken DEF SessionNext

\* The invariant holds without failures, whatever is tapped.
THEOREM TokenInvariant == SessionSpec => []TokenInv
  <1>1. SessionInit => TokenInv
    BY SessionSentinels DEF SessionInit, TokenInv, Tokens, Stored, Held, ToldAll, Empty
  <1> QED
    BY <1>1, NextToken, KeptInvariant, OwnInvariant, SessionTypeCorrect,
       PTL DEF SessionSpec

\* A user's pushes go to a phone where he is signed in, or that refused him when it
\* was started, unless a request failed, its answer came too late, or he was
\* verified by a page that had no push token yet.
THEOREM TokensAreBacked == SessionSpec => []TokenBacked
  <1>1. TokenInv => TokenBacked
    BY DEF TokenInv, Tokens, TokenBacked
  <1> QED
    BY <1>1, TokenInvariant, PTL

\* Whoever looks at his home page can be called there, unless another phone was
\* registered for him, he is logging out, or he was verified without a push token.
THEOREM HomeIsReachable == SessionSpec => []Reachable
  <1>1. KeptInv /\ TokenInv => Reachable
    BY DEF KeptInv, KeptAll, Kept, Held, SigningIn, Verifying, TokenInv, Stored,
           Registered, Reachable
  <1> QED
    BY <1>1, KeptInvariant, TokenInvariant, PTL

=============================================================================
