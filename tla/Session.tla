------------------------------- MODULE Session -------------------------------
(***************************************************************************)
(* Who is signed in on a phone: the start (lib/splash.dart), the sign-in   *)
(* (lib/sign_ups.dart, lib/verify_otp.dart), the logout                    *)
(* (lib/build_drawer.dart) and the profile form (lib/edit_profile.dart).   *)
(*                                                                         *)
(* The session is kept twice: in the preferences of the phone and, as the  *)
(* push token of the user, on the backend.  Every handler changes the two  *)
(* one after the other, with a request in between, and goes on when its    *)
(* answer arrives even if its screen has gone by then.                     *)
(*                                                                         *)
(* The SMS code is taken as right; a code that is refused counts as a      *)
(* request that failed.                                                    *)
(***************************************************************************)
EXTENDS Naturals, FiniteSets

CONSTANTS
  User, Phone,
  Call,            \* slots for requests in flight
  NoUser, NoToken, \* no user is stored; no phone is registered ('12434')
  NoCall,
  MaxTaps,         \* bound: sign-ins, logouts and saves ever tapped
  MaxFaults        \* bound: failed requests, lost answers, apps killed

ASSUME SessionSentinels == NoUser \notin User /\ NoToken \notin Phone
ASSUME SessionBounds == MaxTaps \in Nat /\ MaxFaults \in Nat

VARIABLES
  prefs,     \* per phone: SharedPreferences, kept when the app is not running
  token,     \* per user: the push token the backend holds
  screen,    \* per phone: the screen on top
  form,      \* per phone: what its form is about: the user whose number Verify_OTP
             \* was given, or what Edit_Pro has read of the preferences
  calls,     \* the requests in flight
  taps, faults,
  outlived,  \* history: a request was in flight when its screen went away
  signed,    \* history: the user whose code was last verified on a phone
  used,      \* history: the phones ever registered for a user
  refused,   \* history, per phone: the users refused by the check of a start
             \* who have not entered a code on it since
  early      \* history: the users verified by a page without a push token

notes == <<refused, early>>

sVars == <<prefs, token, screen, form, calls, taps, faults,
           outlived, signed, used, notes>>

\* Verify_OTP is "ready" once it has got the push token of the phone.
Screen == {"off", "splash", "signup", "verify", "ready", "home", "profile"}

Prefs == [user : User \cup {NoUser}, token : Phone \cup {NoToken}]

Empty == [user |-> NoUser, token |-> NoToken]

\* token is what a save carries, or what the answer to a verify holds; live
\* says that the screen that waits for the answer is still mounted.
CallRec == [kind : {"check", "verify", "register", "logout", "save"},
            on : Phone, user : User \cup {NoUser}, token : Phone \cup {NoToken},
            phase : {"sent", "done", "failed"}, live : BOOLEAN]

ASSUME NoCallIsNone == NoCall \notin CallRec

\* The session of every phone and user, and the requests between them.
SessionTypeOK ==
  /\ prefs \in [Phone -> Prefs]
  /\ token \in [User -> Phone \cup {NoToken}]
  /\ screen \in [Phone -> Screen]
  /\ form \in [Phone -> Prefs]
  /\ calls \in [Call -> CallRec \cup {NoCall}]
  /\ taps \in Nat /\ faults \in Nat
  /\ outlived \in BOOLEAN
  /\ signed \in [Phone -> User \cup {NoUser}]
  /\ used \in [User -> SUBSET Phone]
  /\ refused \in [Phone -> SUBSET User]
  /\ early \subseteq User \cup {NoUser}

SessionInit ==
  /\ prefs = [d \in Phone |-> Empty]
  /\ token = [u \in User |-> NoToken]
  /\ screen = [d \in Phone |-> "off"]
  /\ form = [d \in Phone |-> Empty]
  /\ calls = [c \in Call |-> NoCall]
  /\ taps = 0 /\ faults = 0
  /\ outlived = FALSE
  /\ signed = [d \in Phone |-> NoUser]
  /\ used = [u \in User |-> {}]
  /\ refused = [d \in Phone |-> {}]
  /\ early = {}

-----------------------------------------------------------------------------
(* Requests                                                                 *)

Is(c, kind, phase) ==
  calls[c] # NoCall /\ calls[c].kind = kind /\ calls[c].phase = phase

On(c, d) == calls[c] # NoCall /\ calls[c].on = d

Ask(c, kind, d, u, t) ==
  /\ calls[c] = NoCall
  /\ calls' = [calls EXCEPT ![c] = [kind |-> kind, on |-> d, user |-> u,
                                    token |-> t, phase |-> "sent", live |-> TRUE]]

Tap == taps < MaxTaps /\ taps' = taps + 1

\* The calls of d other than c (of the given kinds) lose their screen; c ends.
Orphan(d, kinds) ==
  [e \in Call |-> IF On(e, d) /\ calls[e].kind \in kinds
                    THEN [calls[e] EXCEPT !.live = FALSE] ELSE calls[e]]

Orphans(d, kinds, c) ==
  \E e \in Call \ {c} : On(e, d) /\ calls[e].kind \in kinds

AnyKind == {"check", "verify", "register", "logout", "save"}

End(c) == calls' = [calls EXCEPT ![c] = NoCall]

\* Mutant: the screens are pushed over the others, which stay mounted.
ReplacePush(c, d, s) ==
  /\ screen' = [screen EXCEPT ![d] = s]
  /\ End(c)
  /\ UNCHANGED outlived

\* pushAndRemoveUntil, Get.offAll: every other screen of the phone goes away.
Replace(c, d, s) ==
  /\ screen' = [screen EXCEPT ![d] = s]
  /\ calls' = [Orphan(d, AnyKind) EXCEPT ![c] = NoCall]
  /\ outlived' = (outlived \/ Orphans(d, AnyKind, c))

\* The backend carries out a request.  It knows no user without an id.
Serve(c) ==
  /\ calls[c] # NoCall /\ calls[c].phase = "sent"
  /\ LET k == calls[c] IN
     IF k.user = NoUser
     THEN /\ calls' = [calls EXCEPT ![c].phase = "failed"]
          /\ UNCHANGED <<token, used>>
     ELSE /\ calls' = [calls EXCEPT ![c].phase = "done",
                         ![c].token = IF k.kind = "verify" THEN token[k.user]
                                                          ELSE k.token]
          /\ token' = CASE k.kind = "register" -> [token EXCEPT ![k.user] = k.on]
                        [] k.kind = "logout" -> [token EXCEPT ![k.user] = NoToken]
                        [] k.kind = "save" -> [token EXCEPT ![k.user] = k.token]
                        [] OTHER -> token
          /\ used' = IF k.kind = "register"
                       THEN [used EXCEPT ![k.user] = @ \cup {k.on}] ELSE used
  /\ UNCHANGED <<prefs, screen, form, taps, faults, outlived, signed, notes>>

\* The session token that comes with the check of a start is no longer good.
Refuse(c) ==
  /\ Is(c, "check", "sent") /\ calls[c].user # NoUser
  /\ calls' = [calls EXCEPT ![c].phase = "failed"]
  /\ refused' = [refused EXCEPT ![calls[c].on] = @ \cup {calls[c].user}]
  /\ UNCHANGED <<prefs, token, screen, form, taps, faults, outlived, signed,
                used, early>>

\* The request does not get through, or its answer does not get back.
Lose(c) ==
  /\ faults < MaxFaults
  /\ calls[c] # NoCall /\ calls[c].phase # "failed"
  /\ faults' = faults + 1
  /\ calls' = [calls EXCEPT ![c].phase = "failed"]
  /\ UNCHANGED <<prefs, token, screen, form, taps, outlived, signed, used, notes>>

-----------------------------------------------------------------------------
(* Splash                                                                   *)

\* getSessionToken and, after three seconds, verifyUserToken
Launch(d, c) ==
  /\ screen[d] = "off"
  /\ screen' = [screen EXCEPT ![d] = "splash"]
  /\ Ask(c, "check", d, prefs[d].user, NoToken)
  /\ UNCHANGED <<prefs, token, form, taps, faults, outlived, signed, used, notes>>

\* An unreachable backend is treated like a refused token, and neither clears
\* the preferences.
CheckReturns(c) ==
  /\ \/ /\ Is(c, "check", "done")
        /\ Replace(c, calls[c].on, "home")
     \/ /\ Is(c, "check", "failed")
        /\ Replace(c, calls[c].on, "signup")
  /\ UNCHANGED <<prefs, token, form, taps, faults, signed, used, notes>>

-----------------------------------------------------------------------------
(* Sign_Up and Verify_OTP                                                   *)

\* registerAndVerifyContact, then codeSent opens Verify_OTP
SendCode(d, u) ==
  /\ screen[d] = "signup"
  /\ screen' = [screen EXCEPT ![d] = "verify"]
  /\ form' = [form EXCEPT ![d] = [user |-> u, token |-> NoToken]]
  /\ UNCHANGED <<prefs, token, calls, taps, faults, outlived, signed, used, notes>>

\* getToken, asked for by initState
TokenArrives(d) ==
  /\ screen[d] = "verify"
  /\ screen' = [screen EXCEPT ![d] = "ready"]
  /\ UNCHANGED <<prefs, token, form, calls, taps, faults, outlived, signed,
                used, notes>>

Verifying(d) == screen[d] \in {"verify", "ready"}

BackToSignUp(d) ==
  /\ Verifying(d)
  /\ screen' = [screen EXCEPT ![d] = "signup"]
  /\ calls' = Orphan(d, {"verify", "register"})
  /\ outlived' = (outlived \/ \E e \in Call : On(e, d))
  /\ UNCHANGED <<prefs, token, form, taps, faults, signed, used, notes>>

\* The button stays live under its spinner.
TapVerify(d, c) ==
  /\ Verifying(d)
  /\ Tap
  /\ Ask(c, "verify", d, form[d].user, NoToken)
  /\ UNCHANGED <<prefs, token, screen, form, faults, outlived, signed, used, notes>>

\* Mutant: the home page is shown before the token is registered.
VerifyReturnsHome(c) ==
  /\ Is(c, "verify", "done")
  /\ prefs' = [prefs EXCEPT ![calls[c].on] =
                 [user |-> calls[c].user, token |-> calls[c].token]]
  /\ signed' = [signed EXCEPT ![calls[c].on] = calls[c].user]
  /\ Replace(c, calls[c].on, "home")
  /\ UNCHANGED <<token, form, taps, faults, used, notes>>

\* Mutant: what is stored is not overwritten.
VerifyReturnsMerges(c) ==
  /\ Is(c, "verify", "done")
  /\ prefs' = [prefs EXCEPT ![calls[c].on] =
                 IF @.user # NoUser THEN @
                 ELSE [user |-> calls[c].user, token |-> calls[c].token]]
  /\ signed' = [signed EXCEPT ![calls[c].on] = calls[c].user]
  /\ calls' = [calls EXCEPT ![c].kind = "register", ![c].phase = "sent"]
  /\ UNCHANGED <<token, screen, form, taps, faults, outlived, used, notes>>

\* token! of the page, which may have got it since it left the screen
Known(c) == IF calls[c].live THEN {screen[calls[c].on] = "ready"} ELSE BOOLEAN

\* _saveUserDataInSharedPreferences, then updateUserToken, also when the page
\* has gone; without a push token the handler throws between the two.
VerifyReturns(c) ==
  LET d == calls[c].on
      u == calls[c].user IN
  /\ \/ /\ Is(c, "verify", "done")
        /\ prefs' = [prefs EXCEPT ![d] = [user |-> u, token |-> calls[c].token]]
        /\ signed' = [signed EXCEPT ![d] = u]
        /\ refused' = [refused EXCEPT ![d] = @ \ {u}]
        /\ \E known \in Known(c) :
             IF known
               THEN /\ calls' = [calls EXCEPT ![c].kind = "register", ![c].phase = "sent"]
                    /\ UNCHANGED early
               ELSE End(c) /\ early' = early \cup {u}
     \/ /\ Is(c, "verify", "failed")
        /\ End(c)
        /\ UNCHANGED <<prefs, signed, refused, early>>
  /\ UNCHANGED <<token, screen, form, taps, faults, outlived, used>>

\* _saveToken, then Home_Screen
RegisterReturns(c) ==
  LET d == calls[c].on IN
  /\ \/ /\ Is(c, "register", "done")
        /\ prefs' = [prefs EXCEPT ![d].token = d]
        /\ IF calls[c].live
             THEN Replace(c, d, "home")
             ELSE End(c) /\ UNCHANGED <<screen, outlived>>
     \/ /\ Is(c, "register", "failed")
        /\ End(c)
        /\ UNCHANGED <<prefs, screen, outlived>>
  /\ UNCHANGED <<token, form, taps, faults, signed, used, notes>>

-----------------------------------------------------------------------------
(* The drawer of Home_Screen                                                *)

\* Mutant: the preferences are cleared first, then the backend is told.
TapLogoutClears(d, c) ==
  /\ screen[d] = "home"
  /\ Tap
  /\ Ask(c, "logout", d, prefs[d].user, NoToken)
  /\ prefs' = [prefs EXCEPT ![d] = Empty]
  /\ UNCHANGED <<token, screen, form, faults, outlived, signed, used, notes>>

TapLogout(d, c) ==
  /\ screen[d] = "home"
  /\ Tap
  /\ Ask(c, "logout", d, prefs[d].user, NoToken)
  /\ UNCHANGED <<prefs, token, screen, form, faults, outlived, signed, used, notes>>

\* The logout goes on without the drawer, and so without a way to leave the home
\* page.
CloseDrawer(d) ==
  /\ screen[d] = "home"
  /\ \E c \in Call : On(c, d) /\ calls[c].kind = "logout" /\ calls[c].live
  /\ calls' = Orphan(d, {"logout"})
  /\ outlived' = TRUE
  /\ UNCHANGED <<prefs, token, screen, form, taps, faults, signed, used, notes>>

\* Mutant: the preferences are left as they are.
LogoutReturnsKeeps(c) ==
  /\ Is(c, "logout", "done")
  /\ IF calls[c].live THEN Replace(c, calls[c].on, "signup")
                      ELSE End(c) /\ UNCHANGED <<screen, outlived>>
  /\ UNCHANGED <<prefs, token, form, taps, faults, signed, used, notes>>

\* clearUserData, then Sign_Up; nothing if the backend did not answer
LogoutReturns(c) ==
  LET d == calls[c].on IN
  /\ \/ /\ Is(c, "logout", "done")
        /\ prefs' = [prefs EXCEPT ![d] = Empty]
        /\ IF calls[c].live THEN Replace(c, d, "signup")
                            ELSE End(c) /\ UNCHANGED <<screen, outlived>>
     \/ /\ Is(c, "logout", "failed")
        /\ End(c)
        /\ UNCHANGED <<prefs, screen, outlived>>
  /\ UNCHANGED <<token, form, taps, faults, signed, used, notes>>

-----------------------------------------------------------------------------
(* Edit_Pro, opened from Home_Screen                                        *)

\* Mutant: the form keeps the id only.
OpenProfileId(d) ==
  /\ screen[d] = "home"
  /\ screen' = [screen EXCEPT ![d] = "profile"]
  /\ form' = [form EXCEPT ![d] = prefs[d].user]
  /\ UNCHANGED <<prefs, token, calls, taps, faults, outlived, signed, used, notes>>

OpenProfile(d) ==
  /\ screen[d] = "home"
  /\ screen' = [screen EXCEPT ![d] = "profile"]
  /\ form' = [form EXCEPT ![d] = prefs[d]]
  /\ UNCHANGED <<prefs, token, calls, taps, faults, outlived, signed, used, notes>>

BackToHome(d) ==
  /\ screen[d] = "profile"
  /\ screen' = [screen EXCEPT ![d] = "home"]
  /\ calls' = Orphan(d, {"save"})
  /\ outlived' = (outlived \/ \E e \in Call : On(e, d) /\ calls[e].kind = "save")
  /\ UNCHANGED <<prefs, token, form, taps, faults, signed, used, notes>>

\* Without a user the form has no mobile number and refuses the tap.
TapSave(d, c) ==
  /\ screen[d] = "profile"
  /\ form[d].user # NoUser
  /\ Tap
  /\ Ask(c, "save", d, form[d].user, form[d].token)
  /\ UNCHANGED <<prefs, token, screen, form, faults, outlived, signed, used, notes>>

\* clearUserData whatever the answer is; only a good one stores the user again
SaveReturns(c) ==
  LET d == calls[c].on IN
  /\ \/ /\ Is(c, "save", "done")
        /\ prefs' = [prefs EXCEPT ![d] = [user |-> calls[c].user,
                                          token |-> calls[c].token]]
        /\ IF calls[c].live
             THEN Replace(c, d, "home")
             ELSE End(c) /\ UNCHANGED <<screen, outlived>>
     \/ /\ Is(c, "save", "failed")
        /\ prefs' = [prefs EXCEPT ![d] = Empty]
        /\ End(c)
        /\ UNCHANGED <<screen, outlived>>
  /\ UNCHANGED <<token, form, taps, faults, signed, used, notes>>

-----------------------------------------------------------------------------
\* The app ends; with requests in flight that is a fault.
Quit(d) ==
  /\ screen[d] # "off"
  /\ \/ ~ \E e \in Call : On(e, d)
     \/ faults < MaxFaults
  /\ faults' = IF \E e \in Call : On(e, d) THEN faults + 1 ELSE faults
  /\ screen' = [screen EXCEPT ![d] = "off"]
  /\ calls' = [e \in Call |-> IF On(e, d) THEN NoCall ELSE calls[e]]
  /\ UNCHANGED <<prefs, token, form, taps, outlived, signed, used, notes>>

Returns(c) ==
  \/ CheckReturns(c) \/ VerifyReturns(c) \/ RegisterReturns(c)
  \/ LogoutReturns(c) \/ SaveReturns(c)

Touch(d) ==
  \/ TokenArrives(d) \/ CloseDrawer(d)
  \/ BackToSignUp(d) \/ OpenProfile(d) \/ BackToHome(d) \/ Quit(d)
  \/ \E u \in User : SendCode(d, u)
  \/ \E c \in Call : \/ Launch(d, c)
                     \/ TapVerify(d, c) \/ TapLogout(d, c) \/ TapSave(d, c)

SessionNext ==
  \/ \E d \in Phone : Touch(d)
  \/ \E c \in Call : Serve(c) \/ Refuse(c) \/ Lose(c) \/ Returns(c)

SessionSpec == SessionInit /\ [][SessionNext]_sVars

-----------------------------------------------------------------------------
(* Properties                                                               *)

Undisturbed == faults = 0 /\ ~outlived

\* A user's pushes go to a phone where he is signed in: the token leaves the
\* backend before the preferences are cleared and comes after they are set.  The
\* users for whom this breaks without a failure, or an answer that outlives its
\* screen, are those a start has refused, on the phone that did, until they enter
\* a code there (their token stays), and those verified without a push token (the
\* preferences keep the old one, which their next save sends).
TokenBacked ==
  Undisturbed =>
    \A u \in User, d \in Phone : token[u] = d =>
      prefs[d].user = u \/ u \in refused[d] \/ u \in early

\* A user who looks at his home page can be called: his token is there unless
\* another phone took it, a logout is under way, or he was verified without one.
Reachable ==
  Undisturbed =>
    \A d \in Phone : screen[d] \in {"home", "profile"} =>
      LET u == prefs[d].user IN
      \/ token[u] = d
      \/ u \in early
      \/ \E e \in used[u] : e # d
      \/ \E c \in Call : On(c, d) /\ calls[c].kind = "logout"

\* Failures may lose the stored user (a refused save does) or keep one who is
\* shown the sign-in page, but what a phone stores is never the data of anyone
\* but the user who last entered a code on it.
NeverAnotherUser ==
  ~outlived => \A d \in Phone : prefs[d].user \in {signed[d], NoUser}

\* Whoever has been signed out stays signed out until he enters a code: nothing
\* else stores a user, as long as answers meet their screens.
SignedInByCode ==
  [][~outlived' =>
       \A d \in Phone :
         prefs[d].user = NoUser /\ prefs'[d].user # NoUser =>
           \E c \in Call : /\ On(c, d) /\ calls[c].user = prefs'[d].user
                           /\ \/ calls[c].kind = "verify"
                              \/ calls[c].kind = "save" /\ screen[d] = "profile"
    ]_sVars

\* Behind the sign-in page a phone keeps no user: a logout has cleared him.  Only
\* a user refused by a start, or verified without a push token, is kept there.
SignedOutIsClean ==
  Undisturbed =>
    \A d \in Phone : screen[d] = "signup" =>
      prefs[d].user \in {NoUser} \cup refused[d] \cup early

=============================================================================
