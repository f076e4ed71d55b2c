------------------------------ MODULE Sessions ------------------------------
(***************************************************************************)
(* Accounts and sessions: AuthService's requests (signup, login, refresh,  *)
(* logout, e-mail verification, Google sign-in) as sequences of awaited    *)
(* Postgres and Redis calls that interleave, and the browser tab whose     *)
(* pages send them and keep the answer in localStorage and in the store.   *)
(*                                                                         *)
(* A request issues at most one refresh token and at most one code, so     *)
(* tokens and codes are named by the request that issued them.             *)
(***************************************************************************)
EXTENDS Integers

CONSTANTS
  Emails,     \* addresses; users.email is unique, so an account is named by it
  MaxRequests,  \* a bound on the API requests; each one runs one operation
  None,       \* no code, no token, no user
  Faults      \* subset of {"cut"}: a request dies between two of its calls

Requests == 1 .. MaxRequests    \* numbered in the order they start

ASSUME RequestsAssumption == MaxRequests \in Nat \ {0}
ASSUME NoneIsNew == None \notin Requests \cup Emails
ASSUME FaultsAssumption == Faults \subseteq {"cut"}

VARIABLES
  user,      \* users row of each address
  otp,       \* Redis otp:<email>: the request whose code it holds, or None
  token,     \* refresh_tokens row of the token each request issued
  revoked,   \* tokens that a logout has deleted (history)
  newest,    \* the code last stored for each address, until it expires (history)
  req,       \* control state of each request
  tab,       \* the browser tab: page, loading flag, auth store, localStorage
  pending    \* requests whose answer the tab still awaits

vars == <<user, otp, token, revoked, newest, req, tab, pending>>
apiVars == <<user, otp, token, revoked, newest>>
tabVars == <<tab, pending>>

Ops == {"none", "signup", "login", "refresh", "verify", "resend", "logout", "logoutAll", "google"}
PCs == {"idle", "find", "insert", "setCode", "issue", "drop", "discard", "markVerified",
        "delCode", "link", "revoke", "ok", "failed", "cut"}
Pages == {"login", "signup", "verify", "callback", "dashboard"}

NoUser == [exists |-> FALSE, verified |-> FALSE, google |-> FALSE, password |-> FALSE]
IdleRequest == [pc |-> "idle", op |-> "none", email |-> None, uses |-> None]
Init ==
  /\ user = [e \in Emails |-> NoUser]
  /\ otp = [e \in Emails |-> None]
  /\ token = [r \in Requests |-> "none"]
  /\ revoked = {}
  /\ newest = [e \in Emails |-> None]
  /\ req = [r \in Requests |-> IdleRequest]
  /\ tab = [page |-> "login", loading |-> None, user |-> None, session |-> None]
  /\ pending = {}

At(r, pc) == req[r].pc = pc
Goto(r, pc) == req' = [req EXCEPT ![r].pc = pc]
Op(r) == req[r].op
Mail(r) == req[r].email

-----------------------------------------------------------------------------
(* AuthService.                                                            *)

(* A client may present any token that was issued, at any time; a logout   *)
(* comes with a JWT.  No code of the repository bans a user, so the        *)
(* isBanned tests of the service are left out.                             *)
Start(r, op, e, used) ==
  /\ At(r, "idle") /\ \A q \in 1 .. r - 1 : ~At(q, "idle")
  /\ req' = [req EXCEPT ![r] = [pc |-> IF op \in {"logout", "logoutAll"} THEN "revoke" ELSE "find",
                                op |-> op, email |-> e, uses |-> used]]

CallApi(r) ==
  /\ \/ \E e \in Emails, op \in {"login", "resend"} : Start(r, op, e, None)
     \/ \E t \in Requests :
          /\ token[t] # "none"
          /\ \E op \in {"refresh", "logout"} : Start(r, op, Mail(t), t)
     \/ \E e \in Emails : user[e].exists /\ Start(r, "logoutAll", e, None)
  /\ UNCHANGED <<apiVars, tabVars>>

(* signup and login look the account up and decide from that copy.         *)
FindForSignup(r) ==
  /\ At(r, "find") /\ Op(r) = "signup"
  /\ Goto(r, IF user[Mail(r)].exists THEN "failed" ELSE "insert")
  /\ UNCHANGED <<apiVars, tabVars>>

FindForLogin(r) ==
  /\ At(r, "find") /\ Op(r) = "login"
  /\ \/ user[Mail(r)].password /\ Goto(r, "issue")
     \/ Goto(r, "failed")                  \* unknown, or a wrong password
  /\ UNCHANGED <<apiVars, tabVars>>

(* The transaction that creates organization and user: the unique e-mail   *)
(* makes it fail when another request was faster.                          *)
InsertUser(r) ==
  /\ At(r, "insert")
  /\ IF user[Mail(r)].exists
     THEN Goto(r, "failed") /\ UNCHANGED user
     ELSE LET google == Op(r) = "google" IN
       /\ user' = [user EXCEPT ![Mail(r)] = [NoUser EXCEPT !.exists = TRUE, !.verified = google,
                                             !.google = google, !.password = ~google]]
       /\ Goto(r, IF google THEN "issue" ELSE "setCode")
  /\ UNCHANGED <<otp, token, revoked, newest, tabVars>>

(* Mutant: the address is stored where the code should be. *)
SetAddress(r) ==
  /\ At(r, "setCode")
  /\ otp' = [otp EXCEPT ![Mail(r)] = Mail(r)]
  /\ newest' = [newest EXCEPT ![Mail(r)] = r]
  /\ Goto(r, "ok")
  /\ UNCHANGED <<user, token, revoked, tabVars>>

(* SET otp:<email>, with its time to live.                                 *)
SetCode(r) ==
  /\ At(r, "setCode")
  /\ otp' = [otp EXCEPT ![Mail(r)] = r]
  /\ newest' = [newest EXCEPT ![Mail(r)] = r]
  /\ Goto(r, IF Op(r) = "signup" THEN "issue" ELSE "ok")
  /\ UNCHANGED <<user, token, revoked, tabVars>>

(* generateTokens inserts the row of a new refresh token.                  *)
IssueToken(r) ==
  /\ At(r, "issue")
  /\ token' = [token EXCEPT ![r] = "live"]
  /\ Goto(r, "ok")
  /\ UNCHANGED <<user, otp, revoked, newest, tabVars>>

FindToken(r) ==
  /\ At(r, "find") /\ Op(r) = "refresh"
  /\ LET t == req[r].uses IN
     Goto(r, CASE token[t] = "expired" -> "discard"
               [] token[t] = "live" -> "drop"
               [] OTHER -> "failed")
  /\ UNCHANGED <<apiVars, tabVars>>

(* Mutant: the old token is removed with deleteMany, which never throws. *)
DropTokenQuietly(r) ==
  /\ At(r, "drop")
  /\ token' = [token EXCEPT ![req[r].uses] = "gone"]
  /\ Goto(r, "issue")
  /\ UNCHANGED <<user, otp, revoked, newest, tabVars>>

(* Rotation: delete throws when the row is gone by now.                    *)
DropToken(r) ==
  /\ At(r, "drop")
  /\ LET t == req[r].uses IN
     IF token[t] \in {"live", "expired"}
     THEN token' = [token EXCEPT ![t] = "gone"] /\ Goto(r, "issue")
     ELSE Goto(r, "failed") /\ UNCHANGED token
  /\ UNCHANGED <<user, otp, revoked, newest, tabVars>>

DiscardExpired(r) ==
  /\ At(r, "discard")
  /\ token' = [token EXCEPT ![req[r].uses] = IF @ = "expired" THEN "discarded" ELSE @]
  /\ Goto(r, "failed")
  /\ UNCHANGED <<user, otp, revoked, newest, tabVars>>

(* Mutant: verification consumes the code before it marks the user. *)
CompareAndDelete(r) ==
  /\ At(r, "find") /\ Op(r) = "verify"
  /\ IF otp[Mail(r)] # None /\ otp[Mail(r)] = req[r].uses
     THEN otp' = [otp EXCEPT ![Mail(r)] = None] /\ Goto(r, "markVerified")
     ELSE Goto(r, "failed") /\ UNCHANGED otp
  /\ UNCHANGED <<user, token, revoked, newest, tabVars>>

(* verifyEmail compares the code presented with the one Redis holds.       *)
CompareCode(r) ==
  /\ At(r, "find") /\ Op(r) = "verify"
  /\ Goto(r, IF otp[Mail(r)] # None /\ otp[Mail(r)] = req[r].uses THEN "markVerified" ELSE "failed")
  /\ UNCHANGED <<apiVars, tabVars>>

MarkVerified(r) ==
  /\ At(r, "markVerified")
  /\ IF user[Mail(r)].exists
     THEN user' = [user EXCEPT ![Mail(r)].verified = TRUE] /\ Goto(r, "delCode")
     ELSE Goto(r, "failed") /\ UNCHANGED user
  /\ UNCHANGED <<otp, token, revoked, newest, tabVars>>

DelCode(r) ==
  /\ At(r, "delCode")
  /\ otp' = [otp EXCEPT ![Mail(r)] = None]
  /\ Goto(r, "ok")
  /\ UNCHANGED <<user, token, revoked, newest, tabVars>>

(* resendVerification tells nobody whether an address is registered.       *)
FindForResend(r) ==
  /\ At(r, "find") /\ Op(r) = "resend"
  /\ LET u == user[Mail(r)] IN
     Goto(r, CASE ~u.exists -> "ok" [] u.verified -> "failed" [] OTHER -> "setCode")
  /\ UNCHANGED <<apiVars, tabVars>>

(* logout deletes one session by its token, or all of the account's.       *)
Revoke(r) ==
  /\ At(r, "revoke")
  /\ LET dead == {t \in Requests : /\ token[t] \in {"live", "expired"}
                                   /\ IF Op(r) = "logout" THEN t = req[r].uses ELSE Mail(t) = Mail(r)} IN
     /\ token' = [t \in Requests |-> IF t \in dead THEN "gone" ELSE token[t]]
     /\ revoked' = revoked \cup dead
  /\ Goto(r, "ok")
  /\ UNCHANGED <<user, otp, newest, tabVars>>

(* handleGoogleUser links the account it finds, or creates one.            *)
FindForGoogle(r) ==
  /\ At(r, "find") /\ Op(r) = "google"
  /\ LET u == user[Mail(r)] IN
     Goto(r, CASE ~u.exists -> "insert" [] u.exists /\ ~u.google -> "link" [] OTHER -> "issue")
  /\ UNCHANGED <<apiVars, tabVars>>

LinkGoogle(r) ==
  /\ At(r, "link")
  /\ user' = [user EXCEPT ![Mail(r)].google = TRUE, ![Mail(r)].verified = TRUE]
  /\ Goto(r, "issue")
  /\ UNCHANGED <<otp, token, revoked, newest, tabVars>>

RequestStep(r) ==
  \/ FindForSignup(r) \/ FindForLogin(r) \/ InsertUser(r) \/ SetCode(r) \/ IssueToken(r)
  \/ FindToken(r) \/ DropToken(r) \/ DiscardExpired(r)
  \/ CompareCode(r) \/ MarkVerified(r) \/ DelCode(r) \/ FindForResend(r)
  \/ Revoke(r) \/ FindForGoogle(r) \/ LinkGoogle(r)

Ended == {"ok", "failed", "cut"}

(* The API process dies, or the next call throws.                          *)
CutRequest(r) ==
  /\ "cut" \in Faults /\ req[r].pc \notin Ended \cup {"idle"}
  /\ Goto(r, "cut")
  /\ UNCHANGED <<apiVars, tabVars>>

(* Time passes: a refresh token lives seven days, a code ten minutes.      *)
ExpireToken(t) ==
  /\ token[t] = "live"
  /\ token' = [token EXCEPT ![t] = "expired"]
  /\ UNCHANGED <<user, otp, revoked, newest, req, tabVars>>

ExpireCode(e) ==
  /\ otp[e] # None
  /\ otp' = [otp EXCEPT ![e] = None]
  /\ newest' = [newest EXCEPT ![e] = None]
  /\ UNCHANGED <<user, token, revoked, req, tabVars>>

-----------------------------------------------------------------------------
(* The browser tab.                                                        *)

Send(r) == tab' = [tab EXCEPT !.loading = r] /\ pending' = pending \cup {r}

(* The login and signup forms: the button is disabled while loading.       *)
SubmitLogin(r, e) ==
  /\ tab.page = "login" /\ tab.loading = None
  /\ Start(r, "login", e, None) /\ Send(r)
  /\ UNCHANGED apiVars

SubmitSignup(r, e) ==
  /\ tab.page = "signup" /\ tab.loading = None
  /\ Start(r, "signup", e, None) /\ Send(r)
  /\ UNCHANGED apiVars

(* The link to Google leaves the application: its scripts are gone.        *)
ContinueWithGoogle(r, e) ==
  /\ tab.page = "login"
  /\ Start(r, "google", e, None)
  /\ tab' = [tab EXCEPT !.loading = None, !.user = None]
  /\ pending' = {}
  /\ UNCHANGED apiVars

(* The verification form asks for the store's user only, and its codes are *)
(* those that were mailed to him, or a wrong one.                          *)
SubmitCode(r) ==
  /\ tab.page = "verify" /\ tab.loading = None /\ tab.user # None
  /\ \E k \in {None} \cup {q \in Requests : Mail(q) = tab.user /\ Op(q) \in {"signup", "resend"}} :
       Start(r, "verify", tab.user, k)
  /\ Send(r)
  /\ UNCHANGED apiVars

ResendCode(r) ==
  /\ tab.page = "verify" /\ tab.user # None
  /\ Start(r, "resend", tab.user, None)
  /\ UNCHANGED <<apiVars, tabVars>>

(* The links between the two forms keep the script, and its pending        *)
(* requests, alive; the button's state goes with its page.                 *)
FollowLink ==
  /\ tab.page \in {"login", "signup"}
  /\ tab' = [tab EXCEPT !.page = IF @ = "login" THEN "signup" ELSE "login", !.loading = None]
  /\ UNCHANGED <<apiVars, req, pending>>

(* Mutant: an error leaves the button disabled. *)
AnswerNoFinally(r) ==
  /\ r \in pending /\ At(r, "ok")
  /\ pending' = pending \ {r}
  /\ tab' = [page |-> "dashboard", loading |-> None, user |-> Mail(r), session |-> r]
  /\ UNCHANGED <<apiVars, req>>

(* An answer to a form: login() fills store and localStorage, and an error *)
(* only ends the loading of the form, if that is still shown.              *)
Answer(r) ==
  /\ r \in pending /\ req[r].pc \in Ended
  /\ pending' = pending \ {r}
  /\ IF At(r, "ok")
     THEN tab' = CASE Op(r) = "login" -> [page |-> "dashboard", loading |-> None,
                                          user |-> Mail(r), session |-> r]
                   [] Op(r) = "signup" -> [page |-> "verify", loading |-> None,
                                           user |-> Mail(r), session |-> r]
                   [] OTHER -> [tab EXCEPT !.page = "dashboard", !.loading = None]
     ELSE tab' = [tab EXCEPT !.loading = IF @ = r THEN None ELSE @]
  /\ UNCHANGED <<apiVars, req>>

(* Google's redirect loads the callback page with a request's tokens; the  *)
(* page stores them and asks /user/me before it fills the store.           *)
OpenCallback(r) ==
  /\ At(r, "ok") /\ Op(r) = "google"
  /\ tab' = [page |-> "callback", loading |-> r, user |-> None, session |-> r]
  /\ pending' = {}
  /\ UNCHANGED <<apiVars, req>>

MeAnswers ==
  /\ tab.page = "callback"
  /\ LET e == Mail(tab.loading) IN
     \/ /\ user[e].exists
        /\ tab' = [page |-> "dashboard", loading |-> None, user |-> e, session |-> tab.loading]
     \/ tab' = [tab EXCEPT !.page = "login", !.loading = None]    \* 401, or no network
  /\ UNCHANGED <<apiVars, req, pending>>

(* A reload empties the store and forgets what was pending; localStorage   *)
(* stays.                                                                  *)
Reload ==
  /\ tab.page # "callback"
  /\ tab' = [tab EXCEPT !.loading = None, !.user = None]
  /\ pending' = {}
  /\ UNCHANGED <<apiVars, req>>

TabStep == MeAnswers \/ \E r \in Requests : Answer(r)

Next ==
  \/ \E r \in Requests :
       \/ CallApi(r) \/ RequestStep(r) \/ CutRequest(r) \/ ExpireToken(r)
       \/ \E e \in Emails : SubmitLogin(r, e) \/ SubmitSignup(r, e) \/ ContinueWithGoogle(r, e)
       \/ SubmitCode(r) \/ ResendCode(r) \/ OpenCallback(r)
  \/ \E e \in Emails : ExpireCode(e)
  \/ FollowLink \/ Reload \/ TabStep

Spec == Init /\ [][Next]_vars

(* A request that has started runs on, and the tab handles its answers.    *)
Fairness == WF_vars(TabStep) /\ \A r \in Requests : WF_vars(RequestStep(r))
FairSpec == Spec /\ Fairness

-----------------------------------------------------------------------------
(* Properties.                                                             *)

TypeOK ==
  /\ user \in [Emails -> [exists: BOOLEAN, verified: BOOLEAN,
                          google: BOOLEAN, password: BOOLEAN]]
  /\ otp \in [Emails -> Requests \cup {None}]
  /\ token \in [Requests -> {"none", "live", "expired", "gone", "discarded"}]
  /\ revoked \subseteq Requests
  /\ newest \in [Emails -> Requests \cup {None}]
  /\ req \in [Requests -> [pc: PCs, op: Ops, email: Emails \cup {None}, uses: Requests \cup {None}]]
  /\ tab \in [page: Pages, loading: Requests \cup {None}, user: Emails \cup {None},
              session: Requests \cup {None}]
  /\ pending \subseteq Requests

Heirs(t) == {r \in Requests : Op(r) = "refresh" /\ req[r].uses = t /\ token[r] # "none"}

(* A refresh token buys one successor, however many requests present it at *)
(* the same time.                                                          *)
ExchangedOnce ==
  \A t \in Requests : \A r, q \in Heirs(t) : r = q

(* A session that a logout has ended has no successor: a refresh that was  *)
(* on its way when the logout came in ends with an error.                  *)
RevokedHasNoHeir == \A t \in revoked : Heirs(t) = {}

(* A refresh never loses the session: once its token is gone the successor *)
(* is there or about to be inserted, unless the process died in between.   *)
Exchanging(t) ==
  \E r \in Requests : Op(r) = "refresh" /\ req[r].uses = t /\ req[r].pc \in {"issue", "cut"}

RotationKeepsSession ==
  \A t \in Requests :
    token[t] = "gone" /\ t \notin revoked =>
      Heirs(t) # {} \/ Exchanging(t)

(* refreshTokens exchanges a token for one, unless it was revoked.         *)
RotationSound == ExchangedOnce /\ RevokedHasNoHeir /\ RotationKeepsSession

(* As long as the address is not verified, the code last mailed to it is   *)
(* the one Redis holds: neither a verification that dies half way nor a    *)
(* second signup takes it away.                                            *)
NewestCodeStands ==
  \A e \in Emails : user[e].exists /\ ~user[e].verified => otp[e] = newest[e]

(* Whatever the API answers, a form does not stay disabled.                *)
FormSettles == \A r \in Requests : tab.loading = r ~> tab.loading # r

=============================================================================
