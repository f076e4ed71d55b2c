---------------------------- MODULE SessionsProofs ----------------------------
(***************************************************************************)
(* What the accounts and sessions guarantee for any number of requests and *)
(* addresses, and any cuts: the types, that the rotation of refresh tokens *)
(* neither duplicates nor loses a session, and that the code last mailed   *)
(* to an address that is not verified is the one that counts.              *)
(***************************************************************************)
EXTENDS Sessions, TLAPS

RequestStates ==
  [pc: PCs, op: Ops, email: Emails \cup {None}, uses: Requests \cup {None}]
TabStates ==
  [page: Pages, loading: Requests \cup {None}, user: Emails \cup {None},
   session: Requests \cup {None}]
Tokens == {"none", "live", "expired", "gone", "discarded"}

(* While Google's redirect is shown, the tab knows the request it is about, *)
(* and awaits no other.                                                    *)
CallbackKnown == tab.page = "callback" => tab.loading \in Requests /\ pending = {}

(* A request that has started knows its account, and a refresh its token;  *)
(* a token is issued by the last call of a request.                        *)
RequestShape ==
  \A r \in Requests : /\ ~At(r, "idle") => Mail(r) \in Emails
                      /\ Op(r) = "refresh" => req[r].uses \in Requests
                      /\ token[r] # "none" => At(r, "ok")
TypeInv == TypeOK /\ CallbackKnown /\ RequestShape

LEMMA Initially == Init => TypeInv
BY DEF Init, TypeInv, TypeOK, CallbackKnown, RequestShape, NoUser, IdleRequest, PCs, Ops, Pages, At, Op

-----------------------------------------------------------------------------
(* How a request moves.                                                    *)

LEMMA Moved ==
  ASSUME TypeOK, NEW r \in Requests, NEW pc \in PCs, Goto(r, pc)
  PROVE  /\ req' \in [Requests -> RequestStates]
         /\ req'[r].pc = pc /\ req'[r].op = req[r].op
         /\ req'[r].email = req[r].email /\ req'[r].uses = req[r].uses
         /\ \A q \in Requests : q # r => req'[q] = req[q]
BY DEF TypeOK, Goto, RequestStates

LEMMA Started ==
  ASSUME TypeOK, NEW r \in Requests, NEW op \in Ops, NEW e \in Emails \cup {None},
         NEW used \in Requests \cup {None}, Start(r, op, e, used)
  PROVE  /\ req' \in [Requests -> RequestStates]
         /\ req[r].pc = "idle" /\ req'[r].pc \in {"find", "revoke"}
         /\ req'[r].op = op /\ req'[r].email = e /\ req'[r].uses = used
         /\ \A q \in Requests : q # r => req'[q] = req[q]
BY DEF TypeOK, Start, RequestStates, At, PCs

(* Each step of a request leaves its operation alone, and goes to a place  *)
(* of the code.                                                            *)
LEMMA StepMoves ==
  ASSUME TypeOK, NEW r \in Requests, RequestStep(r) \/ CutRequest(r)
  PROVE  /\ \E pc \in PCs : Goto(r, pc)
         /\ req[r].pc \notin Ended \cup {"idle"}
<1>1. CASE FindForSignup(r) \/ FindForLogin(r) \/ FindForResend(r) \/ FindForGoogle(r)
  BY <1>1 DEF FindForSignup, FindForLogin, FindForResend, FindForGoogle, PCs, At, Ended
<1>2. CASE InsertUser(r) \/ SetCode(r) \/ IssueToken(r) \/ LinkGoogle(r)
  BY <1>2 DEF InsertUser, SetCode, IssueToken, LinkGoogle, PCs, At, Ended
<1>3. CASE FindToken(r) \/ DropToken(r) \/ DiscardExpired(r) \/ Revoke(r)
  BY <1>3 DEF FindToken, DropToken, DiscardExpired, Revoke, PCs, At, Ended
<1>4. CASE CompareCode(r) \/ MarkVerified(r) \/ DelCode(r)
  BY <1>4 DEF CompareCode, MarkVerified, DelCode, PCs, At, Ended
<1>5. CASE CutRequest(r)
  BY <1>5 DEF CutRequest, PCs, Ended
<1> QED BY <1>1, <1>2, <1>3, <1>4, <1>5 DEF RequestStep

-----------------------------------------------------------------------------
(* The type invariant is inductive.                                        *)

LEMMA StepTyped ==
  ASSUME TypeInv, NEW r \in Requests, RequestStep(r) \/ CutRequest(r)
  PROVE  TypeInv'
<1> USE DEF TypeInv
<1>1. req' \in [Requests -> RequestStates]
  BY StepMoves, Moved
<1>2. UNCHANGED tabVars
  BY DEF RequestStep, CutRequest, FindForSignup, FindForLogin, FindForResend, FindForGoogle,
     InsertUser, SetCode, IssueToken, LinkGoogle, FindToken, DropToken, DiscardExpired, Revoke,
     CompareCode, MarkVerified, DelCode
<1>3. user' \in [Emails -> [exists: BOOLEAN, verified: BOOLEAN, google: BOOLEAN, password: BOOLEAN]]
  <2> DEFINE Users == [exists: BOOLEAN, verified: BOOLEAN, google: BOOLEAN, password: BOOLEAN]
  <2>0. Mail(r) \in Emails /\ user[Mail(r)] \in Users
    BY StepMoves DEF RequestShape, At, TypeOK
  <2>a. ASSUME NEW u \in Users PROVE [user EXCEPT ![Mail(r)] = u] \in [Emails -> Users]
    BY DEF TypeOK
  <2>b. \A u \in Users : /\ [u EXCEPT !.verified = TRUE] \in Users
                         /\ [u EXCEPT !.google = TRUE, !.verified = TRUE] \in Users
    OBVIOUS
  <2>1. CASE InsertUser(r)
    <3>1. \A b \in BOOLEAN : [NoUser EXCEPT !.exists = TRUE, !.verified = b,
                                           !.google = b, !.password = ~b] \in Users
      BY DEF NoUser
    <3>2. UNCHANGED user \/ \E u \in Users : user' = [user EXCEPT ![Mail(r)] = u]
      BY <2>1, <3>1 DEF InsertUser
    <3> QED BY <2>a, <3>2 DEF TypeOK
  <2>2. CASE MarkVerified(r)
    <3>1. UNCHANGED user \/ user' = [user EXCEPT ![Mail(r)] = [user[Mail(r)] EXCEPT !.verified = TRUE]]
      BY <2>2 DEF MarkVerified
    <3>2. [user EXCEPT ![Mail(r)] = [user[Mail(r)] EXCEPT !.verified = TRUE]] \in [Emails -> Users]
      BY <2>0, <2>a, <2>b
    <3> QED BY <3>1, <3>2 DEF TypeOK
  <2>4. CASE LinkGoogle(r)
    <3>1. user' = [user EXCEPT ![Mail(r)] = [user[Mail(r)] EXCEPT !.google = TRUE, !.verified = TRUE]]
      BY <2>0, <2>4 DEF LinkGoogle, TypeOK
    <3> QED BY <2>0, <2>a, <2>b, <3>1
  <2>3. CASE UNCHANGED user
    BY <2>3 DEF TypeOK
  <2> QED
    BY <2>1, <2>2, <2>3, <2>4 DEF RequestStep, CutRequest, FindForSignup, FindForLogin, FindForResend,
       FindForGoogle, SetCode, IssueToken, FindToken, DropToken, DiscardExpired, Revoke,
       CompareCode, DelCode, apiVars
<1>4. otp' \in [Emails -> Requests \cup {None}] /\ newest' \in [Emails -> Requests \cup {None}]
  <2>1. CASE SetCode(r)
    BY <2>1 DEF SetCode, TypeOK
  <2>2. CASE DelCode(r)
    BY <2>2 DEF DelCode, TypeOK
  <2>3. CASE UNCHANGED <<otp, newest>>
    BY <2>3 DEF TypeOK
  <2> QED
    BY <2>1, <2>2, <2>3 DEF RequestStep, CutRequest, FindForSignup, FindForLogin, FindForResend,
       FindForGoogle, InsertUser, IssueToken, LinkGoogle, FindToken, DropToken, DiscardExpired,
       Revoke, CompareCode, MarkVerified, apiVars
<1>5. token' \in [Requests -> Tokens] /\ revoked' \subseteq Requests
  <2>1. CASE IssueToken(r) \/ DropToken(r)
    BY <2>1 DEF IssueToken, DropToken, TypeOK, Tokens
  <2>2. CASE DiscardExpired(r)
    BY <2>2 DEF DiscardExpired, TypeOK, Tokens
  <2>3. CASE Revoke(r)
    BY <2>3 DEF Revoke, TypeOK, Tokens
  <2>4. CASE UNCHANGED <<token, revoked>>
    BY <2>4 DEF TypeOK, Tokens
  <2> QED
    BY <2>1, <2>2, <2>3, <2>4 DEF RequestStep, CutRequest, FindForSignup, FindForLogin,
       FindForResend, FindForGoogle, InsertUser, SetCode, LinkGoogle, FindToken, CompareCode,
       MarkVerified, DelCode, apiVars
<1>6. RequestShape'
  <2>1. token[r] = "none" /\ Mail(r) \in Emails
    BY StepMoves DEF RequestShape, At, Ended
  <2>2. ASSUME NEW t \in Requests, token'[t] # "none" PROVE At(t, "ok")'
    <3>1. CASE IssueToken(r)
      BY <2>1, <2>2, <3>1, Moved DEF IssueToken, RequestShape, At, PCs, TypeOK
    <3>2. CASE DropToken(r)
      BY <2>1, <2>2, <3>2, StepMoves, Moved DEF DropToken, RequestShape, At, TypeOK
    <3>3. CASE DiscardExpired(r)
      BY <2>1, <2>2, <3>3, StepMoves, Moved DEF DiscardExpired, RequestShape, At, TypeOK
    <3>4. CASE Revoke(r)
      BY <2>1, <2>2, <3>4, StepMoves, Moved DEF Revoke, RequestShape, At, TypeOK
    <3>5. CASE UNCHANGED token
      BY <2>1, <2>2, <3>5, StepMoves, Moved DEF RequestShape, At
    <3> QED
      BY <3>1, <3>2, <3>3, <3>4, <3>5 DEF RequestStep, CutRequest, FindForSignup, FindForLogin,
         FindForResend, FindForGoogle, InsertUser, SetCode, LinkGoogle, FindToken, CompareCode,
         MarkVerified, DelCode, apiVars
  <2> QED BY <2>1, <2>2, StepMoves, Moved DEF RequestShape, At, Mail, Op
<1> QED BY <1>1, <1>2, <1>3, <1>4, <1>5, <1>6 DEF TypeOK, CallbackKnown, RequestStates, Tokens, tabVars

(* What a client or the tab sends is well formed, and the API's tables and *)
(* the other requests stay as they are.                                    *)
LEMMA SendStarts ==
  ASSUME TypeInv, NEW r \in Requests, NEW e \in Emails,
         CallApi(r) \/ SubmitLogin(r, e) \/ SubmitSignup(r, e) \/ ContinueWithGoogle(r, e)
         \/ SubmitCode(r) \/ ResendCode(r)
  PROVE  \E op \in Ops, m \in Emails, used \in Requests \cup {None} :
           (op = "refresh" => used \in Requests) /\ Start(r, op, m, used)
<1>1. CASE CallApi(r)
  <2>1. ASSUME NEW t \in Requests, token[t] # "none" PROVE Mail(t) \in Emails
    BY <2>1 DEF RequestShape, At, TypeInv
  <2> QED BY <1>1, <2>1 DEF CallApi, Ops
<1>2. CASE SubmitLogin(r, e) \/ SubmitSignup(r, e) \/ ContinueWithGoogle(r, e)
  BY <1>2 DEF SubmitLogin, SubmitSignup, ContinueWithGoogle, Ops
<1>3. CASE SubmitCode(r) \/ ResendCode(r)
  BY <1>3 DEF SubmitCode, ResendCode, Ops, TypeInv, TypeOK
<1> QED BY <1>1, <1>2, <1>3

LEMMA SendTyped ==
  ASSUME TypeInv, NEW r \in Requests, NEW e \in Emails,
         CallApi(r) \/ SubmitLogin(r, e) \/ SubmitSignup(r, e) \/ ContinueWithGoogle(r, e)
         \/ SubmitCode(r) \/ ResendCode(r)
  PROVE  TypeInv'
<1> USE DEF TypeInv
<1>1. UNCHANGED apiVars
  BY DEF CallApi, SubmitLogin, SubmitSignup, ContinueWithGoogle, SubmitCode, ResendCode
<1>2. \E op \in Ops, m \in Emails, used \in Requests \cup {None} :
        (op = "refresh" => used \in Requests) /\ Start(r, op, m, used)
  BY SendStarts
<1>3. req' \in [Requests -> RequestStates] /\ RequestShape'
  BY <1>1, <1>2, Started DEF RequestShape, apiVars, At, Mail, Op
<1>4. tab' \in TabStates /\ pending' \subseteq Requests /\ CallbackKnown'
  BY DEF CallApi, SubmitLogin, SubmitSignup, ContinueWithGoogle, SubmitCode, ResendCode, Send,
     tabVars, TypeOK, TabStates, CallbackKnown
<1> QED BY <1>1, <1>3, <1>4 DEF TypeOK, apiVars, RequestStates, TabStates

LEMMA TabTyped ==
  ASSUME TypeInv, FollowLink \/ Reload \/ MeAnswers
                  \/ \E r \in Requests : Answer(r) \/ OpenCallback(r)
  PROVE  TypeInv'
<1> USE DEF TypeInv
<1>1. UNCHANGED <<apiVars, req>>
  BY DEF FollowLink, Reload, MeAnswers, Answer, OpenCallback
<1>2. pending' \subseteq Requests
  BY DEF FollowLink, Reload, MeAnswers, Answer, OpenCallback, TypeOK
<1>3. tab' \in TabStates /\ CallbackKnown'
  <2>1. CASE FollowLink \/ Reload
    BY <2>1 DEF FollowLink, Reload, TypeOK, TabStates, CallbackKnown, Pages
  <2>2. CASE MeAnswers
    <3>1. tab.loading \in Requests /\ Mail(tab.loading) \in Emails \cup {None}
      BY <2>2 DEF MeAnswers, CallbackKnown, TypeOK, Mail
    <3>2. tab.page = "callback" /\ UNCHANGED pending
      BY <2>2 DEF MeAnswers
    <3>3. \/ tab' = [page |-> "dashboard", loading |-> None, user |-> Mail(tab.loading),
                    session |-> tab.loading]
          \/ tab' = [tab EXCEPT !.page = "login", !.loading = None]
      BY <2>2 DEF MeAnswers
    <3>4. CASE tab' = [page |-> "dashboard", loading |-> None, user |-> Mail(tab.loading),
                       session |-> tab.loading]
      BY <3>1, <3>4 DEF TabStates, CallbackKnown, Pages
    <3>5. CASE tab' = [tab EXCEPT !.page = "login", !.loading = None]
      BY <3>5 DEF TypeOK, TabStates, CallbackKnown, Pages
    <3> QED BY <3>3, <3>4, <3>5
  <2>3. ASSUME NEW r \in Requests, Answer(r) PROVE tab' \in TabStates /\ CallbackKnown'
    <3>1. Mail(r) \in Emails \cup {None}
      BY DEF Mail, TypeOK
    <3>2. tab.page # "callback" /\ tab \in TabStates
      BY <2>3 DEF Answer, CallbackKnown, TypeOK, TabStates
    <3>3. CASE At(r, "ok")
      <4>1. \E p \in Pages \ {"callback"} :
              tab' = [page |-> p, loading |-> None, user |-> Mail(r), session |-> r]
              \/ tab' = [tab EXCEPT !.page = p, !.loading = None]
        BY <2>3, <3>3 DEF Answer, Pages
      <4>2. ASSUME NEW p \in Pages \ {"callback"},
                   tab' = [page |-> p, loading |-> None, user |-> Mail(r), session |-> r]
            PROVE  tab' \in TabStates /\ tab'.page = p
        BY <3>1, <4>2 DEF TabStates
      <4>3. ASSUME NEW p \in Pages \ {"callback"}, tab' = [tab EXCEPT !.page = p, !.loading = None]
            PROVE  tab' \in TabStates /\ tab'.page = p
        BY <3>2, <4>3 DEF TabStates
      <4> QED BY <4>1, <4>2, <4>3 DEF CallbackKnown
    <3>4. CASE ~At(r, "ok")
      BY <2>3, <3>2, <3>4 DEF Answer, TabStates, CallbackKnown
    <3> QED BY <3>3, <3>4
  <2>4. ASSUME NEW r \in Requests, OpenCallback(r) PROVE tab' \in TabStates /\ CallbackKnown'
    BY <2>4 DEF OpenCallback, TypeOK, TabStates, CallbackKnown, Pages
  <2> QED BY <2>1, <2>2, <2>3, <2>4
<1> QED BY <1>1, <1>2, <1>3 DEF TypeOK, apiVars, TabStates, RequestShape, At, Mail, Op
LEMMA TimeTyped ==
  ASSUME TypeInv, \/ \E t \in Requests : ExpireToken(t)
                  \/ \E e \in Emails : ExpireCode(e)
                  \/ UNCHANGED vars
  PROVE  TypeInv'
<1>1. ASSUME NEW t \in Requests, ExpireToken(t) PROVE TypeInv'
  BY <1>1 DEF ExpireToken, TypeInv, TypeOK, CallbackKnown, RequestShape, At, Mail, Op, tabVars
<1>2. ASSUME NEW e \in Emails, ExpireCode(e) PROVE TypeInv'
  BY <1>2 DEF ExpireCode, TypeInv, TypeOK, CallbackKnown, RequestShape, At, Mail, Op, tabVars
<1>3. CASE UNCHANGED vars
  BY <1>3 DEF vars, TypeInv, TypeOK, CallbackKnown, RequestShape, At, Mail, Op
<1> QED BY <1>1, <1>2, <1>3

LEMMA TypeStep == TypeInv /\ [Next]_vars => TypeInv'
<1> SUFFICES ASSUME TypeInv, [Next]_vars PROVE TypeInv'
  OBVIOUS
<1>1. ASSUME NEW r \in Requests, NEW e \in Emails,
             SubmitLogin(r, e) \/ SubmitSignup(r, e) \/ ContinueWithGoogle(r, e)
      PROVE  TypeInv'
  BY <1>1, SendTyped
<1>2. ASSUME NEW r \in Requests, CallApi(r) \/ SubmitCode(r) \/ ResendCode(r) PROVE TypeInv'
  <2>1. Emails # {}
    BY <1>2 DEF CallApi, SubmitCode, ResendCode, TypeInv, TypeOK, RequestShape, At
  <2> QED BY <1>2, <2>1, SendTyped
<1> QED BY <1>1, <1>2, StepTyped, TabTyped, TimeTyped DEF Next, TabStep

(* Every reachable state of the accounts, the sessions and the tab is well *)
(* typed, for any requests, addresses and cuts.                            *)
THEOREM TypeCorrect == Spec => []TypeOK
<1>1. TypeInv => TypeOK
  BY DEF TypeInv
<1> QED BY <1>1, Initially, TypeStep, PTL DEF Spec

-----------------------------------------------------------------------------
(* The rotation of refresh tokens.                                         *)

(* Whoever holds a claim on the succession of a token has removed it.      *)
Claims(t) == {r \in Requests : /\ Op(r) = "refresh" /\ req[r].uses = t
                               /\ At(r, "issue") \/ token[r] # "none"}

(* A refresh that is about to issue has made its token go, no other has,   *)
(* and no logout did; a token that a logout took stays gone.               *)
RotationInv ==
  /\ \A r \in Requests : /\ At(r, "drop") => Op(r) = "refresh"
                         /\ At(r, "link") => Op(r) = "google"
  /\ \A t \in Requests : \A r, q \in Claims(t) : r = q
  /\ \A t \in Requests : Claims(t) # {} => token[t] = "gone" /\ t \notin revoked
  /\ \A t \in revoked : token[t] = "gone"
  /\ RotationKeepsSession

LEMMA RotationSuffices == TypeOK /\ RotationInv => RotationSound
BY DEF TypeOK, RotationInv, RotationSound, ExchangedOnce, RevokedHasNoHeir, Heirs, Claims

(* Steps that touch neither the tokens nor a refresh that is past its      *)
(* look-up leave the rotation as it is.                                    *)
LEMMA RotationUntouched ==
  ASSUME TypeOK, RotationInv, UNCHANGED <<token, revoked>>,
         \A r \in Requests :
           \/ req'[r] = req[r]
           \/ /\ ~At(r, "issue") /\ ~At(r, "cut") /\ token[r] = "none"
              /\ ~At(r, "issue")' \/ Op(r)' # "refresh"
              /\ At(r, "drop")' => Op(r)' = "refresh"
              /\ At(r, "link")' => Op(r)' = "google"
           \/ /\ At(r, "issue") /\ At(r, "cut")' /\ token[r] = "none"
              /\ Op(r)' = Op(r) /\ req'[r].uses = req[r].uses
  PROVE  RotationInv'
<1>1. \A t \in Requests : /\ Claims(t)' \subseteq Claims(t)
                          /\ Heirs(t)' = Heirs(t)
                          /\ Exchanging(t) => Exchanging(t)'
  BY DEF Claims, Heirs, Exchanging, At, Op
<1> QED BY <1>1 DEF RotationInv, RotationKeepsSession, At, Op

LEMMA RotationSend ==
  ASSUME TypeInv, RotationInv, NEW r \in Requests, NEW e \in Emails,
         CallApi(r) \/ SubmitLogin(r, e) \/ SubmitSignup(r, e) \/ ContinueWithGoogle(r, e)
         \/ SubmitCode(r) \/ ResendCode(r)
  PROVE  RotationInv'
<1>1. UNCHANGED apiVars
  BY DEF CallApi, SubmitLogin, SubmitSignup, ContinueWithGoogle, SubmitCode, ResendCode
<1>2. \E op \in Ops, m \in Emails, used \in Requests \cup {None} : Start(r, op, m, used)
  BY SendStarts
<1>3. /\ req[r].pc = "idle" /\ req'[r].pc \in {"find", "revoke"}
      /\ \A q \in Requests : q # r => req'[q] = req[q]
  BY <1>2, Started DEF TypeInv
<1> QED BY <1>1, <1>3, RotationUntouched DEF TypeInv, RequestShape, At, apiVars

LEMMA RotationQuiet ==
  ASSUME TypeInv, RotationInv, NEW r \in Requests, RequestStep(r) \/ CutRequest(r),
         ~IssueToken(r), ~DropToken(r), ~DiscardExpired(r), ~Revoke(r)
  PROVE  RotationInv'
<1>1. UNCHANGED <<token, revoked>>
  BY DEF RequestStep, CutRequest, FindForSignup, FindForLogin, FindForResend, FindForGoogle,
     InsertUser, SetCode, LinkGoogle, FindToken, CompareCode, MarkVerified, DelCode, apiVars
<1>2. /\ Op(r)' = Op(r) /\ req'[r].uses = req[r].uses /\ token[r] = "none" /\ ~At(r, "cut")
      /\ \A q \in Requests : q # r => req'[q] = req[q]
  BY StepMoves, Moved DEF TypeInv, RequestShape, At, Op, Ended
<1>3. CASE CutRequest(r)
  <2>1. At(r, "cut")'
    BY <1>3, Moved DEF CutRequest, At, PCs, TypeInv
  <2> QED BY <1>1, <1>2, <2>1, RotationUntouched DEF TypeInv, At
<1>4. CASE ~CutRequest(r)
  <2>1. ~At(r, "issue")
    BY <1>4 DEF RequestStep, FindForSignup, FindForLogin, FindForResend, FindForGoogle,
       InsertUser, SetCode, LinkGoogle, FindToken, CompareCode, MarkVerified, DelCode, At
  <2>2. /\ ~At(r, "issue")' \/ Op(r)' # "refresh"
        /\ At(r, "drop")' => Op(r)' = "refresh"
        /\ At(r, "link")' => Op(r)' = "google"
    <3>1. CASE FindForSignup(r) \/ FindForLogin(r) \/ FindForResend(r) \/ FindForGoogle(r)
      BY <1>2, <3>1, Moved DEF FindForSignup, FindForLogin, FindForResend, FindForGoogle, At, Op,
         PCs, TypeInv
    <3>2. CASE InsertUser(r) \/ SetCode(r) \/ LinkGoogle(r)
      BY <1>2, <3>2, Moved DEF InsertUser, SetCode, LinkGoogle, At, Op, PCs, TypeInv, RotationInv
    <3>3. CASE FindToken(r) \/ CompareCode(r) \/ MarkVerified(r) \/ DelCode(r)
      BY <1>2, <3>3, Moved DEF FindToken, CompareCode, MarkVerified, DelCode, At, Op, PCs, TypeInv
    <3> QED BY <1>4, <3>1, <3>2, <3>3 DEF RequestStep
  <2> QED BY <1>1, <1>2, <2>1, <2>2, RotationUntouched DEF TypeInv
<1> QED BY <1>3, <1>4

LEMMA RotationIssue ==
  ASSUME TypeInv, RotationInv, NEW r \in Requests, IssueToken(r)
  PROVE  RotationInv'
<1>1. /\ At(r, "issue") /\ At(r, "ok")' /\ Op(r)' = Op(r) /\ req'[r].uses = req[r].uses
      /\ \A q \in Requests : q # r => req'[q] = req[q]
  BY Moved DEF IssueToken, TypeInv, At, Op, PCs
<1>2. /\ token[r] = "none" /\ token'[r] = "live" /\ UNCHANGED revoked
      /\ \A t \in Requests : t # r => token'[t] = token[t]
  BY <1>1 DEF IssueToken, TypeInv, TypeOK, RequestShape, At
<1>3. ASSUME NEW t \in Requests PROVE Claims(t)' = Claims(t)
  <2>1. ASSUME NEW q \in Requests, q # r PROVE q \in Claims(t)' <=> q \in Claims(t)
    BY <1>1, <1>2, <2>1 DEF Claims, At, Op
  <2>2. r \in Claims(t)' <=> r \in Claims(t)
    BY <1>1, <1>2 DEF Claims, At, Op
  <2> QED BY <2>1, <2>2 DEF Claims
<1>5. ASSUME NEW t \in Requests, Exchanging(t) PROVE Exchanging(t)' \/ Heirs(t)' # {}
  <2>1. PICK q \in Requests : Op(q) = "refresh" /\ req[q].uses = t /\ req[q].pc \in {"issue", "cut"}
    BY <1>5 DEF Exchanging
  <2>2. CASE q = r
    BY <1>1, <1>2, <2>1, <2>2 DEF Heirs, Op
  <2>3. CASE q # r
    BY <1>1, <2>1, <2>3 DEF Exchanging, Op
  <2> QED BY <2>2, <2>3
<1>4. \A t \in Requests : Heirs(t) \subseteq Heirs(t)'
  BY <1>1, <1>2 DEF Heirs, Op
<1> QED BY <1>1, <1>2, <1>3, <1>4, <1>5 DEF RotationInv, RotationKeepsSession, At, Op, TypeInv, TypeOK

LEMMA RotationDrop ==
  ASSUME TypeInv, RotationInv, NEW r \in Requests, DropToken(r)
  PROVE  RotationInv'
<1>0. At(r, "drop")
  BY DEF DropToken
<1>1. /\ Op(r) = "refresh" /\ req[r].uses \in Requests /\ token[r] = "none"
  BY <1>0 DEF RotationInv, TypeInv, RequestShape, At
<1>2. PICK old \in Requests : old = req[r].uses
  BY <1>1
<1>3. CASE token[old] \in {"live", "expired"}
  <2>1. /\ At(r, "issue")' /\ Op(r)' = Op(r) /\ req'[r].uses = old
        /\ \A q \in Requests : q # r => req'[q] = req[q]
    BY <1>2, <1>3, Moved DEF DropToken, TypeInv, At, Op, PCs
  <2>2. /\ token'[old] = "gone" /\ UNCHANGED revoked /\ old # r
        /\ \A q \in Requests : q # old => token'[q] = token[q]
    BY <1>1, <1>2, <1>3 DEF DropToken, TypeInv, TypeOK
  <2>3. Claims(old) = {} /\ old \notin revoked
    BY <1>3 DEF RotationInv
  <2>4. ASSUME NEW q \in Requests, q # r PROVE q \notin Claims(old)'
    <3>1. CASE q = old
      <4>1. ~At(old, "issue") /\ ~(Op(old) = "refresh" /\ req[old].uses = old)
        BY <1>3, <2>3 DEF TypeInv, RequestShape, At, Claims
      <4> QED BY <2>1, <2>4, <3>1, <4>1 DEF Claims, At, Op
    <3>2. CASE q # old
      BY <2>1, <2>2, <2>3, <2>4, <3>2 DEF Claims, At, Op
    <3> QED BY <3>1, <3>2
  <2>5. Exchanging(old)'
    BY <1>1, <2>1 DEF Exchanging, At, Op
  <2>6. ASSUME NEW u \in Requests, u # old
        PROVE  /\ Claims(u)' \subseteq Claims(u) /\ Heirs(u)' = Heirs(u)
               /\ Exchanging(u) => Exchanging(u)'
    <3>1. r \notin Claims(u)' /\ r \notin Heirs(u)' /\ r \notin Heirs(u)
      BY <1>1, <1>2, <2>1, <2>6 DEF Claims, Heirs, Op
    <3>2. \A q \in Requests : token'[q] # "none" <=> token[q] # "none"
      BY <1>3, <2>2
    <3> QED BY <1>0, <1>1, <2>1, <3>1, <3>2 DEF Claims, Heirs, Exchanging, At, Op
  <2>7. \A q \in Requests : ~At(q, "drop")' \/ req'[q] = req[q]
    BY <2>1 DEF At
  <2>8. \A q \in Requests : ~At(q, "link")' \/ req'[q] = req[q]
    BY <2>1 DEF At
  <2>9. /\ \A q \in Requests : /\ At(q, "drop") => Op(q) = "refresh"
                               /\ At(q, "link") => Op(q) = "google"
        /\ \A u \in Requests : \A p, q \in Claims(u) : p = q
        /\ \A u \in Requests : Claims(u) # {} => token[u] = "gone" /\ u \notin revoked
        /\ \A u \in revoked : u \in Requests /\ token[u] = "gone"
        /\ \A u \in Requests : token[u] = "gone" /\ u \notin revoked => Heirs(u) # {} \/ Exchanging(u)
    BY DEF RotationInv, RotationKeepsSession, TypeInv, TypeOK
  <2>10. \A u \in Requests : \A p, q \in Claims(u)' : p = q
    <3>1. \A p, q \in Claims(old)' : p = q
      BY <2>4 DEF Claims
    <3> QED BY <2>6, <2>9, <3>1
  <2> QED
    BY <2>2, <2>3, <2>5, <2>6, <2>7, <2>8, <2>9, <2>10 DEF RotationInv, RotationKeepsSession, At, Op
<1>4. CASE token[old] \notin {"live", "expired"}
  <2>1. /\ At(r, "failed")' /\ \A q \in Requests : q # r => req'[q] = req[q]
    BY <1>2, <1>4, Moved DEF DropToken, TypeInv, At, PCs
  <2>2. UNCHANGED <<token, revoked>>
    BY <1>2, <1>4 DEF DropToken
  <2> QED BY <1>0, <1>1, <2>1, <2>2, RotationUntouched DEF TypeInv, At
<1> QED BY <1>3, <1>4

(* A token that expires, is discarded or is taken by a logout has no       *)
(* successor on its way.                                                   *)
LEMMA RotationEnds ==
  ASSUME TypeInv, RotationInv,
         \/ \E r \in Requests : DiscardExpired(r) \/ Revoke(r)
         \/ \E t \in Requests : ExpireToken(t)
  PROVE  RotationInv'
<1>1. ASSUME NEW r \in Requests, DiscardExpired(r) \/ Revoke(r)
      PROVE  /\ req'[r].pc \in {"ok", "failed"} /\ token[r] = "none"
             /\ ~At(r, "issue") /\ ~At(r, "cut")
             /\ \A q \in Requests : q # r => req'[q] = req[q]
  BY <1>1, Moved DEF DiscardExpired, Revoke, TypeInv, RequestShape, At, Op, PCs
<1>2. \A q \in Requests : req'[q] = req[q] \/ (/\ token[q] = "none" /\ ~At(q, "issue") /\ ~At(q, "cut")
                                               /\ req'[q].pc \in {"ok", "failed"})
  <2>1. CASE UNCHANGED req
    BY <2>1
  <2> QED BY <1>1, <2>1 DEF ExpireToken
<1>3. \A q \in Requests :
        \/ token'[q] = token[q] /\ (q \in revoked' <=> q \in revoked)
        \/ token[q] \in {"live", "expired"} /\ token'[q] \in {"expired", "discarded"} /\ q \notin revoked'
        \/ token[q] \in {"live", "expired"} /\ token'[q] = "gone" /\ q \in revoked'
  <2>1. \A q \in revoked : token[q] = "gone"
    BY DEF RotationInv
  <2>2. ASSUME NEW r \in Requests, DiscardExpired(r) PROVE <1>3
    BY <2>1, <2>2 DEF DiscardExpired, TypeInv, TypeOK
  <2>3. ASSUME NEW r \in Requests, Revoke(r) PROVE <1>3
    BY <2>1, <2>3 DEF Revoke, TypeInv, TypeOK
  <2>4. ASSUME NEW t \in Requests, ExpireToken(t) PROVE <1>3
    BY <2>1, <2>4 DEF ExpireToken, TypeInv, TypeOK
  <2> QED BY <2>2, <2>3, <2>4
<1>4. \A t \in Requests : /\ Claims(t)' = Claims(t) /\ Heirs(t)' = Heirs(t)
                          /\ Exchanging(t) => Exchanging(t)'
  BY <1>2, <1>3 DEF Claims, Heirs, Exchanging, At, Op
<1>5. revoked' \subseteq Requests
  BY DEF DiscardExpired, Revoke, ExpireToken, TypeInv, TypeOK
<1> QED BY <1>2, <1>3, <1>4, <1>5 DEF RotationInv, RotationKeepsSession, At, Op

LEMMA RotationInitially == Init => RotationInv
BY DEF Init, RotationInv, RotationKeepsSession, Claims, IdleRequest, At, Op

LEMMA RotationStep ==
  ASSUME TypeInv, RotationInv, [Next]_vars
  PROVE  RotationInv'
<1>1. ASSUME NEW r \in Requests, NEW e \in Emails,
             SubmitLogin(r, e) \/ SubmitSignup(r, e) \/ ContinueWithGoogle(r, e)
      PROVE  RotationInv'
  BY <1>1, RotationSend
<1>2. ASSUME NEW r \in Requests, CallApi(r) \/ SubmitCode(r) \/ ResendCode(r)
      PROVE  RotationInv'
  <2>1. Emails # {}
    BY <1>2 DEF CallApi, SubmitCode, ResendCode, TypeInv, TypeOK, RequestShape, At
  <2> QED BY <1>2, <2>1, RotationSend
<1>3. ASSUME NEW r \in Requests, RequestStep(r) \/ CutRequest(r) PROVE RotationInv'
  BY <1>3, RotationQuiet, RotationIssue, RotationDrop, RotationEnds
<1>4. ASSUME UNCHANGED <<token, revoked, req>> PROVE RotationInv'
  BY <1>4, RotationUntouched DEF TypeInv
<1>5. ASSUME NEW e \in Emails, ExpireCode(e) PROVE RotationInv'
  BY <1>4, <1>5 DEF ExpireCode
<1>6. CASE FollowLink \/ Reload \/ TabStep \/ \E r \in Requests : OpenCallback(r)
  BY <1>4, <1>6 DEF FollowLink, Reload, TabStep, MeAnswers, Answer, OpenCallback, apiVars
<1>7. CASE UNCHANGED vars
  BY <1>4, <1>7 DEF vars
<1> QED BY <1>1, <1>2, <1>3, <1>5, <1>6, <1>7, RotationEnds DEF Next

(* However many requests present a refresh token, log out or are cut, in   *)
(* any order: a token is exchanged for one successor at most, one that was *)
(* revoked has none, and no exchange loses the session.                    *)
THEOREM RotationCorrect == Spec => []RotationSound
<1>1. Init => TypeInv /\ RotationInv
  BY Initially, RotationInitially
<1>2. TypeInv /\ RotationInv /\ [Next]_vars => (TypeInv /\ RotationInv)'
  BY TypeStep, RotationStep
<1>3. TypeInv /\ RotationInv => RotationSound
  BY RotationSuffices DEF TypeInv
<1> QED BY <1>1, <1>2, <1>3, PTL DEF Spec

-----------------------------------------------------------------------------
(* The codes of addresses that are not verified.                           *)

(* An account is verified only once it exists, and before its code is      *)
(* deleted; what an unverified address has in Redis is the newest code.    *)
CodesInv ==
  /\ \A e \in Emails : /\ user[e].verified => user[e].exists
                       /\ ~user[e].verified => otp[e] = newest[e]
  /\ \A r \in Requests : /\ At(r, "link") => user[Mail(r)].exists
                         /\ At(r, "delCode") => user[Mail(r)].verified

LEMMA CodesUntouched ==
  ASSUME CodesInv, UNCHANGED <<user, otp, newest>>,
         \A r \in Requests : req'[r] = req[r] \/ (~At(r, "link")' /\ ~At(r, "delCode")')
  PROVE  CodesInv'
BY DEF CodesInv, At, Mail

LEMMA CodesStep ==
  ASSUME TypeInv, CodesInv, [Next]_vars
  PROVE  CodesInv'
<1> DEFINE Users == [exists: BOOLEAN, verified: BOOLEAN, google: BOOLEAN, password: BOOLEAN]
<1>1. ASSUME NEW r \in Requests, NEW e \in Emails,
             SubmitLogin(r, e) \/ SubmitSignup(r, e) \/ ContinueWithGoogle(r, e)
             \/ CallApi(r) \/ SubmitCode(r) \/ ResendCode(r)
      PROVE  CodesInv'
  <2>1. /\ req'[r].pc \in {"find", "revoke"}
        /\ \A q \in Requests : q # r => req'[q] = req[q]
    BY <1>1, SendStarts, Started DEF TypeInv
  <2>2. UNCHANGED apiVars
    BY <1>1 DEF CallApi, SubmitLogin, SubmitSignup, ContinueWithGoogle, SubmitCode, ResendCode
  <2> QED BY <2>1, <2>2, CodesUntouched DEF apiVars, At
<1>2. ASSUME NEW r \in Requests, CallApi(r) \/ SubmitCode(r) \/ ResendCode(r)
      PROVE  Emails # {}
  BY <1>2 DEF CallApi, SubmitCode, ResendCode, TypeInv, TypeOK, RequestShape, At
<1>3. ASSUME NEW r \in Requests, RequestStep(r) \/ CutRequest(r) PROVE CodesInv'
  <2>1. /\ Mail(r) \in Emails /\ Mail(r)' = Mail(r)
        /\ \A q \in Requests : q # r => req'[q] = req[q]
        /\ \A q \in Requests : Mail(q)' = Mail(q)
        /\ \A q \in Requests : At(q, "link") \/ At(q, "delCode") => Mail(q) \in Emails
    BY <1>3, StepMoves, Moved DEF TypeInv, RequestShape, At, Mail
  <2>2. user \in [Emails -> Users] /\ otp \in [Emails -> Requests \cup {None}]
        /\ newest \in [Emails -> Requests \cup {None}]
    BY DEF TypeInv, TypeOK
  <2>3. CASE FindForSignup(r) \/ FindForLogin(r) \/ FindForResend(r) \/ FindToken(r) \/ CompareCode(r)
    <3>1. ~At(r, "link")' /\ ~At(r, "delCode")'
      BY <2>3, Moved DEF FindForSignup, FindForLogin, FindForResend, FindToken, CompareCode, At, PCs,
         TypeInv
    <3> QED
      BY <2>1, <2>3, <3>1, CodesUntouched DEF FindForSignup, FindForLogin, FindForResend, FindToken,
         CompareCode, apiVars
  <2>4. CASE IssueToken(r) \/ DropToken(r) \/ DiscardExpired(r) \/ Revoke(r) \/ CutRequest(r)
    <3>1. ~At(r, "link")' /\ ~At(r, "delCode")'
      BY <2>4, Moved DEF IssueToken, DropToken, DiscardExpired, Revoke, CutRequest, At, PCs, TypeInv
    <3> QED
      BY <2>1, <2>4, <3>1, CodesUntouched DEF IssueToken, DropToken, DiscardExpired, Revoke, CutRequest,
         apiVars
  <2>5. CASE FindForGoogle(r)
    <3>1. UNCHANGED <<user, otp, newest>>
      BY <2>5 DEF FindForGoogle, apiVars
    <3>2. /\ At(r, "link")' => user[Mail(r)].exists
          /\ ~At(r, "delCode")'
      BY <2>5, Moved DEF FindForGoogle, At, PCs, TypeInv
    <3> QED BY <2>1, <3>1, <3>2 DEF CodesInv, At
  <2>6. CASE InsertUser(r)
    <3>1. ~At(r, "link")' /\ ~At(r, "delCode")' /\ UNCHANGED <<otp, newest>>
      BY <2>6, Moved DEF InsertUser, At, PCs, TypeInv
    <3>2. CASE user[Mail(r)].exists
      BY <2>1, <2>6, <3>1, <3>2, CodesUntouched DEF InsertUser
    <3>3. CASE ~user[Mail(r)].exists
      <4>1. /\ user'[Mail(r)].exists
            /\ \A e \in Emails : e # Mail(r) => user'[e] = user[e]
        <5>1. PICK u : u.exists /\ user' = [user EXCEPT ![Mail(r)] = u]
          BY <2>6, <3>3 DEF InsertUser, NoUser
        <5> QED BY <2>1, <2>2, <5>1
      <4>2. otp[Mail(r)] = newest[Mail(r)]
        BY <2>1, <3>3 DEF CodesInv
      <4>3. \A q \in Requests : At(q, "delCode") => user'[Mail(q)].verified
        BY <2>1, <3>3, <4>1 DEF CodesInv
      <4> QED BY <2>1, <3>1, <4>1, <4>2, <4>3 DEF CodesInv, At
    <3> QED BY <3>2, <3>3
  <2>7. CASE SetCode(r)
    <3>1. /\ ~At(r, "link")' /\ ~At(r, "delCode")' /\ UNCHANGED user
          /\ otp' = [otp EXCEPT ![Mail(r)] = r] /\ newest' = [newest EXCEPT ![Mail(r)] = r]
      BY <2>7, Moved DEF SetCode, At, PCs, TypeInv
    <3> QED BY <2>1, <2>2, <3>1 DEF CodesInv, At
  <2>8. CASE MarkVerified(r)
    <3>1. ~At(r, "link")' /\ UNCHANGED <<otp, newest>>
      BY <2>8, Moved DEF MarkVerified, At, PCs, TypeInv
    <3>2. CASE user[Mail(r)].exists
      <4>1. /\ user'[Mail(r)].exists /\ user'[Mail(r)].verified
            /\ \A e \in Emails : e # Mail(r) => user'[e] = user[e]
        BY <2>1, <2>2, <2>8, <3>2 DEF MarkVerified
      <4> QED BY <2>1, <3>1, <4>1 DEF CodesInv, At
    <3>3. CASE ~user[Mail(r)].exists
      <4>1. ~At(r, "delCode")' /\ UNCHANGED user
        BY <2>8, <3>3, Moved DEF MarkVerified, At, PCs, TypeInv
      <4> QED BY <2>1, <3>1, <4>1, CodesUntouched
    <3> QED BY <3>2, <3>3
  <2>9. CASE DelCode(r)
    <3>1. /\ ~At(r, "link")' /\ ~At(r, "delCode")' /\ UNCHANGED <<user, newest>>
          /\ otp' = [otp EXCEPT ![Mail(r)] = None] /\ user[Mail(r)].verified
      BY <2>9, Moved DEF DelCode, At, PCs, TypeInv, CodesInv
    <3> QED BY <2>1, <2>2, <3>1 DEF CodesInv, At
  <2>10. CASE LinkGoogle(r)
    <3>1. /\ ~At(r, "link")' /\ ~At(r, "delCode")' /\ UNCHANGED <<otp, newest>>
          /\ user[Mail(r)].exists
      BY <2>10, Moved DEF LinkGoogle, At, PCs, TypeInv, CodesInv
    <3>2. /\ user'[Mail(r)].exists /\ user'[Mail(r)].verified
          /\ \A e \in Emails : e # Mail(r) => user'[e] = user[e]
      BY <2>1, <2>2, <2>10, <3>1 DEF LinkGoogle
    <3> QED BY <2>1, <3>1, <3>2 DEF CodesInv, At
  <2> QED
    BY <1>3, <2>3, <2>4, <2>5, <2>6, <2>7, <2>8, <2>9, <2>10 DEF RequestStep
<1>4. ASSUME NEW e \in Emails, ExpireCode(e) PROVE CodesInv'
  BY <1>4 DEF ExpireCode, CodesInv, At, Mail, TypeInv, TypeOK
<1>5. ASSUME NEW t \in Requests, ExpireToken(t) PROVE CodesInv'
  BY <1>5, CodesUntouched DEF ExpireToken
<1>6. CASE FollowLink \/ Reload \/ TabStep \/ \E r \in Requests : OpenCallback(r)
  BY <1>6, CodesUntouched DEF FollowLink, Reload, TabStep, MeAnswers, Answer, OpenCallback, apiVars
<1>7. CASE UNCHANGED vars
  BY <1>7, CodesUntouched DEF vars
<1> QED BY <1>1, <1>2, <1>3, <1>4, <1>5, <1>6, <1>7 DEF Next

(* Whatever is requested, resent, linked or cut, the code last mailed to   *)
(* an address that is not verified is the one that verifies it.            *)
THEOREM NewestCodeCorrect == Spec => []NewestCodeStands
<1>1. Init => TypeInv /\ CodesInv
  BY Initially DEF Init, CodesInv, NoUser, IdleRequest, At
<1>2. TypeInv /\ CodesInv /\ [Next]_vars => (TypeInv /\ CodesInv)'
  BY TypeStep, CodesStep
<1>3. CodesInv => NewestCodeStands
  BY DEF CodesInv, NewestCodeStands
<1> QED BY <1>1, <1>2, <1>3, PTL DEF Spec
=============================================================================
