--------------------------- MODULE Accounts_proofs ---------------------------
(***************************************************************************)
(* What Accounts promises, for any requests, users, tokens and bounds: at  *)
(* most one administrator per request, recovery codes that are those shown *)
(* less those used, email codes that are used once.                        *)
(***************************************************************************)
EXTENDS Accounts, TLAPS

-----------------------------------------------------------------------------
(* Types                                                                   *)

RequestType == [pc : PC, user : Emails \cup {None}, role : {"none", "customer", "admin"},
                token : Tokens \cup {None}, code : Code, codes : SUBSET Code, mailed : Nat]

\* A request in progress is about a user.
Request == {q \in RequestType : q.pc # "idle" => q.user \in Emails}
TypeInv == TypeOK /\ req \in [Requests -> Request]

LEMMA IdleIsRequest == Idle \in Request /\ NoUser \in User
BY DEF Idle, Request, RequestType, PC, Code, NoUser, User

\* What is done to the record of a request and to a row keeps its type.
LEMMA RequestSteps ==
  ASSUME req \in [Requests -> Request], NEW r \in Requests
  PROVE  /\ req[r] \in Request
         /\ req[r].pc # "idle" =>
              /\ req[r].user \in Emails
              /\ \A to \in PC : [req[r] EXCEPT !.pc = to] \in Request
              /\ \A c \in Code, C \in SUBSET Code :
                   [req[r] EXCEPT !.pc = "spend", !.code = c, !.codes = C] \in Request
              /\ \A n \in Nat : [req[r] EXCEPT !.pc = "delete", !.mailed = n] \in Request
              /\ \A C \in SUBSET Code : [req[r] EXCEPT !.pc = "show", !.codes = C] \in Request
         /\ \A e \in Emails, role \in {"customer", "admin"} :
              [Idle EXCEPT !.pc = "insert", !.user = e, !.role = role] \in Request
         /\ \A e \in Emails, to \in PC : [Idle EXCEPT !.pc = to, !.user = e] \in Request
         /\ \A e \in Emails, C \in SUBSET Code :
              [Idle EXCEPT !.pc = "show", !.user = e, !.codes = C] \in Request
         /\ \A e \in Emails, t \in Tokens :
              [Idle EXCEPT !.pc = "verify", !.user = e, !.token = t] \in Request
BY ZenonT(60), IdleIsRequest DEF Request, RequestType, PC, Idle

LEMMA RowSteps ==
  ASSUME NEW row \in User
  PROVE  /\ \A C \in SUBSET Code : [row EXCEPT !.codes = C] \in User
         /\ \A C \in SUBSET Code :
              [[row EXCEPT !.enabled = TRUE, !.method = "totp", !.secret = TRUE]
                 EXCEPT !.codes = C] \in User
         /\ \A C \in SUBSET Code :
              [[row EXCEPT !.enabled = TRUE, !.method = "email"] EXCEPT !.codes = C] \in User
         /\ [NoUser EXCEPT !.role = row.role] \in User
         /\ \A role \in {"customer", "admin"} : [NoUser EXCEPT !.role = role] \in User
         /\ row.codes \in SUBSET Code
BY IdleIsRequest DEF User

LEMMA Lists ==
  ASSUME NEW n \in Nat
  PROVE  List(n) \in SUBSET Code
BY AccountsAssumption DEF List, Code

\* A step of a request writes no record but its own.
LEMMA ReqType ==
  ASSUME TypeInv, [Next]_vars
  PROVE  req' \in [Requests -> Request]
<1> DEFINE Own(r) == \E q \in Request : req' = [req EXCEPT ![r] = q]
<1> USE DEF redis, history, counts, Begin, Goto, End
<1>0. TypeOK /\ req \in [Requests -> Request]
  BY DEF TypeInv
<1>a. Idle \in Request
  BY IdleIsRequest
<1>1. ASSUME NEW r \in Requests, Step(r) PROVE Own(r)
  <2>0. /\ req[r].pc # "idle" =>
             /\ req[r].user \in Emails
             /\ \A to \in PC : [req[r] EXCEPT !.pc = to] \in Request
             /\ \A c \in Code, C \in SUBSET Code :
                  [req[r] EXCEPT !.pc = "spend", !.code = c, !.codes = C] \in Request
             /\ \A n \in Nat : [req[r] EXCEPT !.pc = "delete", !.mailed = n] \in Request
             /\ \A C \in SUBSET Code : [req[r] EXCEPT !.pc = "show", !.codes = C] \in Request
        /\ \A e \in Emails, to \in PC : [Idle EXCEPT !.pc = to, !.user = e] \in Request
        /\ \A e \in Emails, t \in Tokens :
             [Idle EXCEPT !.pc = "verify", !.user = e, !.token = t] \in Request
    BY <1>0, RequestSteps
  <2>1. CASE InsertCustomer(r) \/ InsertAdmin(r) \/ NotVerified(r) \/ WrongEmailCode(r)
    BY <1>a, <2>1 DEF InsertCustomer, InsertAdmin, InsertUser, NotVerified, WrongEmailCode
  <2>2. CASE ByTOTP(r) \/ ByEmail(r) \/ Spend(r)
    BY <2>0, <2>2 DEF ByTOTP, ByEmail, Spend, PC
  <2>3. CASE ByRecoveryCode(r)
    <3>1. PICK c \in user[req[r].user].codes :
            /\ req[r].pc = "verify"
            /\ req' = [req EXCEPT ![r] = [req[r] EXCEPT !.pc = "spend", !.code = c,
                                                     !.codes = user[req[r].user].codes]]
      BY <2>3 DEF ByRecoveryCode
    <3>2. user[req[r].user].codes \in SUBSET Code
      BY <1>0, <2>0, <3>1, RowSteps DEF TypeOK
    <3> QED BY <2>0, <3>1, <3>2
  <2>4. CASE Consume(r) \/ StoreEmailCode(r) \/ ShowList(r) \/ RequestFails(r)
    BY <1>a, <2>4 DEF Consume, StoreEmailCode, ShowList, RequestFails
  <2>8. CASE EnableEmail(r)
    <3>1. List(lists') \in SUBSET Code
      BY <1>0, <2>8, Lists DEF EnableEmail, NewList, TypeOK
    <3> QED BY <2>0, <2>8, <3>1 DEF EnableEmail
  <2>5. CASE CheckEmailCode(r)
    <3>1. mail[req[r].user] \in Nat
      BY <1>0, <2>0, <2>5 DEF CheckEmailCode, TypeOK
    <3> QED BY <2>0, <2>5, <3>1 DEF CheckEmailCode
  <2>6. CASE DeleteEmailCode(r)
    <3>1. Verified(r) \in PC
      BY DEF Verified, PC
    <3> QED BY <2>0, <2>6, <3>1 DEF DeleteEmailCode
  <2>7. ASSUME NEW t \in Tokens, StoreToken(r, t) \/ ValidateToken(r, t) \/ BeginSend(r, t)
        PROVE  Own(r)
    BY <1>a, <2>0, <2>7 DEF StoreToken, ValidateToken, BeginSend, PC
  <2> QED BY <1>1, <2>1, <2>2, <2>3, <2>4, <2>5, <2>6, <2>7, <2>8 DEF Step
<1>2. ASSUME NEW r \in Requests, NEW e \in Emails,
             \/ RegisterChecks(r, e) \/ SetupChecks(r, e) \/ ReadLogin(r, e)
             \/ BeginSetupEmail(r, e) \/ BeginEnableEmail(r, e)
      PROVE  Own(r)
  BY <1>0, <1>2, RequestSteps
  DEF RegisterChecks, SetupChecks, ReadLogin, BeginSetupEmail, BeginEnableEmail, PC
<1>3. ASSUME UNCHANGED req PROVE req' \in [Requests -> Request]
  BY <1>0, <1>3
<1>4. ASSUME NEW e \in Emails, Disable2FA(e) PROVE UNCHANGED req
  BY <1>4 DEF Disable2FA
<1>9. ASSUME NEW r \in Requests, NEW e \in Emails,
             EnableTOTP(r, e) \/ RegenerateRecoveryCodes(r, e)
      PROVE  Own(r)
  <2>1. List(lists') \in SUBSET Code
    BY <1>0, <1>9, Lists DEF EnableTOTP, RegenerateRecoveryCodes, NewList, TypeOK
  <2>2. [Idle EXCEPT !.pc = "show", !.user = e, !.codes = List(lists')] \in Request
    BY <1>0, <2>1, RequestSteps
  <2> QED BY <1>9, <2>2 DEF EnableTOTP, RegenerateRecoveryCodes, BeginShow
<1>5. ASSUME NEW t \in Tokens, TokenExpires(t) PROVE UNCHANGED req
  BY <1>5 DEF TokenExpires
<1>6. ASSUME NEW e \in Emails, EmailCodeExpires(e) PROVE UNCHANGED req
  BY <1>6 DEF EmailCodeExpires
<1>7. ASSUME NEW r \in Requests, Own(r) PROVE req' \in [Requests -> Request]
  BY <1>0, <1>7
<1>8. enrolling \subseteq Emails
  BY <1>0 DEF TypeOK
<1> HIDE DEF Own
<1> QED BY <1>1, <1>2, <1>3, <1>4, <1>5, <1>6, <1>7, <1>8, <1>9 DEF Next, vars

\* A new list of recovery codes.
LEMMA NewListType ==
  ASSUME TypeOK, NEW e \in Emails, NEW row,
         \A C \in SUBSET Code : [row EXCEPT !.codes = C] \in User,
         NewList(e, row)
  PROVE  /\ user' \in [Emails -> User] /\ made' \in [Emails -> SUBSET Code]
         /\ lists' \in Nat /\ overwrote' \subseteq Emails
         /\ missed' \subseteq Emails /\ shown' \in [Emails -> SUBSET Code]
         /\ UNCHANGED <<mails, enrolling, creator, spent, accepted, left>>
<1>1. lists' \in Nat
  BY DEF NewList, TypeOK
<1>2. List(lists') \in SUBSET Code
  BY <1>1, Lists
<1>3. [row EXCEPT !.codes = List(lists')] \in User
  BY <1>2
<1> QED BY <1>1, <1>2, <1>3 DEF NewList, TypeOK

LEMMA TypeStep ==
  ASSUME TypeInv, [Next]_vars
  PROVE  TypeInv'
<1> USE DEF redis, given, history, counts, Fault, NoFault
<1>0. TypeOK /\ req \in [Requests -> Request] /\ req' \in [Requests -> Request]
  BY ReqType DEF TypeInv
<1>t. /\ user \in [Emails -> User] /\ login \in [Tokens -> Emails \cup {None}]
      /\ mail \in [Emails -> Nat \cup {None}] /\ lists \in Nat /\ mails \in Nat
      /\ enrolling \subseteq Emails /\ creator \in [Emails -> Requests \cup {None}]
      /\ made \in [Emails -> SUBSET Code] /\ spent \subseteq Code
      /\ shown \in [Emails -> SUBSET Code] /\ missed \subseteq Emails
      /\ overwrote \subseteq Emails /\ accepted \subseteq Nat /\ left \subseteq Nat
      /\ faults \in Nat
  BY <1>0 DEF TypeOK
<1> DEFINE Rest == /\ login' \in [Tokens -> Emails \cup {None}]
                   /\ mail' \in [Emails -> Nat \cup {None}] /\ mails' \in Nat
                   /\ enrolling' \subseteq Emails
                   /\ creator' \in [Emails -> Requests \cup {None}]
                   /\ spent' \subseteq Code /\ accepted' \subseteq Nat /\ left' \subseteq Nat
                   /\ faults' \in Nat
           Rows == /\ user' \in [Emails -> User] /\ made' \in [Emails -> SUBSET Code]
                   /\ shown' \in [Emails -> SUBSET Code] /\ missed' \subseteq Emails
                   /\ lists' \in Nat /\ overwrote' \subseteq Emails
<1>a. AccountsAssumption
  BY AccountsAssumption
<1>1. ASSUME NEW r \in Requests, Step(r) PROVE Rows /\ Rest
  <2>0. req[r] \in RequestType /\ (req[r].pc # "idle" => req[r].user \in Emails)
    BY <1>0 DEF Request
  <2>1. CASE InsertCustomer(r) \/ InsertAdmin(r)
    <3>1. PICK role \in {"customer", "admin"} : InsertUser(r, role)
      BY <2>1 DEF InsertCustomer, InsertAdmin
    <3>2. [NoUser EXCEPT !.role = role] \in User
      BY IdleIsRequest, RowSteps
    <3> QED BY <1>t, <3>1, <3>2 DEF InsertUser
  <2>2. CASE ByTOTP(r) \/ ByEmail(r) \/ NotVerified(r) \/ WrongEmailCode(r) \/ ByRecoveryCode(r)
    BY <1>t, <2>2 DEF ByTOTP, ByEmail, NotVerified, WrongEmailCode, ByRecoveryCode
  <2>4. CASE Spend(r)
    <3>1. /\ req[r].user \in Emails /\ req[r].code \in Code
          /\ (req[r].codes \ {req[r].code}) \in SUBSET Code
      BY <2>0, <2>4 DEF Spend, Goto, RequestType
    <3>2. [user[req[r].user] EXCEPT !.codes = req[r].codes \ {req[r].code}] \in User
      BY <1>t, <3>1, RowSteps
    <3> QED BY <1>t, <2>4, <3>1, <3>2 DEF Spend
  <2>5. CASE Consume(r)
    BY <1>t, <2>5 DEF Consume, consume2FAToken
  <2>6. CASE StoreEmailCode(r)
    <3>1. mails' \in Nat
      BY <1>t, <2>6 DEF StoreEmailCode
    <3>2. mail' = [mail EXCEPT ![req[r].user] = mails']
      BY <2>6 DEF StoreEmailCode
    <3>3. mail' \in [Emails -> Nat \cup {None}]
      BY <1>t, <3>1, <3>2
    <3>4. UNCHANGED <<user, login, lists, enrolling, history, faults>>
      BY <2>6 DEF StoreEmailCode
    <3> QED BY <1>t, <3>1, <3>3, <3>4
  <2>7. CASE CheckEmailCode(r)
    <3>1. mail[req[r].user] \in Nat
      BY <1>t, <2>0, <2>7 DEF CheckEmailCode
    <3> QED BY <1>t, <2>7, <3>1 DEF CheckEmailCode
  <2>8. CASE DeleteEmailCode(r)
    <3>1. req[r].mailed \in Nat
      BY <2>0 DEF RequestType
    <3>2. mail' = mail \/ mail' = [mail EXCEPT ![req[r].user] = None]
      BY <2>8 DEF DeleteEmailCode
    <3>3. left' = left \/ left' = left \cup {req[r].mailed}
      BY <2>8 DEF DeleteEmailCode
    <3>4. faults' = faults \/ faults' = faults + 1
      BY <2>8 DEF DeleteEmailCode
    <3>5. left' \subseteq Nat
      <4>1. left \subseteq Nat
        BY <1>t
      <4> QED BY <3>1, <3>3, <4>1
    <3>7. faults' \in Nat
      <4>1. faults \in Nat
        BY <1>t
      <4> QED BY <3>4, <4>1
    <3>6. mail' \in [Emails -> Nat \cup {None}]
      BY <1>t, <3>2
    <3> QED BY <1>t, <2>8, <3>5, <3>6, <3>7 DEF DeleteEmailCode
  <2>9. CASE EnableEmail(r)
    <3>1. req[r].user \in Emails
      BY <2>0, <2>9 DEF EnableEmail
    <3>2. /\ \A C \in SUBSET Code :
               [[user[req[r].user] EXCEPT !.enabled = TRUE, !.method = "email"]
                  EXCEPT !.codes = C] \in User
          /\ NewList(req[r].user, [user[req[r].user] EXCEPT !.enabled = TRUE,
                                                            !.method = "email"])
          /\ UNCHANGED <<login, mail, faults>>
      BY <1>t, <2>9, <3>1, RowSteps DEF EnableEmail
    <3>3. /\ Rows
          /\ UNCHANGED <<mails, enrolling, creator, spent, accepted, left>>
      BY <1>0, <3>1, <3>2, NewListType
    <3> QED BY <1>t, <3>2, <3>3
  <2>10. CASE RequestFails(r)
    <3>1. req[r].mailed \in Nat
      BY <2>0 DEF RequestType
    <3>2. left' = left \/ left' = left \cup {req[r].mailed}
      BY <2>10 DEF RequestFails
    <3>3. faults' = faults + 1
      BY <2>10 DEF RequestFails
    <3>4. left' \subseteq Nat
      <4>1. left \subseteq Nat
        BY <1>t
      <4> QED BY <3>1, <3>2, <4>1
    <3>5. faults' \in Nat
      <4>1. faults \in Nat
        BY <1>t
      <4> QED BY <3>3, <4>1
    <3>6. req[r].pc = "show" => req[r].user \in Emails
      BY <2>0
    <3>7. missed' \subseteq Emails
      BY <1>t, <2>10, <3>6 DEF RequestFails
    <3> QED BY <1>t, <2>10, <3>4, <3>5, <3>7 DEF RequestFails
  <2>12. CASE ShowList(r)
    <3>1. req[r].user \in Emails /\ req[r].codes \in SUBSET Code
      BY <2>0, <2>12 DEF ShowList, End, RequestType
    <3>2. missed' \subseteq Emails /\ shown' \in [Emails -> SUBSET Code]
      BY <1>t, <2>12, <3>1 DEF ShowList
    <3> QED BY <1>t, <2>12, <3>2 DEF ShowList
  <2>11. ASSUME NEW t \in Tokens, StoreToken(r, t) \/ ValidateToken(r, t) \/ BeginSend(r, t)
         PROVE  Rows /\ Rest
    <3>1. CASE StoreToken(r, t)
      BY <1>t, <2>0, <3>1 DEF StoreToken, End
    <3> QED BY <1>t, <2>11, <3>1 DEF ValidateToken, BeginSend
  <2> HIDE DEF Rows, Rest
  <2> QED BY <1>1, <2>1, <2>2, <2>4, <2>5, <2>6, <2>7, <2>8, <2>9, <2>10, <2>11, <2>12
         DEF Step
<1>2. ASSUME NEW r \in Requests, NEW e \in Emails,
             \/ RegisterChecks(r, e) \/ SetupChecks(r, e) \/ ReadLogin(r, e)
             \/ BeginSetupEmail(r, e) \/ BeginEnableEmail(r, e)
      PROVE  Rows /\ Rest
  BY <1>t, <1>2 DEF RegisterChecks, SetupChecks, ReadLogin, BeginSetupEmail, BeginEnableEmail
<1>3. ASSUME NEW r \in Requests, NEW e \in Emails,
             EnableTOTP(r, e) \/ RegenerateRecoveryCodes(r, e)
      PROVE  Rows /\ Rest
  <2>1. /\ \A C \in SUBSET Code : [user[e] EXCEPT !.codes = C] \in User
        /\ \A C \in SUBSET Code :
              [[user[e] EXCEPT !.enabled = TRUE, !.method = "totp", !.secret = TRUE]
                 EXCEPT !.codes = C] \in User
    BY <1>t, RowSteps
  <2>2. /\ Rows
        /\ UNCHANGED <<mails, enrolling, creator, spent, accepted, left>>
    BY <1>0, <1>3, <2>1, NewListType DEF EnableTOTP, RegenerateRecoveryCodes
  <2> QED BY <1>t, <1>3, <2>2 DEF EnableTOTP, RegenerateRecoveryCodes
<1>4. ASSUME NEW e \in Emails, Disable2FA(e) PROVE Rows /\ Rest
  <2>1. [NoUser EXCEPT !.role = user[e].role] \in User
    BY <1>t, RowSteps
  <2> QED BY <1>t, <1>4, <2>1 DEF Disable2FA
<1>5. ASSUME NEW t \in Tokens, TokenExpires(t) PROVE Rows /\ Rest
  BY <1>t, <1>5 DEF TokenExpires
<1>6. ASSUME NEW e \in Emails, EmailCodeExpires(e) PROVE Rows /\ Rest
  BY <1>t, <1>6 DEF EmailCodeExpires
<1>7. ASSUME UNCHANGED vars PROVE Rows /\ Rest
  BY <1>t, <1>7 DEF vars
<1>8. Rows /\ Rest
  <2> HIDE DEF Rows, Rest
  <2> QED BY <1>t, <1>1, <1>2, <1>3, <1>4, <1>5, <1>6, <1>7 DEF Next
<1>9. req' \in [Requests -> RequestType]
  BY <1>0 DEF Request
<1> QED BY <1>0, <1>8, <1>9 DEF TypeInv, TypeOK, RequestType

LEMMA InitType == Init => TypeInv
<1> SUFFICES ASSUME Init PROVE TypeInv
  OBVIOUS
<1> USE AccountsAssumption, IdleIsRequest DEF Init
<1>1. PICK s \in Starts :
        /\ user = [e \in Emails |-> IF e \in s.registered
                                    THEN [NoUser EXCEPT !.role = "customer"] ELSE NoUser]
        /\ enrolling = s.enrolling
  OBVIOUS
<1>2. user \in [Emails -> User] /\ enrolling \subseteq Emails
  BY <1>1, RowSteps
<1>3. req \in [Requests -> Request] /\ req \in [Requests -> RequestType]
  BY DEF Request
<1> QED BY <1>2, <1>3 DEF TypeInv, TypeOK, RequestType

LEMMA Typed == Spec => []TypeInv
BY InitType, TypeStep, PTL DEF Spec

\* Every variable keeps its type.
THEOREM TypeCorrect == Spec => []TypeOK
<1>1. TypeInv => TypeOK
  BY DEF TypeInv
<1> QED BY <1>1, Typed, PTL

-----------------------------------------------------------------------------
(* What most steps leave alone                                             *)

RolesStay ==
  /\ UNCHANGED creator /\ \A e \in Emails : user'[e].role = user[e].role
  /\ \A q \in Requests : req'[q].pc = "insert" /\ req'[q].role = "admin" => req'[q] = req[q]

MailStays ==
  /\ UNCHANGED <<mail, mails, accepted, left>>
  /\ \A q \in Requests : req[q].pc = "delete" => req'[q] = req[q]

CodesStay ==
  /\ UNCHANGED <<made, spent, overwrote, lists>>
  /\ \A e \in Emails : user'[e].codes = user[e].codes
  /\ \A q \in Requests : req'[q].pc = "spend" => req'[q] = req[q]

ShowStays ==
  /\ UNCHANGED <<made, shown, missed>>
  /\ \A q \in Requests : req[q].pc = "show" => req'[q] = req[q]

MakesList(r, e) ==
  \/ EnableTOTP(r, e) \/ RegenerateRecoveryCodes(r, e)
  \/ EnableEmail(r) /\ req[r].user = e

LEMMA NewListRows ==
  ASSUME TypeInv, NEW r \in Requests, NEW e \in Emails, MakesList(r, e)
  PROVE  /\ RolesStay /\ MailStays
         /\ lists' = lists + 1 /\ UNCHANGED spent
         /\ made' = [made EXCEPT ![e] = List(lists')]
         /\ \A f \in Emails : user'[f].codes = IF f = e THEN List(lists') ELSE user[f].codes
         /\ overwrote' = overwrote \ {e}
         /\ \A q \in Requests : req'[q].pc = "spend" => req'[q] = req[q]
         /\ UNCHANGED shown /\ missed' = missed \ {e} /\ req[r].pc # "show"
         /\ \A q \in Requests \ {r} : req'[q] = req[q]
         /\ req'[r].pc = "show" /\ req'[r].user = e /\ req'[r].codes = List(lists')
<1>0. req \in [Requests -> Request] /\ user \in [Emails -> User] /\ Idle.pc = "idle"
  BY DEF TypeInv, TypeOK, Idle
<1>1. PICK row : /\ row \in {user[e], [user[e] EXCEPT !.enabled = TRUE, !.method = "email"],
                             [user[e] EXCEPT !.enabled = TRUE, !.method = "totp", !.secret = TRUE]}
                 /\ NewList(e, row)
  BY DEF MakesList, EnableTOTP, RegenerateRecoveryCodes, EnableEmail
<1>2. \A C : /\ [row EXCEPT !.codes = C].codes = C
             /\ [row EXCEPT !.codes = C].role = user[e].role
  <2>1. user[e] \in User
    BY <1>0
  <2>2. row \in User /\ row.role = user[e].role
    BY <1>1, <2>1 DEF User
  <2> QED BY <2>2 DEF User
<1>3. /\ UNCHANGED mail /\ req[r].pc \in {"idle", "enable"}
      /\ \A q \in Requests \ {r} : req'[q] = req[q]
      /\ req'[r].pc = "show" /\ req'[r].user = e /\ req'[r].codes = List(lists')
  <2>1. /\ req[r] \in RequestType /\ Idle \in RequestType
        /\ req \in [Requests -> Request]
    BY <1>0, IdleIsRequest DEF Request
  <2>2. CASE EnableEmail(r) /\ req[r].user = e
    BY <2>1, <2>2 DEF EnableEmail, redis, RequestType
  <2>3. CASE EnableTOTP(r, e) \/ RegenerateRecoveryCodes(r, e)
    <3>1. /\ req[r] = Idle /\ UNCHANGED mail
          /\ req' = [req EXCEPT ![r] = [Idle EXCEPT !.pc = "show", !.user = e,
                                                    !.codes = List(lists')]]
      BY <2>3 DEF EnableTOTP, RegenerateRecoveryCodes, BeginShow, Begin, redis
    <3> QED BY <1>0, <2>1, <3>1 DEF RequestType
  <2> QED BY <2>2, <2>3 DEF MakesList
<1>4. RolesStay
  BY <1>0, <1>1, <1>2, <1>3 DEF RolesStay, NewList
<1>5. MailStays /\ \A q \in Requests : req'[q].pc = "spend" => req'[q] = req[q]
  BY <1>0, <1>1, <1>3 DEF MailStays, NewList
<1> QED BY <1>0, <1>1, <1>2, <1>3, <1>4, <1>5 DEF NewList

LEMMA DisableRows ==
  ASSUME TypeInv, NEW e \in Emails, Disable2FA(e)
  PROVE  /\ RolesStay /\ MailStays
         /\ UNCHANGED <<spent, lists, req>>
         /\ made' = [made EXCEPT ![e] = {}]
         /\ \A f \in Emails : user'[f].codes = IF f = e THEN {} ELSE user[f].codes
         /\ overwrote' = overwrote \ {e} /\ UNCHANGED <<shown, missed>>
BY DEF TypeInv, TypeOK, Disable2FA, RolesStay, MailStays, NoUser, redis, counts

\* A step of a request that writes nothing but Redis or itself.
LEMMA RequestRows ==
  ASSUME TypeInv, NEW r \in Requests, Step(r)
  PROVE  /\ RolesStay \/ InsertCustomer(r) \/ InsertAdmin(r)
         /\ \/ MailStays
            \/ StoreEmailCode(r) \/ CheckEmailCode(r) \/ DeleteEmailCode(r) \/ RequestFails(r)
         /\ CodesStay \/ ByRecoveryCode(r) \/ Spend(r) \/ EnableEmail(r)
         /\ ShowStays \/ EnableEmail(r) \/ ShowList(r) \/ RequestFails(r)
<1> USE DEF redis, given, history, counts, RolesStay, MailStays, CodesStay, ShowStays
<1>0. req \in [Requests -> Request] /\ user \in [Emails -> User] /\ Idle.pc = "idle"
  BY DEF TypeInv, TypeOK, Idle
<1>a. /\ \A q \in Requests : req[q] \in RequestType
      /\ req[r].pc # "idle" => req[r].user \in Emails
  BY <1>0 DEF Request
<1>1. CASE InsertCustomer(r) \/ InsertAdmin(r)
  <2>1. PICK role \in {"customer", "admin"} : InsertUser(r, role)
    BY <1>1 DEF InsertCustomer, InsertAdmin
  <2> QED BY <1>0, <1>1, <2>1 DEF InsertUser, Exists, NoUser, End
<1>2. CASE ByTOTP(r) \/ ByEmail(r)
  BY <1>0, <1>a, <1>2 DEF ByTOTP, ByEmail, Goto, RequestType
<1>3. CASE ByRecoveryCode(r)
  BY <1>0, <1>a, <1>3 DEF ByRecoveryCode, RequestType
<1>4. CASE NotVerified(r) \/ Consume(r) \/ WrongEmailCode(r) \/ StoreEmailCode(r)
  BY <1>0, <1>4 DEF NotVerified, Consume, WrongEmailCode, StoreEmailCode, End
<1>5. CASE Spend(r)
  <2>1. /\ req[r].pc = "spend" /\ req' = [req EXCEPT ![r] = [req[r] EXCEPT !.pc = "consume"]]
        /\ \E C : user' = [user EXCEPT ![req[r].user] = [user[req[r].user] EXCEPT !.codes = C]]
        /\ UNCHANGED <<creator, mail, mails, accepted, left, made, shown, missed>>
    BY <1>5 DEF Spend, Goto
  <2>2. \A e \in Emails : user'[e].role = user[e].role
    BY <1>0, <2>1 DEF User
  <2>3. /\ \A q \in Requests \ {r} : req'[q] = req[q]
        /\ req'[r].pc = "consume"
    BY <1>0, <1>a, <2>1 DEF RequestType
  <2> QED BY <1>5, <2>1, <2>2, <2>3
<1>6. CASE CheckEmailCode(r)
  BY <1>0, <1>a, <1>6 DEF CheckEmailCode, RequestType
<1>7. CASE DeleteEmailCode(r)
  <2>1. Verified(r) \in {"enable", "consume"}
    BY DEF Verified
  <2> QED BY <1>0, <1>a, <1>7, <2>1 DEF DeleteEmailCode, Goto, RequestType
<1>8. CASE EnableEmail(r)
  <2>1. req[r].user \in Emails
    BY <1>a, <1>8 DEF EnableEmail
  <2>2. RolesStay /\ MailStays
    BY <1>8, <2>1, NewListRows DEF MakesList
  <2> QED BY <1>8, <2>2
<1>9. CASE RequestFails(r)
  BY <1>0, <1>9 DEF RequestFails
<1>10. ASSUME NEW t \in Tokens, StoreToken(r, t)
       PROVE  RolesStay /\ MailStays /\ CodesStay /\ ShowStays
  BY <1>0, <1>10 DEF StoreToken, End
<1>11. ASSUME NEW t \in Tokens, ValidateToken(r, t) \/ BeginSend(r, t)
       PROVE  RolesStay /\ MailStays /\ CodesStay /\ ShowStays
  BY ZenonT(60), <1>0, <1>11 DEF ValidateToken, BeginSend, Begin, Idle
<1>12. CASE ShowList(r)
  BY <1>0, <1>12 DEF ShowList, End
<1> HIDE DEF RolesStay, MailStays, CodesStay, ShowStays
<1> QED BY <1>1, <1>2, <1>3, <1>4, <1>5, <1>6, <1>7, <1>8, <1>9, <1>10, <1>11, <1>12
        DEF Step

\* The beginnings of requests, and what is no request.
LEMMA OtherRows ==
  ASSUME TypeInv,
         \/ \E r \in Requests, e \in Emails :
              \/ RegisterChecks(r, e) \/ SetupChecks(r, e) \/ ReadLogin(r, e)
              \/ BeginSetupEmail(r, e) \/ BeginEnableEmail(r, e)
         \/ \E t \in Tokens : TokenExpires(t)
         \/ \E e \in Emails : EmailCodeExpires(e)
         \/ UNCHANGED vars
  PROVE  /\ RolesStay \/ \E r \in Requests, e \in Emails : SetupChecks(r, e)
         /\ MailStays \/ \E e \in Emails : EmailCodeExpires(e)
         /\ CodesStay /\ ShowStays
<1> USE DEF redis, given, history, counts, RolesStay, MailStays, CodesStay, ShowStays
<1>0. req \in [Requests -> Request] /\ Idle.pc = "idle"
  BY DEF TypeInv, TypeOK, Idle
<1>1. ASSUME NEW r \in Requests, NEW e \in Emails,
             \/ RegisterChecks(r, e) \/ SetupChecks(r, e) \/ ReadLogin(r, e)
             \/ BeginSetupEmail(r, e) \/ BeginEnableEmail(r, e)
      PROVE  /\ RolesStay \/ SetupChecks(r, e)
             /\ MailStays /\ CodesStay /\ ShowStays
  BY ZenonT(60), <1>0, <1>1
  DEF RegisterChecks, SetupChecks, ReadLogin, BeginSetupEmail, BeginEnableEmail, Begin, Idle
<1>2. ASSUME NEW t \in Tokens, TokenExpires(t)
      PROVE  RolesStay /\ MailStays /\ CodesStay /\ ShowStays
  BY <1>2 DEF TokenExpires
<1>3. ASSUME NEW e \in Emails, EmailCodeExpires(e)
      PROVE  RolesStay /\ CodesStay /\ ShowStays
  BY <1>3 DEF EmailCodeExpires
<1>4. ASSUME UNCHANGED vars PROVE RolesStay /\ MailStays /\ CodesStay /\ ShowStays
  BY <1>4 DEF vars
<1> HIDE DEF RolesStay, MailStays, CodesStay, ShowStays
<1> QED BY <1>1, <1>2, <1>3, <1>4

LEMMA Steps ==
  ASSUME TypeInv, [Next]_vars
  PROVE  /\ \/ RolesStay
            \/ \E r \in Requests : InsertCustomer(r) \/ InsertAdmin(r)
            \/ \E r \in Requests, e \in Emails : SetupChecks(r, e)
         /\ \/ MailStays
            \/ \E r \in Requests : \/ StoreEmailCode(r) \/ CheckEmailCode(r)
                                   \/ DeleteEmailCode(r) \/ RequestFails(r)
            \/ \E e \in Emails : EmailCodeExpires(e)
         /\ \/ CodesStay
            \/ \E r \in Requests : ByRecoveryCode(r) \/ Spend(r)
            \/ \E r \in Requests, e \in Emails : MakesList(r, e)
            \/ \E e \in Emails : Disable2FA(e)
         /\ \/ ShowStays
            \/ \E r \in Requests : ShowList(r) \/ RequestFails(r)
            \/ \E r \in Requests, e \in Emails : MakesList(r, e)
            \/ \E e \in Emails : Disable2FA(e)
<1>1. enrolling \subseteq Emails
  BY DEF TypeInv, TypeOK
<1>2. CASE \E r \in Requests : Step(r)
  <2>1. \A r \in Requests : EnableEmail(r) => \E e \in Emails : MakesList(r, e)
    BY DEF TypeInv, Request, EnableEmail, MakesList
  <2> QED BY <1>2, <2>1, RequestRows
<1>3. CASE \/ \E r \in Requests, e \in Emails :
                EnableTOTP(r, e) \/ RegenerateRecoveryCodes(r, e)
           \/ \E e \in Emails : Disable2FA(e)
  BY <1>3, NewListRows, DisableRows DEF MakesList
<1>4. CASE \/ \E r \in Requests, e \in Emails :
                \/ RegisterChecks(r, e) \/ SetupChecks(r, e) \/ ReadLogin(r, e)
                \/ BeginSetupEmail(r, e) \/ BeginEnableEmail(r, e)
           \/ \E t \in Tokens : TokenExpires(t)
           \/ \E e \in Emails : EmailCodeExpires(e)
           \/ UNCHANGED vars
  BY <1>4, OtherRows
<1> QED BY <1>1, <1>2, <1>3, <1>4 DEF Next

-----------------------------------------------------------------------------
(* One administrator per request                                           *)

\* A request that has found no administrator has made none.
AdminInv ==
  /\ OneAdminPerRequest
  /\ \A r \in Requests : req[r].pc = "insert" /\ req[r].role = "admin" =>
       \A a \in Emails : user[a].role = "admin" => creator[a] # r

LEMMA AdminStep ==
  ASSUME TypeInv, AdminInv, [Next]_vars
  PROVE  AdminInv'
<1> USE DEF AdminInv, OneAdminPerRequest
<1>0. /\ req \in [Requests -> Request] /\ user \in [Emails -> User] /\ Idle.pc = "idle"
      /\ creator \in [Emails -> Requests \cup {None}]
  BY DEF TypeInv, TypeOK, Idle
<1>1. CASE RolesStay
  BY <1>1 DEF RolesStay
<1>2. ASSUME NEW r \in Requests, NEW role \in {"customer", "admin"}, InsertUser(r, role)
      PROVE  AdminInv'
  <2>1. /\ req[r].pc = "insert" /\ req[r].role = role
        /\ req' = [req EXCEPT ![r] = Idle]
    BY <1>2 DEF InsertUser, End
  <2>2. req[r].user \in Emails
    BY <1>0, <2>1 DEF Request
  <2>3. CASE Exists(req[r].user)
    BY <1>0, <1>2, <2>1, <2>3 DEF InsertUser
  <2>4. CASE ~Exists(req[r].user)
    <3>1. /\ user' = [user EXCEPT ![req[r].user] = [NoUser EXCEPT !.role = role]]
          /\ creator' = [creator EXCEPT ![req[r].user] = r]
      BY <1>2, <2>4 DEF InsertUser
    <3>2. [NoUser EXCEPT !.role = role].role = role
      BY DEF NoUser
    <3> QED BY <1>0, <2>1, <2>2, <3>1, <3>2
  <2> QED BY <2>3, <2>4
<1>3. ASSUME NEW r \in Requests, NEW e \in Emails, SetupChecks(r, e)
      PROVE  AdminInv'
  BY <1>0, <1>3 DEF SetupChecks, HasAdmin, Begin, history
<1> QED BY <1>1, <1>2, <1>3, Steps DEF InsertCustomer, InsertAdmin

LEMMA InitAdmins == Init => AdminInv
BY DEF Init, AdminInv, OneAdminPerRequest, NoUser, Idle

\* However many set-up requests overlap, none makes two administrators.
THEOREM AdminsAreFew == Spec => []OneAdminPerRequest
<1>1. AdminInv => OneAdminPerRequest
  BY DEF AdminInv
<1> QED BY <1>1, InitAdmins, AdminStep, Typed, PTL DEF Spec

-----------------------------------------------------------------------------
(* Codes by email                                                          *)

\* Codes are numbered as they are sent, each is for one user.
MailInv ==
  /\ \A e \in Emails : mail[e] # None => mail[e] <= mails
  /\ \A c \in accepted : c <= mails
  /\ \A e, f \in Emails : mail[e] # None /\ mail[e] = mail[f] => e = f
  /\ AcceptedCodesAreGone

LEMMA MailStep ==
  ASSUME TypeInv, MailInv, [Next]_vars
  PROVE  MailInv'
<1> USE AccountsAssumption DEF MailInv, AcceptedCodesAreGone
<1>0. /\ req \in [Requests -> Request] /\ mail \in [Emails -> Nat \cup {None}]
      /\ mails \in Nat /\ accepted \subseteq Nat
      /\ \A r \in Requests : req[r].pc # "idle" => req[r].user \in Emails
  BY DEF TypeInv, TypeOK, Request
<1>1. CASE MailStays
  BY <1>1 DEF MailStays
<1>2. ASSUME NEW e \in Emails, EmailCodeExpires(e) PROVE MailInv'
  BY ZenonT(60), <1>0, <1>2 DEF EmailCodeExpires, counts, history
<1>3. ASSUME NEW r \in Requests, StoreEmailCode(r) PROVE MailInv'
  <2>1. /\ req[r].pc = "send" /\ req' = [req EXCEPT ![r] = Idle]
        /\ mails' = mails + 1 /\ mail' = [mail EXCEPT ![req[r].user] = mails']
        /\ UNCHANGED <<accepted, left>>
    BY <1>3 DEF StoreEmailCode, End, history
  <2>2. mails' \notin accepted /\ \A e \in Emails : mail[e] # mails'
    BY <1>0, <2>1
  <2>3. \A c \in accepted : c <= mails'
    BY <1>0, <2>1
  <2>4. \A e \in Emails : mail'[e] # None => mail'[e] <= mails'
    BY <1>0, <2>1
  <2>5. \A q \in Requests : req[q].pc = "delete" => req'[q] = req[q]
    BY <1>0, <2>1
  <2> QED BY <1>0, <2>1, <2>2, <2>3, <2>4, <2>5
<1>4. ASSUME NEW r \in Requests, CheckEmailCode(r) PROVE MailInv'
  <2>0. req[r].pc = "check" /\ mail[req[r].user] # None
    BY <1>4 DEF CheckEmailCode
  <2>a. mail[req[r].user] \in Nat
    BY <1>0, <2>0
  <2>1. PICK c \in Nat : /\ c = mail[req[r].user]
                         /\ req' = [req EXCEPT ![r] = [req[r] EXCEPT !.pc = "delete",
                                                                     !.mailed = c]]
                         /\ accepted' = accepted \cup {c}
                         /\ UNCHANGED <<mail, mails, left>>
    <3>1. req' = [req EXCEPT ![r] = [req[r] EXCEPT !.pc = "delete",
                                                   !.mailed = mail[req[r].user]]]
      BY ZenonT(60), <1>4 DEF CheckEmailCode
    <3> QED BY <1>4, <2>a, <3>1 DEF CheckEmailCode, redis, counts
  <2>2. /\ \A q \in Requests \ {r} : req'[q] = req[q]
        /\ req'[r].pc = "delete" /\ req'[r].mailed = c /\ req'[r].user = req[r].user
    BY <1>0, <2>1 DEF Request, RequestType
  <2>3. req[r].user \in Emails /\ c <= mails
    BY <1>0, <2>0, <2>1
  <2> QED BY <1>0, <2>0, <2>1, <2>2, <2>3
<1>5. ASSUME NEW r \in Requests, DeleteEmailCode(r) PROVE MailInv'
  <2>1. /\ req[r].pc = "delete" /\ \A q \in Requests \ {r} : req'[q] = req[q]
        /\ UNCHANGED <<mails, accepted>>
    BY <1>0, <1>5 DEF DeleteEmailCode, Goto, counts
  <2>2. req[r].user \in Emails
    BY <1>0, <2>1
  <2>3. CASE mail' = [mail EXCEPT ![req[r].user] = None] /\ UNCHANGED left
    <3>1. \A e \in Emails : mail'[e] = IF e = req[r].user THEN None ELSE mail[e]
      BY <1>0, <2>2, <2>3
    <3>2. None \notin accepted
      BY <1>0
    <3>3. /\ \A e \in Emails : mail'[e] # None => mail'[e] <= mails'
          /\ \A c \in accepted' : c <= mails'
          /\ \A e, f \in Emails : mail'[e] # None /\ mail'[e] = mail'[f] => e = f
      BY <2>1, <3>1
    <3>4. AcceptedCodesAreGone'
      BY <2>1, <2>3, <3>1, <3>2
    <3> QED BY <3>3, <3>4
  <2>4. CASE UNCHANGED mail /\ left' = left \cup {req[r].mailed}
    BY <1>0, <2>1, <2>2, <2>4
  <2> QED BY <1>5, <2>3, <2>4 DEF DeleteEmailCode
<1>6. ASSUME NEW r \in Requests, RequestFails(r) PROVE MailInv'
  <2>1. /\ \A q \in Requests \ {r} : req'[q] = req[q]
        /\ UNCHANGED <<mail, mails, accepted>>
        /\ left \subseteq left' /\ (req[r].pc = "delete" => req[r].mailed \in left')
    BY <1>0, <1>6 DEF RequestFails, redis, counts
  <2> QED BY <1>0, <2>1
<1> QED BY <1>1, <1>2, <1>3, <1>4, <1>5, <1>6, Steps

LEMMA InitMail == Init => MailInv
BY DEF Init, MailInv, AcceptedCodesAreGone

\* A code that was accepted is gone once the request that accepted it has
\* deleted it, whatever other requests of the user do.
THEOREM AcceptedCodesGo == Spec => []AcceptedCodesAreGone
<1>1. MailInv => AcceptedCodesAreGone
  BY DEF MailInv
<1> QED BY <1>1, InitMail, MailStep, Typed, PTL DEF Spec

-----------------------------------------------------------------------------
(* Recovery codes                                                          *)

\* A code a user has, one of the last list, or one that a request has read from the row.
Holds(e, c) ==
  \/ c \in user[e].codes
  \/ c \in made[e]
  \/ \E r \in Requests : req[r].pc = "spend" /\ req[r].user = e /\ c \in req[r].codes

\* The list written last, without those that have been used.
CodesAreThoseLeft ==
  \A e \in Emails : e \notin overwrote => user[e].codes = made[e] \ spent

\* It is the list that was shown, or its response is under way.
LastListIsShown ==
  \A e \in Emails : made[e] # {} /\ e \notin missed => shown[e] = made[e] \/ Showing(e)

\* Lists are numbered as they are made, and no two users share one.
CodeInv ==
  /\ \A e \in Emails, c \in Code : Holds(e, c) => c[1] <= lists
  /\ \A c \in spent : c[1] <= lists
  /\ \A e, f \in Emails, c \in Code : Holds(e, c) /\ Holds(f, c) => e = f
  /\ \A r \in Requests : req[r].pc = "spend" => req[r].code \in req[r].codes
  /\ CodesAreThoseLeft

LEMMA ListCodes ==
  ASSUME NEW n \in Nat
  PROVE  \A c \in List(n) : c \in Code /\ c[1] = n
BY AccountsAssumption DEF List, Code

LEMMA NewListCodes ==
  ASSUME TypeInv, CodeInv, NEW e \in Emails,
         lists' = lists + 1, UNCHANGED spent,
         made' = [made EXCEPT ![e] = List(lists')],
         \A f \in Emails : user'[f].codes = IF f = e THEN List(lists') ELSE user[f].codes,
         overwrote' = overwrote \ {e},
         \A q \in Requests : req'[q].pc = "spend" => req'[q] = req[q]
  PROVE  CodeInv'
<1>0. /\ made \in [Emails -> SUBSET Code] /\ lists \in Nat /\ lists' \in Nat
      /\ spent \subseteq Code
  BY DEF TypeInv, TypeOK
<1>1. \A c \in List(lists') : c \in Code /\ c[1] = lists'
  BY <1>0, ListCodes
<1>2. \A f \in Emails : \A c : Holds(f, c)' => Holds(f, c) \/ (f = e /\ c \in List(lists'))
  BY <1>0 DEF Holds
<1>3. \A c \in Code : c[1] \in Nat
  BY DEF Code
<1>4. \A f \in Emails, c \in Code : Holds(f, c) => c[1] < lists'
  BY <1>0, <1>3 DEF CodeInv
<1>5. \A c \in spent : c[1] < lists'
  BY <1>0, <1>3 DEF CodeInv
<1>6. \A f \in Emails, c \in Code : Holds(f, c)' => c[1] <= lists'
  BY <1>0, <1>1, <1>2, <1>3, <1>4
<1>7. \A c \in spent' : c[1] <= lists'
  BY <1>0, <1>3, <1>5
<1>8. \A f, g \in Emails, c \in Code : Holds(f, c)' /\ Holds(g, c)' => f = g
  <2>1. \A f \in Emails, c \in Code : Holds(f, c) => c \notin List(lists')
    BY <1>0, <1>1, <1>4
  <2> QED BY <1>2, <2>1 DEF CodeInv
<1>9. List(lists') \cap spent = {}
  BY <1>0, <1>1, <1>5
<1>10. CodesAreThoseLeft'
  BY <1>0, <1>9 DEF CodeInv, CodesAreThoseLeft
<1>11. \A r \in Requests : req'[r].pc = "spend" => req'[r].code \in req'[r].codes
  BY DEF CodeInv
<1> QED BY <1>6, <1>7, <1>8, <1>10, <1>11 DEF CodeInv

LEMMA CodeStep ==
  ASSUME TypeInv, CodeInv, [Next]_vars
  PROVE  CodeInv'
<1>0. /\ req \in [Requests -> Request] /\ user \in [Emails -> User] /\ lists \in Nat
      /\ made \in [Emails -> SUBSET Code] /\ spent \subseteq Code
      /\ \A r \in Requests : /\ req[r] \in RequestType
                             /\ req[r].pc # "idle" => req[r].user \in Emails
  BY DEF TypeInv, TypeOK, Request
<1>c. \A e \in Emails : \A c : Holds(e, c) => c \in Code
  BY <1>0 DEF Holds, User, RequestType
\* Nothing is held that was not held before.
<1>k. ASSUME \A e \in Emails : \A c : Holds(e, c)' => Holds(e, c), UNCHANGED lists,
             \A c \in spent' : c[1] <= lists,
             \A r \in Requests : req'[r].pc = "spend" => req'[r].code \in req'[r].codes,
             CodesAreThoseLeft'
      PROVE  CodeInv'
  BY <1>k DEF CodeInv
<1>1. CASE CodesStay
  <2>1. \A e \in Emails : \A c : Holds(e, c)' => Holds(e, c)
    BY <1>1 DEF CodesStay, Holds
  <2>2. CodesAreThoseLeft'
    BY <1>1 DEF CodesStay, CodeInv, CodesAreThoseLeft
  <2> QED BY <1>1, <1>k, <2>1, <2>2 DEF CodesStay, CodeInv
<1>2. ASSUME NEW r \in Requests, ByRecoveryCode(r) PROVE CodeInv'
  <2>1. PICK c \in user[req[r].user].codes :
          /\ req[r].pc = "verify"
          /\ req' = [req EXCEPT ![r] = [req[r] EXCEPT !.pc = "spend", !.code = c,
                                                   !.codes = user[req[r].user].codes]]
          /\ UNCHANGED <<user, lists, made, spent, overwrote>>
    BY <1>2 DEF ByRecoveryCode, history, given, counts
  <2>2. /\ \A q \in Requests \ {r} : req'[q] = req[q]
        /\ req'[r].user = req[r].user /\ req'[r].code = c
        /\ req'[r].codes = user[req[r].user].codes
    BY <1>0, <2>1 DEF RequestType
  <2>3. \A e \in Emails : \A d : Holds(e, d)' => Holds(e, d)
    BY <2>1, <2>2 DEF Holds
  <2>4. \A q \in Requests : req'[q].pc = "spend" => req'[q].code \in req'[q].codes
    BY <2>1, <2>2 DEF CodeInv
  <2>5. CodesAreThoseLeft'
    BY <2>1 DEF CodeInv, CodesAreThoseLeft
  <2> QED BY <1>k, <2>1, <2>3, <2>4, <2>5 DEF CodeInv
<1>3. ASSUME NEW r \in Requests, Spend(r) PROVE CodeInv'
  <2> DEFINE e == req[r].user
  <2>1. /\ req[r].pc = "spend" /\ req' = [req EXCEPT ![r] = [req[r] EXCEPT !.pc = "consume"]]
        /\ user' = [user EXCEPT ![e] = [user[e] EXCEPT !.codes = req[r].codes \ {req[r].code}]]
        /\ spent' = spent \cup {req[r].code}
        /\ overwrote' = IF user[e].codes = req[r].codes THEN overwrote ELSE overwrote \cup {e}
        /\ UNCHANGED <<lists, made>>
    BY <1>3 DEF Spend, Goto, given, counts
  <2>2. e \in Emails /\ req[r].code \in req[r].codes /\ Holds(e, req[r].code)
    BY <1>0, <2>1 DEF CodeInv, Holds
  <2>3. \A f \in Emails : user'[f].codes = IF f = e THEN req[r].codes \ {req[r].code}
                                           ELSE user[f].codes
    BY <1>0, <2>1, <2>2 DEF User
  <2>4. /\ \A q \in Requests \ {r} : req'[q] = req[q]
        /\ req'[r].pc = "consume"
    BY <1>0, <2>1 DEF RequestType
  <2>5. \A f \in Emails : \A d : Holds(f, d)' => Holds(f, d)
    <3>1. \A f \in Emails : \A d : d \in user'[f].codes => Holds(f, d)
      BY <2>1, <2>2, <2>3 DEF Holds
    <3> QED BY <2>1, <2>4, <3>1 DEF Holds
  <2>6. \A d \in spent' : d[1] <= lists
    BY <1>c, <2>1, <2>2 DEF CodeInv
  <2>7. \A f \in Emails \ {e} : req[r].code \notin made[f]
    <3>1. \A f \in Emails : Holds(f, req[r].code) => f = e
      BY <1>c, <2>2 DEF CodeInv
    <3> QED BY <3>1 DEF Holds
  <2>8. CodesAreThoseLeft'
    <3>1. ASSUME NEW f \in Emails, f \notin overwrote'
          PROVE  user'[f].codes = made'[f] \ spent'
      <4>1. f \notin overwrote /\ (f = e => user[e].codes = req[r].codes)
        BY <2>1, <3>1
      <4>2. user[f].codes = made[f] \ spent
        BY <4>1 DEF CodeInv, CodesAreThoseLeft
      <4>3. made'[f] = made[f]
        BY <2>1
      <4>4. CASE f = e
        BY <2>1, <2>3, <4>1, <4>2, <4>3, <4>4
      <4>5. CASE f # e
        BY <2>1, <2>3, <2>7, <4>2, <4>3, <4>5
      <4> QED BY <4>4, <4>5
    <3> QED BY <3>1 DEF CodesAreThoseLeft
  <2>9. \A q \in Requests : req'[q].pc = "spend" => req'[q].code \in req'[q].codes
    BY <2>4 DEF CodeInv
  <2> QED BY <1>k, <2>1, <2>5, <2>6, <2>8, <2>9
<1>4. ASSUME NEW r \in Requests, NEW e \in Emails, MakesList(r, e)
      PROVE  CodeInv'
  BY <1>4, NewListRows, NewListCodes
<1>5. ASSUME NEW e \in Emails, Disable2FA(e) PROVE CodeInv'
  <2>1. /\ UNCHANGED <<spent, lists, req>>
        /\ made' = [made EXCEPT ![e] = {}]
        /\ \A f \in Emails : user'[f].codes = IF f = e THEN {} ELSE user[f].codes
        /\ overwrote' = overwrote \ {e}
    BY <1>5, DisableRows
  <2>2. \A f \in Emails : \A c : Holds(f, c)' => Holds(f, c)
    BY <1>0, <2>1 DEF Holds
  <2>3. CodesAreThoseLeft'
    BY <1>0, <2>1 DEF CodeInv, CodesAreThoseLeft
  <2> QED BY <1>k, <2>1, <2>2, <2>3 DEF CodeInv
<1> QED BY <1>1, <1>2, <1>3, <1>4, <1>5, Steps

\* A response is lost, overtaken, or arrives.
LEMMA ListStep ==
  ASSUME TypeInv, LastListIsShown, [Next]_vars
  PROVE  LastListIsShown'
<1> USE DEF LastListIsShown, Showing
<1>0. /\ req \in [Requests -> Request] /\ Idle.pc = "idle"
      /\ made \in [Emails -> SUBSET Code] /\ shown \in [Emails -> SUBSET Code]
      /\ \A r \in Requests : req[r].pc # "idle" => req[r].user \in Emails
  BY DEF TypeInv, TypeOK, Idle, Request
<1>1. CASE ShowStays
  BY <1>1 DEF ShowStays
<1>2. ASSUME NEW r \in Requests, NEW e \in Emails, MakesList(r, e)
      PROVE  LastListIsShown'
  <2>1. /\ made' = [made EXCEPT ![e] = List(lists')] /\ UNCHANGED shown
        /\ missed' = missed \ {e} /\ req[r].pc # "show"
        /\ \A q \in Requests \ {r} : req'[q] = req[q]
        /\ req'[r].pc = "show" /\ req'[r].user = e /\ req'[r].codes = List(lists')
    BY <1>2, NewListRows
  <2> QED BY <1>0, <2>1
<1>3. ASSUME NEW e \in Emails, Disable2FA(e) PROVE LastListIsShown'
  BY <1>0, <1>3 DEF Disable2FA
<1>4. ASSUME NEW r \in Requests, ShowList(r) PROVE LastListIsShown'
  <2>1. /\ req[r].pc = "show" /\ UNCHANGED made /\ req[r].user \in Emails
        /\ \A q \in Requests \ {r} : req'[q] = req[q]
        /\ shown' = [shown EXCEPT ![req[r].user] = req[r].codes]
        /\ missed' = IF req[r].codes = made[req[r].user] THEN missed \ {req[r].user}
                     ELSE missed \cup {req[r].user}
    BY <1>0, <1>4 DEF ShowList, End
  <2> QED BY <1>0, <2>1
<1>5. ASSUME NEW r \in Requests, RequestFails(r) PROVE LastListIsShown'
  BY <1>0, <1>5 DEF RequestFails
<1> QED BY <1>1, <1>2, <1>3, <1>4, <1>5, Steps

LEMMA InitCodes == Init => CodeInv /\ LastListIsShown
BY DEF Init, CodeInv, CodesAreThoseLeft, LastListIsShown, Holds, NoUser, Idle

\* The codes a user can log in with are those of the last list less those used,
\* unless a login has written back a list that another request had replaced;
\* and the last list is the one the user was shown, unless a response was lost
\* or came too late.
THEOREM CodesShown == Spec => []CodesAreThoseShown
<1>1. CodeInv /\ LastListIsShown => CodesAreThoseShown
  BY DEF CodeInv, CodesAreThoseLeft, LastListIsShown, CodesAreThoseShown
<1> QED BY <1>1, InitCodes, CodeStep, ListStep, Typed, PTL DEF Spec
=============================================================================
