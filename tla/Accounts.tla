------------------------------ MODULE Accounts ------------------------------
(***************************************************************************)
(* Accounts: registration, the first administrator, and logins with a      *)
(* second factor (internal/auth, internal/setup).  Requests of one user    *)
(* and of several run at the same time; between two statements of one the  *)
(* others go on.  PostgreSQL keeps the users, Redis the tokens of logins   *)
(* that wait for their second factor and the codes sent by email.          *)
(*                                                                         *)
(* A row is found by its email, which is unique.  Passwords are left out:  *)
(* a request with a wrong one ends without changing anything, and so does  *)
(* one with a wrong code.  JWTs are not kept by the program.               *)
(***************************************************************************)
EXTENDS Integers

CONSTANTS
  Requests,       \* requests that can be in progress at the same time
  Emails,         \* users.email
  Starts,         \* bound: the users a behaviour begins with, and those of all
                  \* users who use a second factor in it
  Tokens,         \* two_factor_token of the logins that wait for a code
  None,           \* no user, no token, no code
  RecoveryCodes,  \* recovery codes in a list: 10 in the code
  MaxLists,       \* bound: lists of recovery codes made
  MaxMails,       \* bound: codes sent by email
  MaxFaults       \* bound: statements that fail, requests that die

ASSUME AccountsAssumption ==
  /\ Starts \subseteq [registered : SUBSET Emails, enrolling : SUBSET Emails]
  /\ None \notin Emails /\ None \notin Tokens /\ None \notin Nat
  /\ RecoveryCodes \in Nat \ {0}
  /\ MaxLists \in Nat /\ MaxMails \in Nat /\ MaxFaults \in Nat

VARIABLES
  user,      \* users rows
  login,     \* Redis 2fa:token:<token>: the user who has given a password
  mail,      \* Redis 2fa:email:<user>: the code sent last
  req,       \* requests in progress
  enrolling, \* bound: the users who use a second factor
  lists,     \* lists of recovery codes made so far
  mails,     \* codes sent by email so far
  creator,   \* history: the request that has made a row,
  made,      \*   the list of recovery codes written to a row last,
  shown,     \*   the list its user was shown last,
  missed,    \*   users whose last list was not what they were shown last,
  spent,     \*   recovery codes that logins have used,
  overwrote, \*   users whose list a login has written over another write,
  accepted,  \*   email codes that have been accepted,
  left,      \*   and those whose deletion has failed
  faults

redis   == <<login, mail>>
given   == <<made, shown, missed>>
history == <<creator, given, spent, overwrote, accepted, left>>
counts  == <<lists, mails, enrolling>>
vars    == <<user, redis, req, counts, history, faults>>

Code == Nat \X Nat
List(n) == {n} \X (1 .. RecoveryCodes)

User == [role : {"none", "customer", "admin"}, enabled : BOOLEAN,
         method : {"null", "totp", "email"}, secret : BOOLEAN, codes : SUBSET Code]
\* NULL of recovery_codes is read as an empty list.
NoUser == [role |-> "none", enabled |-> FALSE, method |-> "null", secret |-> FALSE,
           codes |-> {}]

PC == {"idle", "insert", "token", "verify", "check", "delete", "spend", "consume",
       "enable", "send", "show"}
Idle == [pc |-> "idle", user |-> None, role |-> "none", token |-> None,
         code |-> <<0, 0>>, codes |-> {}, mailed |-> 0]

Exists(e) == user[e] # NoUser
HasAdmin == \E e \in Emails : user[e].role = "admin"

Init ==
  /\ \E s \in Starts :
       /\ user = [e \in Emails |-> IF e \in s.registered
                                   THEN [NoUser EXCEPT !.role = "customer"] ELSE NoUser]
       /\ enrolling = s.enrolling
  /\ login = [t \in Tokens |-> None]
  /\ mail = [e \in Emails |-> None]
  /\ req = [r \in Requests |-> Idle]
  /\ lists = 0 /\ mails = 0
  /\ creator = [e \in Emails |-> None]
  /\ made = [e \in Emails |-> {}] /\ shown = made /\ missed = {}
  /\ spent = {} /\ overwrote = {} /\ accepted = {} /\ left = {}
  /\ faults = 0

Fault == faults < MaxFaults /\ faults' = faults + 1
NoFault == UNCHANGED faults

Begin(r, q) == req[r] = Idle /\ req' = [req EXCEPT ![r] = q]
Goto(r, from, to) == req[r].pc = from /\ req' = [req EXCEPT ![r].pc = to]
End(r, from) == req[r].pc = from /\ req' = [req EXCEPT ![r] = Idle]

-----------------------------------------------------------------------------
(* registerUser and CreateAdmin: a check, then an INSERT                   *)

\* SELECT EXISTS of the email; one that is taken is a 409.
RegisterChecks(r, e) ==
  /\ ~Exists(e)
  /\ Begin(r, [Idle EXCEPT !.pc = "insert", !.user = e, !.role = "customer"])
  /\ UNCHANGED <<user, redis, counts, history, faults>>

\* Mutant: the check is that no administrator has this email.
SetupChecksEmail(r, e) ==
  /\ user[e].role # "admin"
  /\ Begin(r, [Idle EXCEPT !.pc = "insert", !.user = e, !.role = "admin"])
  /\ UNCHANGED <<user, redis, counts, history, faults>>

\* hasAdmin; if there is one the request is refused.
SetupChecks(r, e) ==
  /\ ~HasAdmin
  /\ Begin(r, [Idle EXCEPT !.pc = "insert", !.user = e, !.role = "admin"])
  /\ UNCHANGED <<user, redis, counts, history, faults>>

\* The unique index refuses a second row of an email.
InsertUser(r, role) ==
  LET e == req[r].user IN
  /\ req[r].role = role /\ End(r, "insert")
  /\ IF Exists(e) THEN UNCHANGED <<user, creator>>
     ELSE /\ user' = [user EXCEPT ![e] = [NoUser EXCEPT !.role = role]]
          /\ creator' = [creator EXCEPT ![e] = r]
  /\ UNCHANGED <<redis, counts, given, spent, overwrote, accepted, left, faults>>

InsertCustomer(r) == InsertUser(r, "customer")
InsertAdmin(r) == InsertUser(r, "admin")

-----------------------------------------------------------------------------
(* loginUser: without a second factor tokens are issued and nothing is     *)
(* stored; with one, a token for Verify2FA                                 *)

ReadLogin(r, e) ==
  /\ user[e].enabled
  /\ Begin(r, [Idle EXCEPT !.pc = "token", !.user = e])
  /\ UNCHANGED <<user, redis, counts, history, faults>>

\* A fresh UUID: none that is stored or that a request still holds.
StoreToken(r, t) ==
  /\ End(r, "token")
  /\ login[t] = None /\ \A q \in Requests : req[q].token # t
  /\ login' = [login EXCEPT ![t] = req[r].user]
  /\ UNCHANGED <<user, mail, counts, history, faults>>

-----------------------------------------------------------------------------
(* Verify2FA                                                               *)

\* Redis has the token: the user who has given a password.
validate2FAToken(t, e) == login[t] = e /\ e # None

ValidateToken(r, t) ==
  /\ \E e \in Emails :
       /\ validate2FAToken(t, e)
       /\ Begin(r, [Idle EXCEPT !.pc = "verify", !.user = e, !.token = t])
  /\ UNCHANGED <<user, redis, counts, history, faults>>

\* The SELECT of the second factor, and the code of one of the methods.
ByTOTP(r) ==
  /\ Goto(r, "verify", "consume")
  /\ user[req[r].user].secret
  /\ UNCHANGED <<user, redis, counts, history, faults>>

\* Whatever the user's method is: as a substitute for TOTP it is allowed.
ByEmail(r) ==
  /\ Goto(r, "verify", "check")
  /\ UNCHANGED <<user, redis, counts, history, faults>>

ByRecoveryCode(r) ==
  LET codes == user[req[r].user].codes IN
  /\ req[r].pc = "verify"
  /\ \E c \in codes :
       req' = [req EXCEPT ![r].pc = "spend", ![r].code = c, ![r].codes = codes]
  /\ UNCHANGED <<user, redis, counts, history, faults>>

\* 400 or 401: no secret, no code, a wrong code.
NotVerified(r) ==
  /\ End(r, "verify")
  /\ UNCHANGED <<user, redis, counts, history, faults>>

\* Mutant: the list is filtered but not written.
SpendNothing(r) ==
  /\ Goto(r, "spend", "consume")
  /\ spent' = spent \cup {req[r].code}
  /\ UNCHANGED <<user, redis, counts, creator, given, overwrote, accepted, left,
                 faults>>

\* UPDATE recovery_codes to the list that was read, less the code.
Spend(r) ==
  LET e == req[r].user IN
  /\ Goto(r, "spend", "consume")
  /\ user' = [user EXCEPT ![e].codes = req[r].codes \ {req[r].code}]
  /\ spent' = spent \cup {req[r].code}
  /\ overwrote' = IF user[e].codes = req[r].codes THEN overwrote ELSE overwrote \cup {e}
  /\ UNCHANGED <<redis, counts, creator, given, accepted, left, faults>>

\* DEL, whose error is ignored.
consume2FAToken(t) ==
  \/ login' = [login EXCEPT ![t] = None] /\ NoFault
  \/ UNCHANGED login /\ Fault

\* Then JWTs are issued.
Consume(r) ==
  /\ End(r, "consume")
  /\ consume2FAToken(req[r].token)
  /\ UNCHANGED <<user, mail, counts, history>>

-----------------------------------------------------------------------------
(* Codes by email: StoreEmailCode, VerifyEmailCode                         *)

\* Send2FAEmail
BeginSend(r, t) ==
  /\ \E e \in Emails :
       validate2FAToken(t, e) /\ Begin(r, [Idle EXCEPT !.pc = "send", !.user = e])
  /\ UNCHANGED <<user, redis, counts, history, faults>>

\* SetupEmail
BeginSetupEmail(r, e) ==
  /\ Exists(e)
  /\ Begin(r, [Idle EXCEPT !.pc = "send", !.user = e])
  /\ UNCHANGED <<user, redis, counts, history, faults>>

\* SET of the one key a user has, for logins and for the set-up, then the mail.
StoreEmailCode(r) ==
  /\ End(r, "send")
  /\ mails < MaxMails /\ mails' = mails + 1
  /\ mail' = [mail EXCEPT ![req[r].user] = mails']
  /\ UNCHANGED <<user, login, lists, enrolling, history, faults>>

\* Where a verified code leads: a login goes on, a set-up enables the factor.
Verified(r) == IF req[r].token = None THEN "enable" ELSE "consume"

\* Mutant: the code is left for its time to live to remove.
CheckOnly(r) ==
  LET c == mail[req[r].user] IN
  /\ Goto(r, "check", Verified(r))
  /\ c # None
  /\ accepted' = accepted \cup {c}
  /\ UNCHANGED <<user, redis, counts, creator, given, spent, overwrote, left, faults>>

\* Mutant: a missing key is not told from a code.
CheckMissing(r) ==
  /\ req[r].pc = "check"
  /\ req' = [req EXCEPT ![r].pc = "delete", ![r].mailed = mail[req[r].user]]
  /\ accepted' = accepted \cup {mail[req[r].user]}
  /\ UNCHANGED <<user, redis, counts, creator, given, spent, overwrote, left, faults>>

\* GET, and the code compares equal.
CheckEmailCode(r) ==
  LET c == mail[req[r].user] IN
  /\ req[r].pc = "check" /\ c # None
  /\ req' = [req EXCEPT ![r].pc = "delete", ![r].mailed = c]
  /\ accepted' = accepted \cup {c}
  /\ UNCHANGED <<user, redis, counts, creator, given, spent, overwrote, left, faults>>

WrongEmailCode(r) ==
  /\ End(r, "check")
  /\ UNCHANGED <<user, redis, counts, history, faults>>

\* DEL of the key, whatever it holds by now; an error is ignored.
DeleteEmailCode(r) ==
  /\ Goto(r, "delete", Verified(r))
  /\ \/ mail' = [mail EXCEPT ![req[r].user] = None] /\ NoFault /\ UNCHANGED left
     \/ UNCHANGED mail /\ Fault /\ left' = left \cup {req[r].mailed}
  /\ UNCHANGED <<user, login, counts, creator, given, spent, overwrote, accepted>>

-----------------------------------------------------------------------------
(* The user's settings: one UPDATE each                                    *)

\* A new list of recovery codes is written to the row; the response shows it.
NewList(e, row) ==
  /\ lists < MaxLists /\ lists' = lists + 1
  /\ user' = [user EXCEPT ![e] = [row EXCEPT !.codes = List(lists')]]
  /\ made' = [made EXCEPT ![e] = List(lists')]
  /\ overwrote' = overwrote \ {e} /\ missed' = missed \ {e}
  /\ UNCHANGED <<mails, enrolling, creator, shown, spent, accepted, left>>

BeginShow(r, e) ==
  Begin(r, [Idle EXCEPT !.pc = "show", !.user = e, !.codes = List(lists')])

\* Enable2FA with a TOTP code for the secret of the request.
EnableTOTP(r, e) ==
  /\ Exists(e)
  /\ NewList(e, [user[e] EXCEPT !.enabled = TRUE, !.method = "totp", !.secret = TRUE])
  /\ BeginShow(r, e)
  /\ UNCHANGED <<redis, faults>>

\* Enable2FA with a code by email: VerifyEmailCode, then the UPDATE.
BeginEnableEmail(r, e) ==
  /\ Exists(e)
  /\ Begin(r, [Idle EXCEPT !.pc = "check", !.user = e])
  /\ UNCHANGED <<user, redis, counts, history, faults>>

EnableEmail(r) ==
  LET e == req[r].user IN
  /\ req[r].pc = "enable"
  /\ NewList(e, [user[e] EXCEPT !.enabled = TRUE, !.method = "email"])
  /\ req' = [req EXCEPT ![r].pc = "show", ![r].codes = List(lists')]
  /\ UNCHANGED <<redis, faults>>

Disable2FA(e) ==
  /\ Exists(e)
  /\ user' = [user EXCEPT ![e] = [NoUser EXCEPT !.role = user[e].role]]
  /\ made' = [made EXCEPT ![e] = {}]
  /\ overwrote' = overwrote \ {e}
  /\ UNCHANGED <<redis, req, counts, creator, shown, missed, spent, accepted, left,
                 faults>>

\* Also without a second factor.
RegenerateRecoveryCodes(r, e) ==
  /\ Exists(e)
  /\ NewList(e, user[e])
  /\ BeginShow(r, e)
  /\ UNCHANGED <<redis, faults>>

\* The response arrives: it may be that of an earlier list than the row's.
ShowList(r) ==
  LET e == req[r].user IN
  /\ End(r, "show")
  /\ shown' = [shown EXCEPT ![e] = req[r].codes]
  /\ missed' = IF req[r].codes = made[e] THEN missed \ {e} ELSE missed \cup {e}
  /\ UNCHANGED <<user, redis, counts, creator, made, spent, overwrote, accepted, left,
                 faults>>

-----------------------------------------------------------------------------
(* The environment                                                         *)

\* Five minutes are over.
TokenExpires(t) ==
  /\ login[t] # None /\ login' = [login EXCEPT ![t] = None]
  /\ UNCHANGED <<user, mail, req, counts, history, faults>>

EmailCodeExpires(e) ==
  /\ mail[e] # None /\ mail' = [mail EXCEPT ![e] = None]
  /\ UNCHANGED <<user, login, req, counts, history, faults>>

\* A statement fails and the request ends with a 500, or the process dies; if
\* a list has been written its response is lost.
RequestFails(r) ==
  LET e == req[r].user IN
  /\ req[r] # Idle /\ Fault
  /\ req' = [req EXCEPT ![r] = Idle]
  /\ left' = IF req[r].pc = "delete" THEN left \cup {req[r].mailed} ELSE left
  /\ missed' = IF req[r].pc = "show" /\ req[r].codes = made[e] THEN missed \cup {e}
               ELSE missed
  /\ UNCHANGED <<user, redis, counts, creator, made, shown, spent, overwrote, accepted>>

Step(r) ==
  \/ InsertCustomer(r) \/ InsertAdmin(r)
  \/ ByTOTP(r) \/ ByEmail(r) \/ ByRecoveryCode(r) \/ NotVerified(r) \/ Spend(r)
  \/ Consume(r) \/ StoreEmailCode(r) \/ CheckEmailCode(r)
  \/ WrongEmailCode(r) \/ DeleteEmailCode(r) \/ EnableEmail(r) \/ ShowList(r)
  \/ RequestFails(r)
  \/ \E t \in Tokens : StoreToken(r, t) \/ ValidateToken(r, t) \/ BeginSend(r, t)

Next ==
  \/ \E r \in Requests :
       \/ Step(r)
       \/ \E e \in Emails : RegisterChecks(r, e) \/ SetupChecks(r, e)
       \/ \E e \in enrolling :
            \/ ReadLogin(r, e) \/ BeginSetupEmail(r, e) \/ BeginEnableEmail(r, e)
            \/ EnableTOTP(r, e) \/ RegenerateRecoveryCodes(r, e)
  \/ \E e \in enrolling : Disable2FA(e)
  \/ \E t \in Tokens : TokenExpires(t)
  \/ \E e \in Emails : EmailCodeExpires(e)

Spec == Init /\ [][Next]_vars

-----------------------------------------------------------------------------
(* Properties                                                              *)

\* Every variable keeps its type.
TypeOK ==
  /\ user \in [Emails -> User]
  /\ login \in [Tokens -> Emails \cup {None}]
  /\ mail \in [Emails -> Nat \cup {None}]
  /\ req \in [Requests -> [pc : PC, user : Emails \cup {None},
                           role : {"none", "customer", "admin"},
                           token : Tokens \cup {None}, code : Code,
                           codes : SUBSET Code, mailed : Nat]]
  /\ lists \in Nat /\ mails \in Nat /\ enrolling \subseteq Emails
  /\ creator \in [Emails -> Requests \cup {None}]
  /\ made \in [Emails -> SUBSET Code] /\ shown \in [Emails -> SUBSET Code]
  /\ missed \subseteq Emails
  /\ spent \subseteq Code
  /\ overwrote \subseteq Emails
  /\ accepted \subseteq Nat /\ left \subseteq Nat
  /\ faults \in Nat

(***************************************************************************)
(* However many set-up requests run at once (setup/handler.go:60), none of *)
(* them makes a second administrator after its first: as many exist as     *)
(* requests have overlapped, never more, whoever registers meanwhile.      *)
(***************************************************************************)
OneAdminPerRequest ==
  \A a, b \in Emails :
    user[a].role = "admin" /\ user[b].role = "admin" /\ creator[a] = creator[b] => a = b

(***************************************************************************)
(* A user's recovery codes are the list written last without those that    *)
(* have been used, whatever requests have come in between; only a login    *)
(* that has written its list over another request's breaks that, until the *)
(* next list is made (twofa_handler.go:101).  And it is the list the user  *)
(* was shown last, or a response is on its way to show it; only a lost     *)
(* response (twofa_handler.go:299, :333, :429) or one that is overtaken by *)
(* the response to an earlier list breaks that.                            *)
(***************************************************************************)
Showing(e) ==
  \E r \in Requests : req[r].pc = "show" /\ req[r].user = e /\ req[r].codes = made[e]

CodesAreThoseShown ==
  \A e \in Emails :
    /\ e \notin overwrote => user[e].codes = made[e] \ spent
    /\ made[e] # {} /\ e \notin missed => shown[e] = made[e] \/ Showing(e)

(***************************************************************************)
(* A code that has been accepted can only be accepted again while the      *)
(* request that accepted it has yet to delete it, or if it never could     *)
(* (email_code.go:47 says that a code is used once).                       *)
(***************************************************************************)
AcceptedCodesAreGone ==
  \A e \in Emails : mail[e] \in accepted =>
    \/ mail[e] \in left
    \/ \E r \in Requests :
         req[r].pc = "delete" /\ req[r].user = e /\ req[r].mailed = mail[e]
=============================================================================
