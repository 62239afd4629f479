------------------------------- MODULE Identity -------------------------------
(***************************************************************************)
(* identity-svc: signing up, verifying the address, logging in, the        *)
(* profile and the reset mails of ForgotPassword.  An account lives in two *)
(* places, Keycloak and the table users, that no transaction joins; the    *)
(* code that verifies an address lives in Redis and is mailed once.        *)
(*                                                                         *)
(* An account is its e-mail address.  Keycloak keeps two things of it that *)
(* matter here: how far it has got, and whether the required action        *)
(* VERIFY_EMAIL, which Signup sets, still bars it from the password grant. *)
(* Passwords, roles, sessions, tokens and the events of the outbox are     *)
(* left out, and so is MFA.  status is ACTIVE exactly when email_verified  *)
(* is set.                                                                 *)
(***************************************************************************)
EXTENDS Handlers

CONSTANTS
    Emails,         \* the accounts
    Names, NoName,  \* profile names, and the one a row has before an update
    ResetLimit      \* ForgotPassword stops mailing at this count; 3 in the code

ASSUME IdentityAssumption ==
    /\ IsFiniteSet(Emails)
    /\ NoName \notin Names
    /\ ResetLimit \in Nat \ {0}

\* A row of users; stored is false when there is none.
Users == [stored : BOOLEAN, verified : BOOLEAN, name : Names \union {NoName}]

NoUser == [stored |-> FALSE, verified |-> FALSE, name |-> NoName]

VARIABLES
    keycloak,   \* each account at Keycloak; "bare" has no password yet
    pending,    \* the accounts that carry the required action VERIFY_EMAIL there
    user,       \* users
    otp,        \* the addresses whose code is in Redis
    session,    \* accounts that have logged in: their tokens are valid
    profile,    \* the Redis entry of each profile, or NoUser
    attempts,   \* the forgotpw counters in Redis; 0 when there is none
    mails,      \* history: reset mails since the counter last expired
    spoiled     \* history: addresses whose code expired or met a wrong guess, or
                \* whose Signup or VerifyEmail was cut short midway

accounts == <<keycloak, pending, user, otp, session>>
caches == <<profile, attempts, mails>>
vars == <<accounts, caches, spoiled, frameVars>>

Init ==
    /\ FrameInit
    /\ keycloak = [e \in Emails |-> "absent"]
    /\ pending = {}
    /\ user = [e \in Emails |-> NoUser]
    /\ otp = {}
    /\ session = {}
    /\ profile = [e \in Emails |-> NoUser]
    /\ attempts = [e \in Emails |-> 0]
    /\ mails = [e \in Emails |-> 0]
    /\ spoiled = {}

\* Signup between Keycloak's account and the code, VerifyEmail once it has taken the
\* code: nothing starts again what they leave half done.
Midway(r) ==
    \/ call[r].op = "signup" /\ pc[r] \in {"password", "commit", "otp"}
    \/ call[r].op = "verify" /\ pc[r] \in {"find", "confirm", "writeback", "commit"}

\* The request is cut short.
CutShort(r) ==
    /\ spoiled' = spoiled \union {e \in Emails : Midway(r) /\ e = call[r].id}
    /\ UNCHANGED <<accounts, caches>>

------------------------------------------------------------------------------
(***************************************************************************)
(* A request arrives.                                                      *)
(***************************************************************************)

\* Unlike the other services, a Redis error other than "not found" fails Signup
\* and UpdateProfile.
Signup(r, e, k, up) ==
    LET c == [op |-> "signup", id |-> e, key |-> k] IN
    /\ Arrives(r, c, up, k # NoKey)
    /\ Continue(r, c, IF ~up \/ Replayed(k, up) THEN "done" ELSE "find", NoCopy)
    /\ UNCHANGED <<accounts, caches, spoiled>>

\* GETDEL: the code is gone before it is compared.
VerifyEmail(r, e, right, up) ==
    LET c == [op |-> "verify", id |-> e, key |-> NoKey] IN
    /\ Arrives(r, c, up, TRUE)
    /\ IF up /\ e \in otp
       THEN /\ otp' = otp \ {e}
            /\ spoiled' = IF right THEN spoiled ELSE spoiled \union {e}
            /\ Continue(r, c, IF right THEN "find" ELSE "done", NoCopy)
       ELSE /\ UNCHANGED <<otp, spoiled>>
            /\ Continue(r, c, "done", NoCopy)
    /\ UNCHANGED <<keycloak, pending, user, session, caches>>

Login(r, e) ==
    LET c == [op |-> "login", id |-> e, key |-> NoKey] IN
    /\ Arrives(r, c, TRUE, FALSE)
    /\ Continue(r, c, "find", NoCopy)
    /\ UNCHANGED <<accounts, caches, spoiled>>

\* The handler takes the account from a valid token.
UpdateProfile(r, e, n, k, up) ==
    LET c == [op |-> "rename", id |-> e, key |-> k, name |-> n] IN
    /\ e \in session
    /\ Arrives(r, c, up, k # NoKey)
    /\ Continue(r, c, IF ~up \/ Replayed(k, up) THEN "done" ELSE "find", NoCopy)
    /\ UNCHANGED <<accounts, caches, spoiled>>

\* Mutant: the profile is served to accounts that have not logged in.
GetProfileAnyone(r, e, up) ==
    LET c == [op |-> "profile", id |-> e, key |-> NoKey] IN
    /\ Arrives(r, c, up, TRUE)
    /\ Continue(r, c, IF ~up \/ profile[e] # NoUser THEN "done" ELSE "find", NoCopy)
    /\ UNCHANGED <<accounts, caches, spoiled>>

\* GetOrSet: a Redis error fails the call, a hit is returned.
GetProfile(r, e, up) ==
    LET c == [op |-> "profile", id |-> e, key |-> NoKey] IN
    /\ e \in session
    /\ Arrives(r, c, up, TRUE)
    /\ Continue(r, c, IF ~up \/ profile[e] # NoUser THEN "done" ELSE "find", NoCopy)
    /\ UNCHANGED <<accounts, caches, spoiled>>

\* The counter is read here and written after the mail; a Redis error reads as 0.
ForgotPassword(r, e, up) ==
    LET c == [op |-> "forgot", id |-> e, key |-> NoKey]
        n == IF up THEN attempts[e] ELSE 0 IN
    /\ Arrives(r, c, up, TRUE)
    /\ Continue(r, c, IF n >= ResetLimit THEN "done" ELSE "find", [attempts |-> n])
    /\ UNCHANGED <<accounts, caches, spoiled>>

------------------------------------------------------------------------------
(***************************************************************************)
(* The steps of a request.                                                 *)
(***************************************************************************)

\* FindByEmail or FindByID, through the pool: Signup wants no row, the others one.
FindUser(r) ==
    LET c == call[r]
        u == user[c.id] IN
    /\ Reads(r, "find")
    /\ \/ c.op = "signup"  /\ ~u.stored /\ Goto(r, "create", NoCopy)
       \/ c.op = "verify"  /\ u.stored  /\ Goto(r, "confirm", [u EXCEPT !.verified = TRUE])
       \/ c.op = "rename"  /\ u.stored  /\ Goto(r, "commit", [u EXCEPT !.name = c.name])
       \/ c.op = "profile" /\ u.stored  /\ Goto(r, "fill", u)
       \/ c.op = "forgot"  /\ Goto(r, IF u.stored THEN "mail" ELSE "count", copy[r])
    /\ UNCHANGED <<accounts, caches, spoiled>>

\* Mutant: the address need not be verified.
FindLoginUnverified(r) ==
    /\ Reads(r, "find")
    /\ call[r].op = "login"
    /\ user[call[r].id].stored
    /\ Goto(r, "authenticate", user[call[r].id])
    /\ UNCHANGED <<accounts, caches, spoiled>>

FindLogin(r) ==
    /\ Reads(r, "find")
    /\ call[r].op = "login"
    /\ user[call[r].id].verified
    /\ Goto(r, "authenticate", user[call[r].id])
    /\ UNCHANGED <<accounts, caches, spoiled>>

\* ErrEmailAlreadyRegistered, ErrInvalidCredentials, ErrEmailNotVerified, ErrUserNotFound.
Refused(r) ==
    LET c == call[r]
        u == user[c.id] IN
    /\ Reads(r, "find")
    /\ \/ c.op = "signup" /\ u.stored
       \/ c.op = "login" /\ ~u.verified
       \/ c.op \in {"verify", "rename", "profile"} /\ ~u.stored
    /\ Return(r)
    /\ UNCHANGED <<accounts, caches, spoiled>>

\* Keycloak refuses an address it has.
CreateUser(r) ==
    LET e == call[r].id IN
    /\ Reads(r, "create")
    /\ IF keycloak[e] = "absent"
       THEN /\ keycloak' = [keycloak EXCEPT ![e] = "bare"]
            /\ pending' = pending \union {e}
            /\ Goto(r, "password", NoCopy)
       ELSE UNCHANGED <<keycloak, pending>> /\ Return(r)
    /\ UNCHANGED <<user, otp, session, spoiled, caches>>

SetPassword(r) ==
    /\ Reads(r, "password")
    /\ keycloak' = [keycloak EXCEPT ![call[r].id] = "unverified"]
    /\ Goto(r, "commit", [NoUser EXCEPT !.stored = TRUE])
    /\ UNCHANGED <<pending, user, otp, session, spoiled, caches>>

\* Keycloak is told before the service's own transaction, in two calls: the
\* account is read, ...
ConfirmEmail(r) ==
    /\ Reads(r, "confirm")
    /\ Goto(r, "writeback", [row |-> copy[r], action |-> call[r].id \in pending])
    /\ UNCHANGED <<accounts, caches, spoiled>>

\* ... and written back whole, verified, with the required action as it was read.
WriteAccount(r) ==
    LET e == call[r].id IN
    /\ Reads(r, "writeback")
    /\ keycloak' = [keycloak EXCEPT ![e] = "verified"]
    /\ pending' = IF copy[r].action THEN pending \union {e} ELSE pending \ {e}
    /\ Goto(r, "commit", copy[r].row)
    /\ UNCHANGED <<user, otp, session, spoiled, caches>>

\* Keycloak gives no tokens to an account with a required action.  When it does
\* they are returned whether the transaction that follows succeeds or not.
Authenticate(r) ==
    /\ Reads(r, "authenticate")
    /\ IF call[r].id \in pending
       THEN UNCHANGED session /\ Return(r)
       ELSE session' = session \union {call[r].id} /\ Goto(r, "commit", copy[r])
    /\ UNCHANGED <<keycloak, pending, user, otp, spoiled, caches>>

\* A wrong password, or Keycloak fails: the handler returns, nothing is undone.
KeycloakFails(r) ==
    /\ pc[r] \in {"create", "password", "confirm", "writeback", "authenticate"}
    /\ Fault("remote")
    /\ Return(r)
    /\ CutShort(r)
    /\ UNCHANGED <<overlap, sent, stored, commits>>

AfterCommit(c) ==
    CASE c.op = "signup"                     -> "otp"
      [] c.op = "rename" /\ c.key # NoKey    -> "store"
      [] OTHER                               -> "done"

\* INSERT by Signup; the others UPDATE every column from their copy.
Commit(r) ==
    LET c == call[r] IN
    /\ Commits(r)
    /\ user' = [user EXCEPT ![c.id] = copy[r]]
    /\ Goto(r, AfterCommit(c), NoCopy)
    /\ UNCHANGED <<keycloak, pending, otp, session, spoiled, caches>>

\* After the commit: the code that the mail will carry goes to Redis.
SaveOTP(r) ==
    /\ Reads(r, "otp")
    /\ otp' = otp \union {call[r].id}
    /\ Goto(r, IF call[r].key = NoKey THEN "done" ELSE "store", NoCopy)
    /\ UNCHANGED <<keycloak, pending, user, session, spoiled, caches>>

SaveOTPFails(r) ==
    /\ pc[r] = "otp"
    /\ Fault("redis")
    /\ Return(r)
    /\ CutShort(r)
    /\ UNCHANGED <<overlap, sent, stored, commits>>

\* The event that makes a mailer send the link; its error is dropped.
SendReset(r) ==
    /\ Reads(r, "mail")
    /\ mails' = [mails EXCEPT ![call[r].id] = @ + 1]
    /\ Goto(r, "count", copy[r])
    /\ UNCHANGED <<accounts, profile, attempts, spoiled>>

\* ForgotPassword takes any error of FindByEmail for an unknown address.
SendResetFails(r) ==
    /\ pc[r] \in {"find", "mail"}
    /\ call[r].op = "forgot"
    /\ Fault("db")
    /\ Goto(r, "count", copy[r])
    /\ UNCHANGED <<overlap, sent, stored, commits, accounts, caches, spoiled>>

\* Mutant: the counter is set to one.
CountAttemptOnce(r) ==
    /\ Reads(r, "count")
    /\ attempts' = [attempts EXCEPT ![call[r].id] = 1]
    /\ Return(r)
    /\ UNCHANGED <<accounts, profile, mails, spoiled>>

\* Set, not Incr: the value read on arrival plus one.
CountAttempt(r) ==
    /\ Reads(r, "count")
    /\ attempts' = [attempts EXCEPT ![call[r].id] = copy[r].attempts + 1]
    /\ Return(r)
    /\ UNCHANGED <<accounts, profile, mails, spoiled>>

CountFails(r) ==
    /\ pc[r] = "count"
    /\ Fault("redis")
    /\ Return(r)
    /\ UNCHANGED <<overlap, sent, stored, commits, accounts, caches, spoiled>>

FillProfile(r) ==
    /\ Reads(r, "fill")
    /\ profile' = [profile EXCEPT ![call[r].id] = copy[r]]
    /\ Return(r)
    /\ UNCHANGED <<accounts, attempts, mails, spoiled>>

\* Ten minutes for a code, five for a profile, fifteen for a counter.
Expire(e) ==
    /\ \/ /\ e \in otp
          /\ otp' = otp \ {e} /\ spoiled' = spoiled \union {e}
          /\ UNCHANGED <<profile, attempts, mails>>
       \/ /\ profile[e] # NoUser
          /\ profile' = [profile EXCEPT ![e] = NoUser]
          /\ UNCHANGED <<otp, spoiled, attempts, mails>>
       \/ /\ attempts[e] > 0
          /\ attempts' = [attempts EXCEPT ![e] = 0] /\ mails' = [mails EXCEPT ![e] = 0]
          /\ UNCHANGED <<otp, spoiled, profile>>
    /\ UNCHANGED <<keycloak, pending, user, session, frameVars>>

\* An administrator of Keycloak, or a realm that does not enforce it, lifts the
\* required action; identity-svc itself never does.
ClearAction(e) ==
    /\ e \in pending
    /\ pending' = pending \ {e}
    /\ UNCHANGED <<keycloak, user, otp, session, spoiled, caches, frameVars>>

------------------------------------------------------------------------------

Arrival(r) ==
    \E e \in Emails, up \in BOOLEAN :
        \/ \E k \in Keys \union {NoKey} : Signup(r, e, k, up)
        \/ \E k \in Keys \union {NoKey}, n \in Names : UpdateProfile(r, e, n, k, up)
        \/ \E right \in BOOLEAN : VerifyEmail(r, e, right, up)
        \/ Login(r, e)
        \/ GetProfile(r, e, up)
        \/ ForgotPassword(r, e, up)

Step(r) ==
    \/ FindUser(r) \/ FindLogin(r) \/ Refused(r)
    \/ CreateUser(r) \/ SetPassword(r) \/ KeycloakFails(r)
    \/ ConfirmEmail(r) \/ WriteAccount(r) \/ Authenticate(r)
    \/ Commit(r)
    \/ SaveOTP(r) \/ SaveOTPFails(r)
    \/ SendReset(r) \/ SendResetFails(r) \/ CountAttempt(r) \/ CountFails(r)
    \/ FillProfile(r)
    \/ StoreKey(r, "done") /\ UNCHANGED <<accounts, caches, spoiled>>
    \/ /\ CutShort(r)
       /\ \/ StoreFails(r, "done")
          \/ CacheFails(r)
          \/ call[r].op # "forgot" /\ DatabaseFails(r)
          \/ Abandon(r)

Next ==
    \/ \E e \in Emails : Expire(e) \/ ClearAction(e)
    \/ \E r \in Requests : Arrival(r) \/ Step(r)

Spec == Init /\ [][Next]_vars

------------------------------------------------------------------------------
(***************************************************************************)
(* Properties.                                                             *)
(***************************************************************************)

\* What the owner of an address can still do with it.
CanSignUp(e) == ~user[e].stored /\ keycloak[e] = "absent"

CanVerify(e) == user[e].stored /\ ~user[e].verified /\ e \in otp

Confirmed(e) == user[e].verified /\ keycloak[e] = "verified"

\* When no call is under way, the addresses that can neither be signed up nor be
\* verified, and are not confirmed either, are exactly those whose code expired or
\* met a wrong guess, or whose Signup or VerifyEmail was cut short midway, by an
\* error of PostgreSQL, Redis or Keycloak or by its own end.  So each of these
\* strands its address for good (Signup does not undo what it created at Keycloak,
\* the code is gone before it is compared, nothing sends a second one), and nothing
\* else does: no overlap of calls, and no other fault.  A confirmed address is not
\* yet one that can log in: Authenticate refuses it while Keycloak's required
\* action is pending, and nothing in identity-svc clears that.
StrandedAccounted ==
    Quiescent => \A e \in Emails :
        e \in spoiled <=> ~CanSignUp(e) /\ ~CanVerify(e) /\ ~Confirmed(e)

\* A verified address stays verified, at Keycloak and in its cached profile too, although
\* Login and UpdateProfile write the whole row back, and GetProfile caches it,
\* from a copy that an overlapping VerifyEmail may have made stale: they are only
\* open to accounts whose copy is verified.
VerificationIsFinal ==
    [][\A e \in Emails :
        user[e].verified => /\ user'[e].verified /\ keycloak'[e] = "verified"
                            /\ profile'[e] # NoUser => profile'[e].verified]_vars

\* Within the life of a counter no more than ResetLimit mails go to an address
\* when its calls do not overlap, plus one for each call that died before it
\* counted, and ResetLimit for each failed read, which starts the count again.
\* Overlapping calls have no bound: the counter is read, then set, so that a slow
\* call sets it back.
ResetMailsBounded ==
    Serial => \A e \in Emails :
        mails[e] <= ResetLimit * (1 + faults["redis"]) + faults["abandon"]
==============================================================================
