---------------------------- MODULE IdentityProofs ----------------------------
(***************************************************************************)
(* Proofs about Identity, for any number of requests, addresses and keys.  *)
(*                                                                         *)
(* An address is created at Keycloak once, by one Signup; its row follows  *)
(* and is verified after Keycloak is.  Everyone who writes a row back from *)
(* a copy read it verified, so that no overlap undoes a verification.      *)
(* Every address is in one of three states: it can be used, one request is *)
(* midway with it, or it is spoiled, and a step moves it from one to       *)
(* another.                                                                *)
(***************************************************************************)
EXTENDS Identity, HandlersProofs

Verified(x) == x \in Users /\ x.stored /\ x.verified

TablesOK ==
    /\ keycloak \in [Emails -> {"absent", "bare", "unverified", "verified"}]
    /\ user \in [Emails -> Users]
    /\ profile \in [Emails -> Users]
    /\ attempts \in [Emails -> Nat]
    /\ mails \in [Emails -> Nat]

\* What a request in flight can be at, by its operation.
Placed(c, at) ==
    /\ c.op \in {"signup", "verify", "login", "rename", "profile", "forgot"}
    /\ c.id \in Emails
    /\ c.op = "rename" => c.name \in Names
    /\ c.op = "signup" => at \in {"find", "create", "password", "commit", "otp", "store"}
    /\ c.op = "verify" => at \in {"find", "confirm", "writeback", "commit"}
    /\ c.op = "login" => at \in {"find", "authenticate", "commit"}
    /\ c.op = "rename" => at \in {"find", "commit", "store"}
    /\ c.op = "profile" => at \in {"find", "fill"}
    /\ c.op = "forgot" => at \in {"find", "mail", "count"}

\* What the request relies on there: nobody undoes what it has read.
Relies(c, at, x) ==
    LET e == c.id IN
    /\ c.op = "signup" =>
          /\ at = "password" => keycloak[e] = "bare" /\ ~user[e].stored
          /\ at = "commit" => /\ keycloak[e] = "unverified" /\ ~user[e].stored
                              /\ x \in Users /\ x.stored /\ ~x.verified
          /\ at = "otp" => user[e].stored
    /\ c.op = "verify" =>
          /\ user[e].stored
          /\ at \in {"confirm", "commit"} => Verified(x)
          /\ at = "writeback" => Verified(x.row)
          /\ at = "commit" => keycloak[e] = "verified"
    /\ (c.op = "login" /\ at # "find") => user[e].verified /\ Verified(x)
    /\ c.op = "rename" => user[e].verified /\ (at = "commit" => Verified(x))
    /\ c.op = "profile" => user[e].verified /\ (at = "fill" => Verified(x))
    /\ c.op = "forgot" => x.attempts \in Nat /\ x.attempts < ResetLimit

CallOK(r) == InFlight(r) => Placed(call[r], pc[r]) /\ Relies(call[r], pc[r], copy[r])

CallInv == \A r \in Requests : CallOK(r)

\* The two places of an account, and what is derived from them.
RowOK(e) ==
    /\ user[e].stored => keycloak[e] \in {"unverified", "verified"}
    /\ user[e].verified => user[e].stored /\ keycloak[e] = "verified"
    /\ e \in otp => user[e].stored
    /\ e \in session => user[e].verified
    /\ profile[e] # NoUser => profile[e].verified

RowInv == \A e \in Emails : RowOK(e)

\* One Signup at a time gets past Keycloak with an address.
Signing(r, e) ==
    pc[r] \in {"password", "commit"} /\ call[r].op = "signup" /\ call[r].id = e

OneSignup ==
    \A e \in Emails : \A q, r \in Requests : Signing(q, e) /\ Signing(r, e) => q = r

\* The mails that failed reads and lost counts allow for.
Slack == ResetLimit * faults["redis"] + faults["abandon"]

Asking(r, e) == pc[r] \in {"find", "mail"} /\ call[r].op = "forgot" /\ call[r].id = e

Counting(r, e) == pc[r] = "count" /\ call[r].op = "forgot" /\ call[r].id = e

\* The counter keeps up with the mails, but for the one not counted yet; so does
\* the value that a request read.
MailOK(e) ==
    /\ attempts[e] <= ResetLimit
    /\ (\A r \in Requests : ~Counting(r, e)) => mails[e] <= attempts[e] + Slack
    /\ \A r \in Requests :
          /\ Asking(r, e) => mails[e] <= copy[r].attempts + Slack
          /\ Counting(r, e) => /\ mails[e] <= attempts[e] + Slack + 1
                               /\ mails[e] <= copy[r].attempts + Slack + 1

MailInv == Serial => \A e \in Emails : MailOK(e)

\* What an address can be used for, and who is midway with it.
Usable(e) == CanSignUp(e) \/ CanVerify(e) \/ Confirmed(e)

WorksOn(r, e) == Midway(r) /\ call[r].id = e

\* An address is usable, spoiled or in the hands of one request, and only one of these.
Fate(e) ==
    /\ Usable(e) \/ e \in spoiled \/ \E r \in Requests : WorksOn(r, e)
    /\ Usable(e) => e \notin spoiled /\ \A r \in Requests : ~WorksOn(r, e)
    /\ e \in spoiled => \A r \in Requests : ~WorksOn(r, e)
    /\ \A q, r \in Requests : WorksOn(q, e) /\ WorksOn(r, e) => q = r
    /\ e \in otp => ~user[e].verified

StrandInv == \A e \in Emails : Fate(e)

AccountInv == FrameInv /\ TablesOK /\ CallInv /\ RowInv /\ OneSignup

IdentityInv == AccountInv /\ MailInv /\ StrandInv

------------------------------------------------------------------------------
(***************************************************************************)
(* What a step of request r does, all of it about one address e.           *)
(***************************************************************************)

\* Nothing about the address f changes.
Same(f) ==
    /\ keycloak'[f] = keycloak[f] /\ user'[f] = user[f] /\ profile'[f] = profile[f]
    /\ attempts'[f] = attempts[f] /\ mails'[f] = mails[f]
    /\ (f \in otp' <=> f \in otp) /\ (f \in session' <=> f \in session)

\* What other requests rely on is not undone.
Stable(r, e) ==
    /\ user[e].stored => user'[e].stored
    /\ user[e].verified => user'[e].verified
    /\ (user[e].stored /\ keycloak[e] = "verified") => keycloak'[e] = "verified"
    /\ (keycloak'[e] = keycloak[e] /\ user'[e].stored = user[e].stored)
       \/ \A q \in Requests : q # r => ~Signing(q, e)

\* The counters of ForgotPassword: a step of another operation or the end of a
\* call, the arrival, a step without a mail, the mail, the count.
CountersMove(r, e) ==
    \/ /\ mails'[e] = mails[e] /\ attempts'[e] = attempts[e]
       /\ ~Asking(r, e)' /\ ~Counting(r, e)'
       /\ Counting(r, e) => Slack < Slack'
    \/ /\ mails'[e] = mails[e] /\ attempts'[e] = attempts[e]
       /\ ~Asking(r, e) /\ ~Counting(r, e) /\ Asking(r, e)'
       /\ copy'[r].attempts = attempts[e] \/ (copy'[r].attempts = 0 /\ Slack' = Slack + ResetLimit)
    \/ /\ mails'[e] \in {mails[e], mails[e] + 1} /\ attempts'[e] = attempts[e]
       /\ Asking(r, e) /\ copy'[r] = copy[r]
       /\ Counting(r, e)' \/ (Asking(r, e)' /\ mails'[e] = mails[e])
    \/ /\ mails'[e] = mails[e] /\ attempts'[e] = copy[r].attempts + 1
       /\ Counting(r, e) /\ ~InFlight(r)'

\* The fate of an address: as it was, taken in hand, spoiled, or usable again.
FateMoves(r, e) ==
    /\ \/ /\ Usable(e)' <=> Usable(e)
          /\ WorksOn(r, e)' <=> WorksOn(r, e)
          /\ e \in spoiled' <=> e \in spoiled
       \/ /\ Usable(e) /\ ~Usable(e)' /\ WorksOn(r, e)'
          /\ e \in spoiled' <=> e \in spoiled
       \/ /\ \/ WorksOn(r, e) /\ (Usable(e)' <=> Usable(e))
             \/ Usable(e) /\ ~Usable(e)'
          /\ ~WorksOn(r, e)' /\ e \in spoiled'
       \/ /\ WorksOn(r, e) /\ ~WorksOn(r, e)' /\ Usable(e)'
          /\ e \in spoiled' <=> e \in spoiled
    /\ (e \in otp' /\ user'[e].verified) =>
          \/ e \in otp /\ user[e].verified
          \/ WorksOn(r, e) /\ (e \in otp \/ user[e].verified)

OnlyMoves(r) ==
    \A q \in Requests : q # r => pc'[q] = pc[q] /\ call'[q] = call[q] /\ copy'[q] = copy[q]

Move(r, e) ==
    /\ OnlyMoves(r) /\ FrameInv' /\ overlap' = overlap /\ TablesOK'
    /\ InFlight(r) \/ (Serial => \A q \in Requests : ~InFlight(q))
    /\ InFlight(r) => call[r].id = e
    /\ InFlight(r)' => call'[r].id = e
    /\ CallOK(r)' /\ RowOK(e)' /\ Stable(r, e)
    /\ \A f \in Emails : f # e => Same(f) /\ (f \in spoiled' <=> f \in spoiled)
    /\ Signing(r, e)' => \A q \in Requests : q # r => ~Signing(q, e)
    /\ Slack <= Slack' /\ CountersMove(r, e) /\ FateMoves(r, e)

\* The faults, as the bound on mails counts them.
LEMMA Counters ==
    ASSUME FrameInv
    PROVE  /\ Slack \in Nat
           /\ faults' = faults => Slack' = Slack
           /\ \A f \in Faults : Fault(f) =>
                 /\ Slack <= Slack'
                 /\ f = "redis" => Slack' = Slack + ResetLimit
                 /\ f = "abandon" => Slack' = Slack + 1
  <1>1. /\ faults \in [Faults -> Nat] /\ ResetLimit \in Nat
    BY IdentityAssumption DEF FrameInv
  <1>2. faults["redis"] \in Nat /\ faults["abandon"] \in Nat
    BY <1>1 DEF Faults
  <1>3. \A n \in Nat : ResetLimit * n \in Nat /\ ResetLimit * (n + 1) = ResetLimit * n + ResetLimit
    BY <1>1
  <1>4. Slack \in Nat
    BY <1>1, <1>2, <1>3 DEF Slack
  <1>5. faults' = faults => Slack' = Slack
    BY DEF Slack
  <1>6. ASSUME NEW f \in Faults, Fault(f)
        PROVE  /\ Slack <= Slack'
               /\ f = "redis" => Slack' = Slack + ResetLimit
               /\ f = "abandon" => Slack' = Slack + 1
    <2>1. \A g \in Faults : faults'[g] = IF g = f THEN faults[g] + 1 ELSE faults[g]
      BY <1>1, <1>6 DEF Fault
    <2>2. /\ faults'["redis"] = IF "redis" = f THEN faults["redis"] + 1 ELSE faults["redis"]
          /\ faults'["abandon"] = IF "abandon" = f THEN faults["abandon"] + 1 ELSE faults["abandon"]
      BY <2>1 DEF Faults
    <2> DEFINE p == ResetLimit * faults["redis"]
    <2>4. p \in Nat /\ ResetLimit * (faults["redis"] + 1) = p + ResetLimit
      BY <1>2, <1>3
    <2>5. ResetLimit * faults'["redis"] = IF f = "redis" THEN p + ResetLimit ELSE p
      BY <2>2, <2>4
    <2>6. Slack = p + faults["abandon"]
      BY DEF Slack
    <2> HIDE DEF p
    <2>7. Slack' = (IF f = "redis" THEN p + ResetLimit ELSE p) + faults'["abandon"]
      BY <2>5 DEF Slack
    <2>8. QED
      BY <1>1, <1>2, <2>2, <2>4, <2>6, <2>7
  <1>7. QED
    BY <1>4, <1>5, <1>6

\* A request in flight goes on at s with x.
Advance(r, s, x) ==
    /\ OnlyMoves(r) /\ FrameInv' /\ overlap' = overlap /\ InFlight(r)
    /\ pc'[r] = s
    /\ s # "done" => call'[r] = call[r] /\ copy'[r] = x

LEMMA ReadAdvances ==
    ASSUME AccountInv, NEW r \in Requests, NEW at, NEW s, NEW x, Reads(r, at), Goto(r, s, x),
           at \notin {"idle", "done"}, s = "store" => call[r].key # NoKey
    PROVE  Advance(r, s, x) /\ pc[r] = at /\ faults' = faults
  <1>0. FrameInv
    BY DEF AccountInv
  <1>1. FrameInv' /\ overlap' = overlap /\ InFlight(r)
    BY <1>0, ReadStep
  <1>2. pc[r] = at /\ faults' = faults
    BY DEF Reads
  <1>3. QED
    BY <1>0, <1>1, <1>2, GotoEffect DEF Advance, OnlyMoves

LEMMA FaultAdvances ==
    ASSUME AccountInv, NEW r \in Requests, NEW f \in Faults, Fault(f), NEW s, NEW x,
           Goto(r, s, x), InFlight(r), UNCHANGED <<overlap, stored, commits>>, s # "store"
    PROVE  Advance(r, s, x)
  <1>0. FrameInv
    BY DEF AccountInv
  <1>1. FrameInv'
    BY <1>0, FaultStep
  <1>2. QED
    BY <1>0, <1>1, GotoEffect DEF Advance, OnlyMoves

\* A step that leaves tables and caches alone.
LEMMA Kept ==
    ASSUME AccountInv, UNCHANGED accounts, UNCHANGED caches
    PROVE  /\ TablesOK'
           /\ \A f \in Emails : Same(f) /\ RowOK(f)' /\ (Usable(f)' <=> Usable(f))
           /\ \A c, at, x : (Relies(c, at, x))' <=> Relies(c, at, x)
           /\ \A r \in Requests, e \in Emails : Stable(r, e)
  <1>1. UNCHANGED <<keycloak, user, otp, session, profile, attempts, mails>>
    BY DEF accounts, caches
  <1>2. TablesOK' /\ \A f \in Emails : RowOK(f)'
    BY <1>1 DEF AccountInv, TablesOK, RowInv, RowOK
  <1>3. \A f \in Emails : Same(f) /\ (Usable(f)' <=> Usable(f))
    BY <1>1 DEF Same, Usable, CanSignUp, CanVerify, Confirmed
  <1>4. \A c, at, x : (Relies(c, at, x))' <=> Relies(c, at, x)
    BY <1>1 DEF Relies
  <1>5. \A r \in Requests, e \in Emails : Stable(r, e)
    BY <1>1 DEF Stable
  <1>6. QED
    BY <1>1, <1>2, <1>3, <1>4, <1>5

\* Such a step makes a move when the request may be at s with x, and its address is
\* spoiled if that leaves it half done.
LEMMA QuietMoves ==
    ASSUME AccountInv, NEW r \in Requests, NEW e \in Emails, call[r].id = e, NEW s, NEW x,
           Advance(r, s, x), UNCHANGED accounts, UNCHANGED caches, WorksOn(r, e)' => WorksOn(r, e),
           \A f \in Emails : f \in spoiled' <=> f \in spoiled \/ (WorksOn(r, f) /\ ~WorksOn(r, f)'),
           s # "done" => /\ Placed(call[r], s) /\ Relies(call[r], s, x)
                         /\ call[r].op = "signup" => s \notin {"password", "commit"}
                         /\ call[r].op = "forgot" => pc[r] # "count" /\ x = copy[r],
           \/ faults' = faults /\ pc[r] # "count"
           \/ \E f \in Faults : /\ Fault(f)
                                /\ pc[r] = "count" => f \in {"redis", "abandon"}
    PROVE  Move(r, e)
  <1>0. FrameInv /\ TablesOK /\ CallInv
    BY DEF AccountInv
  <1>1. /\ OnlyMoves(r) /\ FrameInv' /\ overlap' = overlap /\ InFlight(r)
        /\ pc'[r] = s /\ (s # "done" => call'[r] = call[r] /\ copy'[r] = x)
    BY DEF Advance
  <1>2. /\ TablesOK' /\ RowOK(e)' /\ Stable(r, e)
        /\ \A f \in Emails : Same(f)
        /\ Usable(e)' <=> Usable(e)
    BY Kept
  <1>3. CallOK(r)'
    <2>1. s # "done" => Relies(call'[r], pc'[r], copy'[r]) /\ Placed(call'[r], pc'[r])
      BY <1>1
    <2>2. s # "done" => (Relies(call[r], pc[r], copy[r]))'
      BY <2>1 DEF Relies, accounts, caches
    <2>3. QED
      BY <1>1, <2>1, <2>2 DEF CallOK, InFlight
  <1>4. Slack <= Slack' /\ (pc[r] = "count" => Slack < Slack')
    <2>0. ResetLimit \in Nat /\ ResetLimit > 0 /\ Slack \in Nat
      BY <1>0, Counters, IdentityAssumption
    <2>1. CASE faults' = faults /\ pc[r] # "count"
      BY <1>0, <2>0, <2>1, Counters
    <2>2. CASE \E f \in Faults : Fault(f) /\ (pc[r] = "count" => f \in {"redis", "abandon"})
      <3>1. PICK f \in Faults : Fault(f) /\ (pc[r] = "count" => f \in {"redis", "abandon"})
        BY <2>2
      <3>2. /\ Slack <= Slack'
            /\ f = "redis" => Slack' = Slack + ResetLimit
            /\ f = "abandon" => Slack' = Slack + 1
        BY <1>0, <3>1, Counters
      <3>3. QED
        BY <2>0, <3>1, <3>2
    <2>3. QED
      BY <2>1, <2>2
  <1>5. CountersMove(r, e)
    <2>1. mails'[e] = mails[e] /\ attempts'[e] = attempts[e]
      BY <1>2 DEF Same
    <2>2. CASE s = "done" \/ call[r].op # "forgot"
      BY <1>1, <1>4, <2>1, <2>2 DEF CountersMove, Asking, Counting
    <2>3. CASE s # "done" /\ call[r].op = "forgot"
      <3>1. pc[r] \in {"find", "mail"} /\ s \in {"find", "mail", "count"}
        BY <1>0, <1>1, <2>3 DEF CallInv, CallOK, Placed
      <3>2. Asking(r, e) /\ copy'[r] = copy[r] /\ (Counting(r, e)' \/ Asking(r, e)')
        BY <1>1, <2>3, <3>1 DEF Asking, Counting
      <3>3. QED
        BY <2>1, <3>2 DEF CountersMove
    <2>4. QED
      BY <2>2, <2>3
  <1>6. /\ InFlight(r)' => call'[r].id = e
        /\ ~Signing(r, e)'
    BY <1>1 DEF InFlight, Signing
  <1>7. FateMoves(r, e)
    <2>1. e \in spoiled' <=> e \in spoiled \/ (WorksOn(r, e) /\ ~WorksOn(r, e)')
      OBVIOUS
    <2>2. (e \in otp' <=> e \in otp) /\ user'[e] = user[e]
      BY <1>2 DEF Same
    <2>3. QED
      BY <1>2, <2>1, <2>2 DEF FateMoves
  <1>8. \A f \in Emails : f # e => (f \in spoiled' <=> f \in spoiled)
    BY DEF WorksOn
  <1>9. QED
    BY <1>1, <1>2, <1>3, <1>4, <1>5, <1>6, <1>7, <1>8 DEF Move

LEMMA FindShape ==
    ASSUME AccountInv, NEW r \in Requests, NEW e \in Emails, call[r].id = e,
           FindUser(r) \/ FindLogin(r) \/ Refused(r)
    PROVE  Move(r, e)
  <1>0. FrameInv /\ TablesOK /\ CallInv /\ RowOK(e) /\ user[e] \in Users
    BY DEF AccountInv, RowInv, TablesOK
  <1>1. /\ Reads(r, "find") /\ UNCHANGED accounts /\ UNCHANGED caches /\ spoiled' = spoiled
        /\ pc[r] = "find" /\ InFlight(r)
    BY DEF FindUser, FindLogin, Refused, Reads, InFlight
  <1>2. Placed(call[r], "find") /\ Relies(call[r], "find", copy[r])
    BY <1>0, <1>1 DEF CallInv, CallOK
  <1>3. ASSUME NEW s, NEW x, Goto(r, s, x), s # "store",
               s # "done" => /\ Placed(call[r], s) /\ Relies(call[r], s, x)
                             /\ call[r].op = "signup" => s = "create"
                             /\ call[r].op = "forgot" => x = copy[r],
               call[r].op = "verify" => s = "confirm"
        PROVE  Move(r, e)
    <2>1. Advance(r, s, x) /\ faults' = faults
      BY <1>1, <1>3, ReadAdvances
    <2>2. \A f \in Emails : WorksOn(r, f)' <=> WorksOn(r, f)
      <3>1. pc'[r] = s /\ (s # "done" => call'[r] = call[r])
        BY <2>1 DEF Advance
      <3>2. CASE call[r].op = "verify"
        BY <1>1, <1>3, <3>1, <3>2 DEF WorksOn, Midway
      <3>3. CASE call[r].op # "verify"
        BY <1>1, <1>3, <3>1, <3>3 DEF WorksOn, Midway
      <3>4. QED
        BY <3>2, <3>3
    <2>3. QED
      BY <1>1, <1>3, <2>1, <2>2, QuietMoves
  <1>4. CASE FindUser(r)
    <2> DEFINE u == user[e]
    <2>1. ASSUME call[r].op = "signup", Goto(r, "create", NoCopy) PROVE Move(r, e)
      <3>1. Placed(call[r], "create") /\ Relies(call[r], "create", NoCopy)
        BY <1>2, <2>1 DEF Placed, Relies
      <3>2. QED
        BY <1>3, <2>1, <3>1
    <2>2. ASSUME call[r].op = "verify", u.stored, Goto(r, "confirm", [u EXCEPT !.verified = TRUE])
          PROVE  Move(r, e)
      <3> DEFINE x == [u EXCEPT !.verified = TRUE]
      <3>1. Verified(x)
        BY <1>0, <2>2 DEF Verified, Users
      <3> HIDE DEF x
      <3>2. Placed(call[r], "confirm") /\ Relies(call[r], "confirm", x)
        BY <1>2, <2>2, <3>1 DEF Placed, Relies
      <3>3. Goto(r, "confirm", x)
        BY <2>2 DEF x
      <3>4. QED
        BY <1>3, <2>2, <3>2, <3>3
    <2>3. ASSUME call[r].op = "rename", u.stored, Goto(r, "commit", [u EXCEPT !.name = call[r].name])
          PROVE  Move(r, e)
      <3> DEFINE x == [u EXCEPT !.name = call[r].name]
      <3>1. u.verified /\ call[r].name \in Names
        BY <1>2, <2>3 DEF Placed, Relies
      <3>2. Verified(x)
        BY <1>0, <2>3, <3>1 DEF Verified, Users
      <3> HIDE DEF x
      <3>3. Placed(call[r], "commit") /\ Relies(call[r], "commit", x)
        BY <1>2, <2>3, <3>2 DEF Placed, Relies
      <3>4. Goto(r, "commit", x)
        BY <2>3 DEF x
      <3>5. QED
        BY <1>3, <2>3, <3>3, <3>4
    <2>4. ASSUME call[r].op = "profile", u.stored, Goto(r, "fill", u) PROVE Move(r, e)
      <3>1. Verified(u)
        BY <1>0, <1>2, <2>4 DEF Verified, Relies
      <3>2. Placed(call[r], "fill") /\ Relies(call[r], "fill", u)
        BY <1>2, <2>4, <3>1 DEF Placed, Relies
      <3>3. QED
        BY <1>3, <2>4, <3>2
    <2>5. ASSUME call[r].op = "forgot", NEW s \in {"mail", "count"}, Goto(r, s, copy[r])
          PROVE  Move(r, e)
      <3>1. Placed(call[r], s) /\ Relies(call[r], s, copy[r])
        BY <1>2, <2>5 DEF Placed, Relies
      <3>2. QED
        BY <1>3, <2>5, <3>1
    <2>6. QED
      BY <1>4, <2>1, <2>2, <2>3, <2>4, <2>5 DEF FindUser
  <1>5. CASE FindLogin(r)
    <2>1. call[r].op = "login" /\ user[e].verified /\ Goto(r, "authenticate", user[e])
      BY <1>5 DEF FindLogin
    <2>2. Verified(user[e])
      BY <1>0, <2>1 DEF Verified, RowOK
    <2>3. Placed(call[r], "authenticate") /\ Relies(call[r], "authenticate", user[e])
      BY <1>2, <2>1, <2>2 DEF Placed, Relies
    <2>4. QED
      BY <1>3, <2>1, <2>3
  <1>6. CASE Refused(r)
    <2>1. call[r].op # "verify"
      BY <1>2, <1>6 DEF Refused, Relies
    <2>2. Goto(r, "done", NoCopy)
      BY <1>6 DEF Refused, Return
    <2>3. QED
      BY <1>3, <2>1, <2>2
  <1>7. QED
    BY <1>4, <1>5, <1>6

LEMMA FaultShape ==
    ASSUME AccountInv, NEW r \in Requests, NEW e \in Emails, call[r].id = e,
           \/ KeycloakFails(r) \/ SaveOTPFails(r) \/ SendResetFails(r) \/ CountFails(r)
           \/ /\ CutShort(r)
              /\ \/ StoreFails(r, "done")
                 \/ CacheFails(r)
                 \/ call[r].op # "forgot" /\ DatabaseFails(r)
                 \/ Abandon(r)
    PROVE  Move(r, e)
  <1>0. FrameInv /\ CallInv
    BY DEF AccountInv
  <1>1. UNCHANGED accounts /\ UNCHANGED caches /\ UNCHANGED <<overlap, stored, commits>>
    BY DEF KeycloakFails, SaveOTPFails, SendResetFails, CountFails, StoreFails, CacheFails,
           DatabaseFails, Abandon, CutShort
  <1>2. CASE SendResetFails(r)
    <2>1. /\ pc[r] \in {"find", "mail"} /\ call[r].op = "forgot" /\ Fault("db")
          /\ Goto(r, "count", copy[r]) /\ InFlight(r)
      BY <1>2 DEF SendResetFails, InFlight
    <2>2. Placed(call[r], "count") /\ Relies(call[r], "count", copy[r])
      BY <1>0, <2>1 DEF CallInv, CallOK, Placed, Relies
    <2>3. "db" \in Faults
      BY DEF Faults
    <2>4. Advance(r, "count", copy[r])
      BY <1>1, <2>1, <2>3, FaultAdvances
    <2>5. spoiled' = spoiled /\ \A g \in Emails : ~WorksOn(r, g) /\ ~WorksOn(r, g)'
      <3>1. pc'[r] = "count"
        BY <2>4 DEF Advance
      <3>2. QED
        BY <1>2, <2>1, <3>1 DEF SendResetFails, WorksOn, Midway
    <2>6. QED
      BY <1>1, <2>1, <2>2, <2>3, <2>4, <2>5, QuietMoves
  <1>3. ASSUME NEW f \in Faults, Fault(f), InFlight(r), Goto(r, "done", NoCopy),
               pc[r] = "count" => f \in {"redis", "abandon"},
               CutShort(r) \/ (spoiled' = spoiled /\ ~Midway(r))
        PROVE  Move(r, e)
    <2>1. Advance(r, "done", NoCopy)
      BY <1>1, <1>3, FaultAdvances
    <2>2. \A g \in Emails : ~WorksOn(r, g)'
      <3>1. pc'[r] = "done"
        BY <2>1 DEF Advance
      <3>2. QED
        BY <3>1 DEF WorksOn, Midway
    <2>3. \A g \in Emails : g \in spoiled' <=> g \in spoiled \/ WorksOn(r, g)
      BY <1>3 DEF CutShort, WorksOn
    <2>4. QED
      BY <1>1, <1>3, <2>1, <2>2, <2>3, QuietMoves
  <1>4. CASE KeycloakFails(r)
    <2>1. Fault("remote") /\ InFlight(r) /\ Goto(r, "done", NoCopy) /\ pc[r] # "count" /\ CutShort(r)
      BY <1>4 DEF KeycloakFails, InFlight, Return
    <2>2. QED
      BY <1>3, <2>1 DEF Faults
  <1>5. CASE SaveOTPFails(r) \/ CountFails(r)
             \/ (CutShort(r) /\ (StoreFails(r, "done") \/ CacheFails(r)))
    <2>1. /\ Fault("redis") /\ InFlight(r) /\ Goto(r, "done", NoCopy)
          /\ CutShort(r) \/ (spoiled' = spoiled /\ ~Midway(r))
      BY <1>5 DEF SaveOTPFails, CountFails, StoreFails, CacheFails, InFlight, Return, Midway
    <2>2. QED
      BY <1>3, <2>1 DEF Faults
  <1>6. CASE CutShort(r) /\ DatabaseFails(r)
    <2>1. Fault("db") /\ InFlight(r) /\ Goto(r, "done", NoCopy) /\ pc[r] # "count" /\ CutShort(r)
      BY <1>6 DEF DatabaseFails, InFlight, Return
    <2>2. QED
      BY <1>3, <2>1 DEF Faults
  <1>7. CASE CutShort(r) /\ Abandon(r)
    <2>1. Fault("abandon") /\ InFlight(r) /\ Goto(r, "done", NoCopy) /\ CutShort(r)
      BY <1>7 DEF Abandon, Return
    <2>2. QED
      BY <1>3, <2>1 DEF Faults
  <1>8. QED
    BY <1>2, <1>4, <1>5, <1>6, <1>7

LEMMA StoreShape ==
    ASSUME AccountInv, NEW r \in Requests, NEW e \in Emails, call[r].id = e,
           StoreKey(r, "done"), UNCHANGED <<accounts, caches, spoiled>>
    PROVE  Move(r, e)
  <1>0. FrameInv
    BY DEF AccountInv
  <1>1. pc[r] = "store" /\ faults' = faults /\ Goto(r, "done", NoCopy)
    BY DEF StoreKey
  <1>2. FrameInv' /\ overlap' = overlap /\ InFlight(r)
    BY <1>0, StoreStep
  <1>3. Advance(r, "done", NoCopy)
    BY <1>0, <1>1, <1>2, GotoEffect DEF Advance, OnlyMoves
  <1>4. \A f \in Emails : ~WorksOn(r, f) /\ ~WorksOn(r, f)'
    <2>1. pc'[r] = "done"
      BY <1>3 DEF Advance
    <2>2. QED
      BY <1>1, <2>1 DEF WorksOn, Midway
  <1>5. QED
    BY <1>1, <1>3, <1>4, QuietMoves

\* A step of another operation than ForgotPassword that changes the account e.
LEMMA AccountMoves ==
    ASSUME AccountInv, NEW r \in Requests, NEW e \in Emails, call[r].id = e, NEW s, NEW x,
           Advance(r, s, x), faults' = faults, spoiled' = spoiled, TablesOK', RowOK(e)',
           Stable(r, e), call[r].op # "forgot", attempts' = attempts, mails' = mails,
           \A f \in Emails : f # e => Same(f),
           s # "done" => Placed(call[r], s) /\ (Relies(call[r], pc[r], copy[r]))',
           Signing(r, e)' => \A q \in Requests : q # r => ~Signing(q, e),
           FateMoves(r, e)
    PROVE  Move(r, e)
  <1>0. FrameInv /\ TablesOK
    BY DEF AccountInv
  <1>1. /\ OnlyMoves(r) /\ FrameInv' /\ overlap' = overlap /\ InFlight(r)
        /\ pc'[r] = s /\ (s # "done" => call'[r] = call[r] /\ copy'[r] = x)
    BY DEF Advance
  <1>2. CallOK(r)'
    BY <1>1 DEF CallOK, InFlight
  <1>4. Slack <= Slack'
    BY <1>0, Counters
  <1>5. CountersMove(r, e)
    BY <1>1 DEF CountersMove, Asking, Counting
  <1>6. InFlight(r)' => call'[r].id = e
    BY <1>1 DEF InFlight
  <1>7. QED
    BY <1>1, <1>2, <1>4, <1>5, <1>6 DEF Move

\* Signup reaches Keycloak.
LEMMA CreateUserShape ==
    ASSUME AccountInv, NEW r \in Requests, NEW e \in Emails, call[r].id = e, CreateUser(r)
    PROVE  Move(r, e)
  <1>0. FrameInv /\ TablesOK /\ CallInv /\ RowOK(e)
    BY DEF AccountInv, RowInv
  <1>1. Reads(r, "create") /\ pc[r] = "create" /\ InFlight(r)
        /\ UNCHANGED <<user, otp, session, spoiled>> /\ UNCHANGED caches
    BY DEF CreateUser, Reads, InFlight
  <1>2. Placed(call[r], "create") /\ call[r].op = "signup"
    BY <1>0, <1>1 DEF CallInv, CallOK, Placed
  <1>3. CASE keycloak[e] = "absent"
    <2>1. keycloak' = [keycloak EXCEPT ![e] = "bare"] /\ Goto(r, "password", NoCopy)
      BY <1>3 DEF CreateUser
    <2>2. Advance(r, "password", NoCopy) /\ faults' = faults
      BY <1>1, <2>1, ReadAdvances
    <2>3. keycloak'[e] = "bare" /\ \A f \in Emails : f # e => keycloak'[f] = keycloak[f]
      BY <1>0, <2>1 DEF TablesOK
    <2>4. ~user[e].stored /\ ~user[e].verified
      BY <1>0, <1>3 DEF RowOK
    <2>5. TablesOK'
      BY <1>0, <1>1, <2>1 DEF TablesOK, caches
    <2>6. RowOK(e)' /\ \A f \in Emails : f # e => Same(f)
      BY <1>0, <1>1, <2>3, <2>4 DEF RowOK, Same, caches
    <2>7. \A q \in Requests : ~Signing(q, e)
      BY <1>0, <1>3 DEF CallInv, CallOK, InFlight, Signing, Relies
    <2>8. Stable(r, e)
      BY <1>1, <2>4, <2>7 DEF Stable
    <2>9. pc'[r] = "password" /\ call'[r] = call[r]
      BY <2>2 DEF Advance
    <2>10. Placed(call[r], "password") /\ (Relies(call[r], pc[r], copy[r]))'
      BY <1>1, <1>2, <2>3, <2>4, <2>9 DEF Placed, Relies
    <2>11. FateMoves(r, e)
      <3>1. WorksOn(r, e)'
        BY <1>2, <2>9 DEF WorksOn, Midway
      <3>2. Usable(e) /\ ~Usable(e)'
        BY <1>1, <1>3, <2>3, <2>4 DEF Usable, CanSignUp, CanVerify, Confirmed
      <3>3. QED
        BY <1>1, <3>1, <3>2 DEF FateMoves
    <2>12. QED
      BY <1>1, <1>2, <2>2, <2>5, <2>6, <2>7, <2>8, <2>10, <2>11, AccountMoves DEF caches
  <1>4. CASE keycloak[e] # "absent"
    <2>1. Goto(r, "done", NoCopy) /\ UNCHANGED accounts
      BY <1>1, <1>4 DEF CreateUser, Return, accounts
    <2>2. Advance(r, "done", NoCopy) /\ faults' = faults
      BY <1>1, <2>1, ReadAdvances
    <2>3. \A f \in Emails : ~WorksOn(r, f) /\ ~WorksOn(r, f)'
      <3>1. pc'[r] = "done"
        BY <2>2 DEF Advance
      <3>2. QED
        BY <1>1, <3>1 DEF WorksOn, Midway
    <2>4. QED
      BY <1>1, <2>1, <2>2, <2>3, QuietMoves
  <1>5. QED
    BY <1>3, <1>4

LEMMA SetPasswordShape ==
    ASSUME AccountInv, NEW r \in Requests, NEW e \in Emails, call[r].id = e, SetPassword(r)
    PROVE  Move(r, e)
  <1>0. FrameInv /\ TablesOK /\ CallInv /\ RowOK(e) /\ OneSignup
    BY DEF AccountInv, RowInv
  <1> DEFINE x == [NoUser EXCEPT !.stored = TRUE]
  <1>1. /\ Reads(r, "password") /\ pc[r] = "password" /\ InFlight(r)
        /\ keycloak' = [keycloak EXCEPT ![e] = "unverified"] /\ Goto(r, "commit", x)
        /\ UNCHANGED <<user, otp, session, spoiled>> /\ UNCHANGED caches
    BY DEF SetPassword, Reads, InFlight
  <1>2. Placed(call[r], "password") /\ call[r].op = "signup" /\ Relies(call[r], "password", copy[r])
    BY <1>0, <1>1 DEF CallInv, CallOK, Placed
  <1>3. x \in Users /\ x.stored /\ ~x.verified
    BY DEF NoUser, Users
  <1> HIDE DEF x
  <1>4. Advance(r, "commit", x) /\ faults' = faults
    BY <1>1, ReadAdvances
  <1>5. keycloak'[e] = "unverified" /\ \A f \in Emails : f # e => keycloak'[f] = keycloak[f]
    BY <1>0, <1>1 DEF TablesOK
  <1>6. ~user[e].stored /\ ~user[e].verified
    BY <1>0, <1>2 DEF RowOK, Relies
  <1>7. TablesOK'
    BY <1>0, <1>1 DEF TablesOK, caches
  <1>8. RowOK(e)' /\ \A f \in Emails : f # e => Same(f)
    BY <1>0, <1>1, <1>5, <1>6 DEF RowOK, Same, caches
  <1>9. Signing(r, e) /\ \A q \in Requests : q # r => ~Signing(q, e)
    BY <1>0, <1>1, <1>2 DEF OneSignup, Signing
  <1>10. Stable(r, e)
    BY <1>1, <1>6, <1>9 DEF Stable
  <1>11. pc'[r] = "commit" /\ call'[r] = call[r] /\ copy'[r] = x
    BY <1>4 DEF Advance
  <1>12. Placed(call[r], "commit") /\ (Relies(call[r], pc[r], copy[r]))'
    BY <1>1, <1>2, <1>3, <1>5, <1>6, <1>11 DEF Placed, Relies
  <1>13. FateMoves(r, e)
    <2>1. WorksOn(r, e) /\ WorksOn(r, e)'
      BY <1>1, <1>2, <1>11 DEF WorksOn, Midway
    <2>2. keycloak[e] = "bare"
      BY <1>2 DEF Relies
    <2>3. ~Usable(e) /\ ~Usable(e)'
      BY <1>1, <1>5, <1>6, <2>2 DEF Usable, CanSignUp, CanVerify, Confirmed
    <2>4. QED
      BY <1>1, <2>1, <2>3 DEF FateMoves
  <1>14. QED
    BY <1>1, <1>2, <1>4, <1>7, <1>8, <1>9, <1>10, <1>12, <1>13, AccountMoves DEF caches

\* VerifyEmail reads the account at Keycloak and writes it back.
LEMMA ConfirmEmailShape ==
    ASSUME AccountInv, NEW r \in Requests, NEW e \in Emails, call[r].id = e, ConfirmEmail(r)
    PROVE  Move(r, e)
  <1>0. CallInv
    BY DEF AccountInv
  <1> DEFINE x == [row |-> copy[r], action |-> call[r].id \in pending]
  <1>1. /\ Reads(r, "confirm") /\ pc[r] = "confirm" /\ InFlight(r) /\ Goto(r, "writeback", x)
        /\ UNCHANGED accounts /\ UNCHANGED caches /\ spoiled' = spoiled
    BY DEF ConfirmEmail, Reads, InFlight
  <1>2. x.row = copy[r]
    OBVIOUS
  <1> HIDE DEF x
  <1>3. Placed(call[r], "confirm") /\ call[r].op = "verify" /\ Relies(call[r], "confirm", copy[r])
    BY <1>0, <1>1 DEF CallInv, CallOK, Placed
  <1>4. Placed(call[r], "writeback") /\ Relies(call[r], "writeback", x)
    BY <1>2, <1>3 DEF Placed, Relies
  <1>5. Advance(r, "writeback", x) /\ faults' = faults
    BY <1>1, ReadAdvances
  <1>6. \A f \in Emails : WorksOn(r, f) <=> WorksOn(r, f)'
    <2>1. pc'[r] = "writeback" /\ call'[r] = call[r]
      BY <1>5 DEF Advance
    <2>2. QED
      BY <1>1, <1>3, <2>1 DEF WorksOn, Midway
  <1>7. QED
    BY <1>1, <1>3, <1>4, <1>5, <1>6, QuietMoves

LEMMA WriteAccountShape ==
    ASSUME AccountInv, NEW r \in Requests, NEW e \in Emails, call[r].id = e, WriteAccount(r)
    PROVE  Move(r, e)
  <1>0. FrameInv /\ TablesOK /\ CallInv /\ RowOK(e)
    BY DEF AccountInv, RowInv
  <1> DEFINE x == copy[r].row
  <1>1. /\ Reads(r, "writeback") /\ pc[r] = "writeback" /\ InFlight(r)
        /\ keycloak' = [keycloak EXCEPT ![e] = "verified"] /\ Goto(r, "commit", x)
        /\ UNCHANGED <<user, otp, session, spoiled>> /\ UNCHANGED caches
    BY DEF WriteAccount, Reads, InFlight
  <1>2. /\ Placed(call[r], "writeback") /\ call[r].op = "verify"
        /\ Relies(call[r], "writeback", copy[r])
    BY <1>0, <1>1 DEF CallInv, CallOK, Placed
  <1>3. user[e].stored /\ Verified(x)
    BY <1>2 DEF Relies
  <1> HIDE DEF x
  <1>4. Advance(r, "commit", x) /\ faults' = faults
    BY <1>1, ReadAdvances
  <1>5. keycloak'[e] = "verified" /\ \A f \in Emails : f # e => keycloak'[f] = keycloak[f]
    BY <1>0, <1>1 DEF TablesOK
  <1>6. TablesOK'
    BY <1>0, <1>1 DEF TablesOK, caches
  <1>7. RowOK(e)' /\ \A f \in Emails : f # e => Same(f)
    BY <1>0, <1>1, <1>5 DEF RowOK, Same, caches
  <1>8. \A q \in Requests : ~Signing(q, e)
    BY <1>0, <1>3 DEF CallInv, CallOK, InFlight, Signing, Relies
  <1>9. Stable(r, e)
    BY <1>1, <1>5, <1>8 DEF Stable
  <1>10. pc'[r] = "commit" /\ call'[r] = call[r] /\ copy'[r] = x
    BY <1>4 DEF Advance
  <1>11. Placed(call[r], "commit") /\ (Relies(call[r], pc[r], copy[r]))'
    BY <1>1, <1>2, <1>3, <1>5, <1>10 DEF Placed, Relies
  <1>12. WorksOn(r, e) /\ WorksOn(r, e)' /\ ~Signing(r, e)'
    BY <1>1, <1>2, <1>10 DEF WorksOn, Midway, Signing
  <1>13. FateMoves(r, e)
    <2>1. Usable(e)' <=> Usable(e)
      BY <1>0, <1>1, <1>3, <1>5 DEF Usable, CanSignUp, CanVerify, Confirmed, RowOK
    <2>2. QED
      BY <1>1, <1>12, <2>1 DEF FateMoves
  <1>14. QED
    BY <1>1, <1>2, <1>4, <1>6, <1>7, <1>9, <1>11, <1>12, <1>13, AccountMoves DEF caches

LEMMA AuthenticateShape ==
    ASSUME AccountInv, NEW r \in Requests, NEW e \in Emails, call[r].id = e, Authenticate(r)
    PROVE  Move(r, e)
  <1>0. FrameInv /\ TablesOK /\ CallInv /\ RowOK(e)
    BY DEF AccountInv, RowInv
  <1>1. /\ Reads(r, "authenticate") /\ pc[r] = "authenticate" /\ InFlight(r)
        /\ UNCHANGED <<keycloak, user, otp, spoiled>> /\ UNCHANGED caches
    BY DEF Authenticate, Reads, InFlight
  <1>2. Placed(call[r], "authenticate") /\ call[r].op = "login"
        /\ Relies(call[r], "authenticate", copy[r])
    BY <1>0, <1>1 DEF CallInv, CallOK, Placed
  <1>3. user[e].verified /\ Verified(copy[r])
    BY <1>2 DEF Relies
  <1>4. CASE e \in pending
    <2>1. Goto(r, "done", NoCopy) /\ UNCHANGED accounts
      BY <1>1, <1>4 DEF Authenticate, Return, accounts
    <2>2. Advance(r, "done", NoCopy) /\ faults' = faults
      BY <1>1, <2>1, ReadAdvances
    <2>3. \A f \in Emails : ~WorksOn(r, f) /\ ~WorksOn(r, f)'
      <3>1. pc'[r] = "done"
        BY <2>2 DEF Advance
      <3>2. QED
        BY <1>1, <3>1 DEF WorksOn, Midway
    <2>4. QED
      BY <1>1, <2>1, <2>2, <2>3, QuietMoves
  <1>5. CASE e \notin pending
    <2>1. session' = session \union {e} /\ Goto(r, "commit", copy[r])
      BY <1>5 DEF Authenticate
    <2>2. Advance(r, "commit", copy[r]) /\ faults' = faults
      BY <1>1, <2>1, ReadAdvances
    <2>3. TablesOK'
      BY <1>0, <1>1 DEF TablesOK, caches
    <2>4. RowOK(e)' /\ Stable(r, e) /\ \A f \in Emails : f # e => Same(f)
      BY <1>0, <1>1, <1>3, <2>1 DEF RowOK, Same, Stable, caches
    <2>5. pc'[r] = "commit" /\ call'[r] = call[r] /\ copy'[r] = copy[r]
      BY <2>2 DEF Advance
    <2>6. Placed(call[r], "commit") /\ (Relies(call[r], pc[r], copy[r]))'
      BY <1>1, <1>2, <1>3, <2>5 DEF Placed, Relies
    <2>7. ~Signing(r, e)' /\ ~WorksOn(r, e) /\ ~WorksOn(r, e)'
      BY <1>1, <1>2, <2>5 DEF Signing, WorksOn, Midway
    <2>8. FateMoves(r, e)
      <3>1. Usable(e)' <=> Usable(e)
        BY <1>1 DEF Usable, CanSignUp, CanVerify, Confirmed
      <3>2. QED
        BY <1>1, <2>7, <3>1 DEF FateMoves
    <2>9. QED
      BY <1>1, <1>2, <2>2, <2>3, <2>4, <2>6, <2>7, <2>8, AccountMoves DEF caches
  <1>6. QED
    BY <1>4, <1>5

LEMMA SaveOTPShape ==
    ASSUME AccountInv, NEW r \in Requests, NEW e \in Emails, call[r].id = e, SaveOTP(r)
    PROVE  Move(r, e)
  <1>0. FrameInv /\ TablesOK /\ CallInv /\ RowOK(e)
    BY DEF AccountInv, RowInv
  <1> DEFINE s == IF call[r].key = NoKey THEN "done" ELSE "store"
  <1>1. /\ Reads(r, "otp") /\ pc[r] = "otp" /\ InFlight(r)
        /\ otp' = otp \union {e} /\ Goto(r, s, NoCopy)
        /\ UNCHANGED <<keycloak, user, session, spoiled>> /\ UNCHANGED caches
    BY DEF SaveOTP, Reads, InFlight
  <1>2. Placed(call[r], "otp") /\ call[r].op = "signup" /\ Relies(call[r], "otp", copy[r])
    BY <1>0, <1>1 DEF CallInv, CallOK, Placed
  <1>3. user[e].stored
    BY <1>2 DEF Relies
  <1>4. s \in {"done", "store"} /\ (s = "store" => call[r].key # NoKey)
    OBVIOUS
  <1> HIDE DEF s
  <1>5. Advance(r, s, NoCopy) /\ faults' = faults
    BY <1>1, <1>4, ReadAdvances
  <1>6. TablesOK'
    BY <1>0, <1>1 DEF TablesOK, caches
  <1>7. RowOK(e)' /\ Stable(r, e) /\ \A f \in Emails : f # e => Same(f)
    BY <1>0, <1>1, <1>3 DEF RowOK, Same, Stable, caches
  <1>8. pc'[r] = s /\ (s # "done" => call'[r] = call[r])
    BY <1>5 DEF Advance
  <1>9. s # "done" => Placed(call[r], s) /\ (Relies(call[r], pc[r], copy[r]))'
    BY <1>2, <1>4, <1>8 DEF Placed, Relies
  <1>10. ~Signing(r, e)'
    BY <1>4, <1>8 DEF Signing
  <1>11. FateMoves(r, e)
    <2>1. Usable(e)'
      BY <1>0, <1>1, <1>3 DEF Usable, CanVerify, Confirmed, RowOK
    <2>2. WorksOn(r, e) /\ ~WorksOn(r, e)'
      BY <1>1, <1>2, <1>4, <1>8 DEF WorksOn, Midway
    <2>3. QED
      BY <1>1, <2>1, <2>2 DEF FateMoves
  <1>12. QED
    BY <1>1, <1>2, <1>5, <1>6, <1>7, <1>9, <1>10, <1>11, AccountMoves DEF caches

\* The row is written from the copy.
LEMMA CommitShape ==
    ASSUME AccountInv, NEW r \in Requests, NEW e \in Emails, call[r].id = e, Commit(r)
    PROVE  Move(r, e)
  <1>0. FrameInv /\ TablesOK /\ CallInv /\ RowOK(e) /\ OneSignup
    BY DEF AccountInv, RowInv
  <1> DEFINE s == AfterCommit(call[r])
             x == copy[r]
  <1>1. /\ Commits(r) /\ pc[r] = "commit" /\ InFlight(r) /\ faults' = faults
        /\ user' = [user EXCEPT ![e] = x] /\ Goto(r, s, NoCopy)
        /\ UNCHANGED <<keycloak, otp, session, spoiled>> /\ UNCHANGED caches
    BY DEF Commit, Commits, InFlight
  <1>2. Placed(call[r], "commit") /\ call[r].op \in {"signup", "verify", "login", "rename"}
        /\ Relies(call[r], "commit", x)
    BY <1>0, <1>1 DEF CallInv, CallOK, Placed
  <1>3. /\ call[r].op = "signup" => s = "otp"
        /\ call[r].op # "signup" => s \in {"done", "store"}
        /\ s = "store" => call[r].op = "rename" /\ call[r].key # NoKey
    BY <1>2 DEF AfterCommit
  <1>4. /\ x \in Users /\ x.stored
        /\ call[r].op = "signup" => ~user[e].stored /\ ~x.verified /\ keycloak[e] = "unverified"
        /\ call[r].op # "signup" => x.verified /\ user[e].stored /\ keycloak[e] = "verified"
    BY <1>0, <1>2 DEF Relies, Verified, RowOK
  <1> HIDE DEF s, x
  <1>5. s \in {"otp", "done", "store"}
    BY <1>2, <1>3
  <1>6. Advance(r, s, NoCopy)
    <2>1. FrameInv' /\ overlap' = overlap
      BY <1>0, <1>1, <1>3, <1>5, CommitFrame
    <2>2. QED
      BY <1>0, <1>1, <2>1, GotoEffect DEF Advance, OnlyMoves
  <1>7. user'[e] = x /\ \A f \in Emails : f # e => user'[f] = user[f]
    BY <1>0, <1>1 DEF TablesOK
  <1>8. TablesOK'
    BY <1>0, <1>1, <1>4 DEF TablesOK, caches
  <1>9. RowOK(e)'
    BY <1>0, <1>1, <1>4, <1>7 DEF RowOK, caches
  <1>10. \A f \in Emails : f # e => Same(f)
    BY <1>1, <1>7 DEF Same, caches
  <1>11. Stable(r, e)
    <2>1. call[r].op = "signup" => \A q \in Requests : q # r => ~Signing(q, e)
      BY <1>0, <1>1 DEF OneSignup, Signing
    <2>2. user[e].stored \in BOOLEAN /\ x.stored \in BOOLEAN /\ (user[e].verified => user[e].stored)
      BY <1>0, <1>4 DEF TablesOK, Users, RowOK
    <2>3. QED
      BY <1>1, <1>4, <1>7, <2>1, <2>2 DEF Stable
  <1>12. pc'[r] = s /\ (s # "done" => call'[r] = call[r])
    BY <1>6 DEF Advance
  <1>13. s # "done" => Placed(call[r], s) /\ (Relies(call[r], pc[r], copy[r]))'
    BY <1>2, <1>3, <1>4, <1>5, <1>7, <1>12 DEF Placed, Relies
  <1>14. ~Signing(r, e)'
    BY <1>5, <1>12 DEF Signing
  <1>15. FateMoves(r, e)
    <2>1. CASE call[r].op = "signup"
      <3>1. WorksOn(r, e) /\ WorksOn(r, e)'
        BY <1>1, <1>3, <1>12, <2>1 DEF WorksOn, Midway
      <3>2. ~Usable(e) /\ ~Usable(e)' /\ ~user'[e].verified
        BY <1>0, <1>1, <1>4, <1>7, <2>1 DEF Usable, CanSignUp, CanVerify, Confirmed, RowOK
      <3>3. QED
        BY <1>1, <3>1, <3>2 DEF FateMoves
    <2>2. CASE call[r].op = "verify"
      <3>1. WorksOn(r, e) /\ ~WorksOn(r, e)'
        BY <1>1, <1>3, <1>12, <2>2 DEF WorksOn, Midway
      <3>2. Usable(e)'
        BY <1>1, <1>4, <1>7, <2>2 DEF Usable, Confirmed
      <3>3. QED
        BY <1>1, <3>1, <3>2 DEF FateMoves
    <2>3. CASE call[r].op \in {"login", "rename"}
      <3>1. ~WorksOn(r, e) /\ ~WorksOn(r, e)'
        BY <1>3, <1>12, <2>3 DEF WorksOn, Midway
      <3>2. user[e].verified
        BY <1>2, <2>3 DEF Relies
      <3>3. Usable(e) /\ Usable(e)'
        BY <1>1, <1>4, <1>7, <2>3, <3>2 DEF Usable, Confirmed
      <3>4. QED
        BY <1>1, <3>1, <3>2, <3>3 DEF FateMoves
    <2>4. QED
      BY <1>2, <2>1, <2>2, <2>3
  <1>16. QED
    BY <1>1, <1>2, <1>6, <1>8, <1>9, <1>10, <1>11, <1>13, <1>14, <1>15, AccountMoves DEF caches

\* The steps on the caches.
LEMMA CacheShape ==
    ASSUME AccountInv, NEW r \in Requests, NEW e \in Emails, call[r].id = e,
           SendReset(r) \/ CountAttempt(r) \/ FillProfile(r)
    PROVE  Move(r, e)
  <1>0. FrameInv /\ TablesOK /\ CallInv /\ RowOK(e)
    BY DEF AccountInv, RowInv
  <1>1. UNCHANGED <<keycloak, user, otp, session, spoiled>>
    BY DEF SendReset, CountAttempt, FillProfile, accounts
  <1>2. Stable(r, e) /\ (Usable(e)' <=> Usable(e))
        /\ \A c, at, x : (Relies(c, at, x))' <=> Relies(c, at, x)
    BY <1>1 DEF Stable, Usable, CanSignUp, CanVerify, Confirmed, Relies
  <1>3. CASE SendReset(r)
    <2>1. /\ Reads(r, "mail") /\ pc[r] = "mail" /\ InFlight(r) /\ Goto(r, "count", copy[r])
          /\ mails' = [mails EXCEPT ![e] = @ + 1] /\ UNCHANGED <<profile, attempts>>
      BY <1>3 DEF SendReset, Reads, InFlight
    <2>2. Placed(call[r], "mail") /\ call[r].op = "forgot" /\ Relies(call[r], "mail", copy[r])
      BY <1>0, <2>1 DEF CallInv, CallOK, Placed
    <2>3. Advance(r, "count", copy[r]) /\ faults' = faults
      BY <2>1, ReadAdvances
    <2>4. /\ OnlyMoves(r) /\ FrameInv' /\ overlap' = overlap
          /\ pc'[r] = "count" /\ call'[r] = call[r] /\ copy'[r] = copy[r]
      BY <2>3 DEF Advance
    <2>5. mails'[e] = mails[e] + 1 /\ \A f \in Emails : f # e => mails'[f] = mails[f]
      BY <1>0, <2>1 DEF TablesOK
    <2>6. TablesOK'
      BY <1>0, <1>1, <2>1 DEF TablesOK
    <2>7. RowOK(e)' /\ \A f \in Emails : f # e => Same(f)
      BY <1>0, <1>1, <2>1, <2>5 DEF RowOK, Same
    <2>8. CallOK(r)'
      BY <1>1, <2>2, <2>4 DEF CallOK, Placed, Relies
    <2>9. CountersMove(r, e)
      BY <2>1, <2>2, <2>4, <2>5 DEF CountersMove, Asking, Counting
    <2>10. /\ InFlight(r)' => call'[r].id = e
           /\ ~Signing(r, e)' /\ ~WorksOn(r, e) /\ ~WorksOn(r, e)'
      BY <2>1, <2>2, <2>4 DEF Signing, WorksOn, Midway
    <2>11. Slack <= Slack' /\ FateMoves(r, e)
      <3>1. Slack <= Slack'
        BY <1>0, <2>3, Counters
      <3>2. QED
        BY <1>1, <1>2, <2>10, <3>1 DEF FateMoves
    <2>12. QED
      BY <1>1, <1>2, <2>1, <2>4, <2>6, <2>7, <2>8, <2>9, <2>10, <2>11 DEF Move
  <1>4. CASE CountAttempt(r)
    <2>1. /\ Reads(r, "count") /\ pc[r] = "count" /\ InFlight(r) /\ Goto(r, "done", NoCopy)
          /\ attempts' = [attempts EXCEPT ![e] = copy[r].attempts + 1] /\ UNCHANGED <<profile, mails>>
      BY <1>4 DEF CountAttempt, Reads, InFlight, Return
    <2>2. Placed(call[r], "count") /\ call[r].op = "forgot" /\ Relies(call[r], "count", copy[r])
      BY <1>0, <2>1 DEF CallInv, CallOK, Placed
    <2>3. Advance(r, "done", NoCopy) /\ faults' = faults
      BY <2>1, ReadAdvances
    <2>4. OnlyMoves(r) /\ FrameInv' /\ overlap' = overlap /\ pc'[r] = "done"
      BY <2>3 DEF Advance
    <2>5. /\ attempts'[e] = copy[r].attempts + 1 /\ copy[r].attempts \in Nat
          /\ \A f \in Emails : f # e => attempts'[f] = attempts[f]
      BY <1>0, <2>1, <2>2 DEF TablesOK, Relies
    <2>6. TablesOK'
      BY <1>0, <1>1, <2>1, <2>5 DEF TablesOK
    <2>7. RowOK(e)' /\ \A f \in Emails : f # e => Same(f)
      BY <1>0, <1>1, <2>1, <2>5 DEF RowOK, Same
    <2>8. ~InFlight(r)' /\ CallOK(r)' /\ ~Signing(r, e)' /\ ~WorksOn(r, e) /\ ~WorksOn(r, e)'
      BY <2>1, <2>4 DEF InFlight, CallOK, Signing, WorksOn, Midway
    <2>9. CountersMove(r, e)
      BY <2>1, <2>2, <2>5, <2>8 DEF CountersMove, Counting
    <2>10. Slack <= Slack' /\ FateMoves(r, e)
      <3>1. Slack <= Slack'
        BY <1>0, <2>3, Counters
      <3>2. QED
        BY <1>1, <1>2, <2>8, <3>1 DEF FateMoves
    <2>11. QED
      BY <1>1, <1>2, <2>1, <2>4, <2>6, <2>7, <2>8, <2>9, <2>10 DEF Move
  <1>5. CASE FillProfile(r)
    <2>1. /\ Reads(r, "fill") /\ pc[r] = "fill" /\ InFlight(r) /\ Goto(r, "done", NoCopy)
          /\ profile' = [profile EXCEPT ![e] = copy[r]] /\ UNCHANGED <<attempts, mails>>
      BY <1>5 DEF FillProfile, Reads, InFlight, Return
    <2>2. Placed(call[r], "fill") /\ call[r].op = "profile" /\ Relies(call[r], "fill", copy[r])
      BY <1>0, <2>1 DEF CallInv, CallOK, Placed
    <2>3. Advance(r, "done", NoCopy) /\ faults' = faults
      BY <2>1, ReadAdvances
    <2>4. pc'[r] = "done"
      BY <2>3 DEF Advance
    <2>5. /\ profile'[e] = copy[r] /\ Verified(copy[r])
          /\ \A f \in Emails : f # e => profile'[f] = profile[f]
      BY <1>0, <2>1, <2>2 DEF TablesOK, Relies
    <2>6. TablesOK'
      BY <1>0, <1>1, <2>1, <2>5 DEF TablesOK, Verified
    <2>7. RowOK(e)' /\ \A f \in Emails : f # e => Same(f)
      BY <1>0, <1>1, <2>1, <2>5 DEF RowOK, Same, Verified
    <2>8. ~Signing(r, e)' /\ FateMoves(r, e)
      <3>1. ~Signing(r, e)' /\ ~WorksOn(r, e) /\ ~WorksOn(r, e)'
        BY <2>1, <2>4 DEF Signing, WorksOn, Midway
      <3>2. QED
        BY <1>1, <1>2, <3>1 DEF FateMoves
    <2>9. QED
      BY <1>1, <1>2, <2>1, <2>2, <2>3, <2>6, <2>7, <2>8, AccountMoves
  <1>6. QED
    BY <1>3, <1>4, <1>5

------------------------------------------------------------------------------
(***************************************************************************)
(* A request arrives.                                                      *)
(***************************************************************************)

\* The frame of an arrival.
LEMMA ArrivesFrame ==
    ASSUME AccountInv, NEW r \in Requests, NEW c, NEW up \in BOOLEAN, NEW asks, NEW s, NEW x,
           Arrives(r, c, up, asks), Continue(r, c, s, x), c.key \in Keys \union {NoKey},
           s \in {"done", "find"}
    PROVE  /\ OnlyMoves(r) /\ FrameInv' /\ overlap' = overlap /\ pc[r] = "idle"
           /\ Serial => \A q \in Requests : ~InFlight(q)
           /\ pc'[r] = s /\ (s # "done" => call'[r] = c /\ copy'[r] = x)
           /\ Slack <= Slack'
           /\ up => Slack' = Slack
           /\ ~up => Slack' = Slack + ResetLimit
  <1>0. FrameInv /\ TablesOK
    BY DEF AccountInv
  <1>1. FrameInv' /\ overlap' = overlap
    BY <1>0, ArrivesStep
  <1>2. /\ pc'[r] = s /\ (s # "done" => call'[r] = c /\ copy'[r] = x)
        /\ OnlyMoves(r)
    BY <1>0, ContinueEffect DEF OnlyMoves
  <1>3. pc[r] = "idle" /\ (IF up THEN faults' = faults ELSE Fault("redis"))
    BY DEF Arrives
  <1>4. Serial => \A q \in Requests : ~InFlight(q)
    BY <1>0, ArrivesAlone
  <1>5. "redis" \in Faults /\ ResetLimit \in Nat /\ Slack \in Nat
    BY <1>0, Counters, IdentityAssumption DEF Faults
  <1>6. /\ up => Slack' = Slack
        /\ ~up => Slack' = Slack + ResetLimit
    BY <1>0, <1>3, <1>5, Counters
  <1>7. QED
    BY <1>1, <1>2, <1>3, <1>4, <1>5, <1>6

\* An arrival that leaves tables and caches alone.
LEMMA ArrivalMoves ==
    ASSUME AccountInv, NEW r \in Requests, NEW e \in Emails, NEW c, c.id = e, NEW up \in BOOLEAN,
           NEW asks, NEW s \in {"done", "find"}, NEW x, Arrives(r, c, up, asks),
           Continue(r, c, s, x), c.key \in Keys \union {NoKey},
           UNCHANGED accounts, UNCHANGED caches, spoiled' = spoiled, c.op # "verify" \/ s = "done",
           s # "done" => /\ Placed(c, "find") /\ Relies(c, "find", x)
                         /\ c.op = "forgot" => \/ up /\ x.attempts = attempts[e]
                                               \/ ~up /\ x.attempts = 0
    PROVE  Move(r, e)
  <1>0. FrameInv /\ TablesOK
    BY DEF AccountInv
  <1>1. /\ OnlyMoves(r) /\ FrameInv' /\ overlap' = overlap /\ pc[r] = "idle"
        /\ Serial => \A q \in Requests : ~InFlight(q)
        /\ pc'[r] = s /\ (s # "done" => call'[r] = c /\ copy'[r] = x)
        /\ Slack <= Slack'
        /\ up => Slack' = Slack
        /\ ~up => Slack' = Slack + ResetLimit
    BY ArrivesFrame
  <1>2. /\ TablesOK' /\ RowOK(e)' /\ Stable(r, e)
        /\ \A f \in Emails : Same(f)
        /\ Usable(e)' <=> Usable(e)
    BY Kept
  <1>3. CallOK(r)'
    <2>1. s # "done" => (Relies(call[r], pc[r], copy[r]))'
      BY <1>1 DEF Relies, accounts, caches
    <2>2. QED
      BY <1>1, <2>1 DEF CallOK, InFlight
  <1>4. /\ ~InFlight(r) /\ (InFlight(r)' => call'[r].id = e) /\ ~Signing(r, e)'
        /\ ~WorksOn(r, e) /\ ~WorksOn(r, e)'
    BY <1>1 DEF InFlight, Signing, WorksOn, Midway
  <1>5. FateMoves(r, e)
    BY <1>2, <1>4 DEF FateMoves, Same
  <1>6. CountersMove(r, e)
    <2>1. mails'[e] = mails[e] /\ attempts'[e] = attempts[e]
      BY <1>2 DEF Same
    <2>2. ~Asking(r, e) /\ ~Counting(r, e) /\ ~Counting(r, e)'
      BY <1>1 DEF Asking, Counting
    <2>3. CASE s = "done" \/ c.op # "forgot"
      <3>1. ~Asking(r, e)'
        BY <1>1, <2>3 DEF Asking
      <3>2. QED
        BY <2>1, <2>2, <3>1 DEF CountersMove
    <2>4. CASE s # "done" /\ c.op = "forgot"
      <3>1. Asking(r, e)'
        BY <1>1, <2>4 DEF Asking
      <3>2. QED
        BY <1>1, <2>1, <2>2, <2>4, <3>1 DEF CountersMove
    <2>5. QED
      BY <2>3, <2>4
  <1>7. QED
    BY <1>1, <1>2, <1>3, <1>4, <1>5, <1>6 DEF Move

\* GETDEL takes the code: the right one goes on, a wrong one spoils the address.
LEMMA VerifyShape ==
    ASSUME AccountInv, NEW r \in Requests, NEW e \in Emails, Fate(e), NEW right \in BOOLEAN,
           NEW up \in BOOLEAN, VerifyEmail(r, e, right, up)
    PROVE  Move(r, e)
  <1>0. FrameInv /\ TablesOK /\ RowOK(e)
    BY DEF AccountInv, RowInv
  <1> DEFINE c == [op |-> "verify", id |-> e, key |-> NoKey]
  <1>1. c.op = "verify" /\ c.id = e /\ c.key = NoKey
    OBVIOUS
  <1>2. Arrives(r, c, up, TRUE) /\ UNCHANGED <<keycloak, user, session>> /\ UNCHANGED caches
    BY DEF VerifyEmail
  <1>3. CASE up /\ e \in otp
    <2> DEFINE s == IF right THEN "find" ELSE "done"
    <2>1. /\ otp' = otp \ {e} /\ spoiled' = (IF right THEN spoiled ELSE spoiled \union {e})
          /\ Continue(r, c, s, NoCopy) /\ s \in {"done", "find"} /\ (right <=> s = "find")
      BY <1>3 DEF VerifyEmail
    <2> HIDE DEF c, s
    <2>2. /\ OnlyMoves(r) /\ FrameInv' /\ overlap' = overlap /\ pc[r] = "idle"
          /\ Serial => \A q \in Requests : ~InFlight(q)
          /\ pc'[r] = s /\ (s # "done" => call'[r] = c)
          /\ Slack <= Slack'
      BY <1>1, <1>2, <1>3, <2>1, ArrivesFrame
    <2>3. user[e].stored /\ ~user[e].verified /\ keycloak[e] # "absent"
      BY <1>0, <1>3 DEF RowOK, Fate
    <2>4. TablesOK'
      BY <1>0, <1>2, <2>1 DEF TablesOK, caches
    <2>5. RowOK(e)' /\ Stable(r, e) /\ \A f \in Emails : f # e => Same(f)
      BY <1>0, <1>2, <2>1 DEF RowOK, Stable, Same, caches
    <2>6. CallOK(r)'
      <3>1. s # "done" => (Placed(call[r], pc[r]))'
        BY <1>1, <2>1, <2>2 DEF Placed
      <3>2. s # "done" => (Relies(call[r], pc[r], copy[r]))'
        BY <1>1, <1>2, <2>1, <2>2, <2>3 DEF Relies
      <3>3. QED
        BY <2>2, <3>1, <3>2 DEF CallOK, InFlight
    <2>7. ~InFlight(r) /\ (InFlight(r)' => call'[r].id = e) /\ ~Signing(r, e)'
      BY <1>1, <2>2 DEF InFlight, Signing
    <2>8. FateMoves(r, e) /\ \A f \in Emails : f # e => (f \in spoiled' <=> f \in spoiled)
      <3>1. Usable(e) /\ ~Usable(e)' /\ e \notin otp'
        BY <1>2, <1>3, <2>1, <2>3 DEF Usable, CanSignUp, CanVerify, Confirmed
      <3>2. /\ right => WorksOn(r, e)'
            /\ ~right => ~WorksOn(r, e)'
        BY <1>1, <2>1, <2>2 DEF WorksOn, Midway
      <3>3. CASE right
        BY <2>1, <3>1, <3>2, <3>3 DEF FateMoves
      <3>4. CASE ~right
        BY <2>1, <3>1, <3>2, <3>4 DEF FateMoves
      <3>5. QED
        BY <3>3, <3>4
    <2>9. CountersMove(r, e)
      BY <1>1, <1>2, <2>2 DEF CountersMove, Asking, Counting, caches
    <2>10. QED
      BY <2>2, <2>4, <2>5, <2>6, <2>7, <2>8, <2>9 DEF Move
  <1>4. CASE ~(up /\ e \in otp)
    <2>1. UNCHANGED accounts /\ spoiled' = spoiled /\ Continue(r, c, "done", NoCopy)
      BY <1>2, <1>4 DEF VerifyEmail, accounts
    <2> HIDE DEF c
    <2>2. QED
      BY <1>1, <1>2, <2>1, ArrivalMoves
  <1>5. QED
    BY <1>3, <1>4

LEMMA ArrivalShape ==
    ASSUME AccountInv, StrandInv, NEW r \in Requests, Arrival(r)
    PROVE  \E e \in Emails : Move(r, e)
  <1>1. PICK e \in Emails, up \in BOOLEAN :
           \/ \E k \in Keys \union {NoKey} : Signup(r, e, k, up)
           \/ \E k \in Keys \union {NoKey}, n \in Names : UpdateProfile(r, e, n, k, up)
           \/ \E right \in BOOLEAN : VerifyEmail(r, e, right, up)
           \/ Login(r, e)
           \/ GetProfile(r, e, up)
           \/ ForgotPassword(r, e, up)
    BY DEF Arrival
  <1>0. RowOK(e) /\ TablesOK /\ Fate(e)
    BY DEF AccountInv, RowInv, StrandInv
  <1>2. ASSUME NEW k \in Keys \union {NoKey}, Signup(r, e, k, up) PROVE Move(r, e)
    <2> DEFINE c == [op |-> "signup", id |-> e, key |-> k]
               s == IF ~up \/ Replayed(k, up) THEN "done" ELSE "find"
    <2>1. c.op = "signup" /\ c.id = e /\ c.key = k
      OBVIOUS
    <2>2. /\ Arrives(r, c, up, k # NoKey) /\ Continue(r, c, s, NoCopy)
          /\ UNCHANGED accounts /\ UNCHANGED caches /\ spoiled' = spoiled
      BY <1>2 DEF Signup
    <2> HIDE DEF c
    <2>3. Placed(c, "find") /\ Relies(c, "find", NoCopy) /\ s \in {"done", "find"}
      BY <2>1 DEF Placed, Relies
    <2> HIDE DEF s
    <2>4. QED
      BY <2>1, <2>2, <2>3, ArrivalMoves
  <1>3. ASSUME NEW k \in Keys \union {NoKey}, NEW n \in Names, UpdateProfile(r, e, n, k, up)
        PROVE  Move(r, e)
    <2> DEFINE c == [op |-> "rename", id |-> e, key |-> k, name |-> n]
               s == IF ~up \/ Replayed(k, up) THEN "done" ELSE "find"
    <2>1. c.op = "rename" /\ c.id = e /\ c.key = k /\ c.name = n
      OBVIOUS
    <2>2. /\ Arrives(r, c, up, k # NoKey) /\ Continue(r, c, s, NoCopy) /\ e \in session
          /\ UNCHANGED accounts /\ UNCHANGED caches /\ spoiled' = spoiled
      BY <1>3 DEF UpdateProfile
    <2> HIDE DEF c
    <2>3. Placed(c, "find") /\ Relies(c, "find", NoCopy) /\ s \in {"done", "find"}
      BY <1>0, <2>1, <2>2 DEF Placed, Relies, RowOK
    <2> HIDE DEF s
    <2>4. QED
      BY <2>1, <2>2, <2>3, ArrivalMoves
  <1>4. ASSUME Login(r, e) PROVE Move(r, e)
    <2> DEFINE c == [op |-> "login", id |-> e, key |-> NoKey]
    <2>1. c.op = "login" /\ c.id = e /\ c.key = NoKey
      OBVIOUS
    <2>2. /\ Arrives(r, c, TRUE, FALSE) /\ Continue(r, c, "find", NoCopy)
          /\ UNCHANGED accounts /\ UNCHANGED caches /\ spoiled' = spoiled
      BY <1>4 DEF Login
    <2> HIDE DEF c
    <2>3. Placed(c, "find") /\ Relies(c, "find", NoCopy)
      BY <2>1 DEF Placed, Relies
    <2>4. QED
      BY <2>1, <2>2, <2>3, ArrivalMoves
  <1>5. ASSUME GetProfile(r, e, up) PROVE Move(r, e)
    <2> DEFINE c == [op |-> "profile", id |-> e, key |-> NoKey]
               s == IF ~up \/ profile[e] # NoUser THEN "done" ELSE "find"
    <2>1. c.op = "profile" /\ c.id = e /\ c.key = NoKey
      OBVIOUS
    <2>2. /\ Arrives(r, c, up, TRUE) /\ Continue(r, c, s, NoCopy) /\ e \in session
          /\ UNCHANGED accounts /\ UNCHANGED caches /\ spoiled' = spoiled
      BY <1>5 DEF GetProfile
    <2> HIDE DEF c
    <2>3. Placed(c, "find") /\ Relies(c, "find", NoCopy) /\ s \in {"done", "find"}
      BY <1>0, <2>1, <2>2 DEF Placed, Relies, RowOK
    <2> HIDE DEF s
    <2>4. QED
      BY <2>1, <2>2, <2>3, ArrivalMoves
  <1>6. ASSUME ForgotPassword(r, e, up) PROVE Move(r, e)
    <2> DEFINE c == [op |-> "forgot", id |-> e, key |-> NoKey]
               n == IF up THEN attempts[e] ELSE 0
               x == [attempts |-> n]
               s == IF n >= ResetLimit THEN "done" ELSE "find"
    <2>1. c.op = "forgot" /\ c.id = e /\ c.key = NoKey /\ x.attempts = n
      OBVIOUS
    <2>2. /\ Arrives(r, c, up, TRUE) /\ Continue(r, c, s, x)
          /\ UNCHANGED accounts /\ UNCHANGED caches /\ spoiled' = spoiled
      BY <1>6 DEF ForgotPassword
    <2> HIDE DEF c, x
    <2>3. n \in Nat /\ ResetLimit \in Nat
      BY <1>0, IdentityAssumption DEF TablesOK
    <2>4. s \in {"done", "find"} /\ (s # "done" => Placed(c, "find") /\ Relies(c, "find", x))
      BY <2>1, <2>3 DEF Placed, Relies
    <2>5. (up /\ x.attempts = attempts[e]) \/ (~up /\ x.attempts = 0)
      BY <2>1
    <2> HIDE DEF s, n
    <2>6. QED
      BY <2>1, <2>2, <2>4, <2>5, ArrivalMoves
  <1>7. QED
    BY <1>0, <1>1, <1>2, <1>3, <1>4, <1>5, <1>6, VerifyShape

LEMMA StepShape ==
    ASSUME AccountInv, NEW r \in Requests, Step(r)
    PROVE  \E e \in Emails : Move(r, e)
  <1>0. CallInv
    BY DEF AccountInv
  <1>1. InFlight(r)
    BY DEF Step, FindUser, FindLogin, Refused, CreateUser, SetPassword, ConfirmEmail, WriteAccount, Authenticate,
           KeycloakFails, Commit, Commits, SaveOTP, SaveOTPFails, SendReset, SendResetFails,
           CountAttempt, CountFails, FillProfile, StoreKey, StoreFails, CacheFails, DatabaseFails,
           Abandon, Reads, InFlight
  <1>2. PICK e \in Emails : call[r].id = e
    BY <1>0, <1>1 DEF CallInv, CallOK, Placed
  <1>3. CASE FindUser(r) \/ FindLogin(r) \/ Refused(r)
    BY <1>2, <1>3, FindShape
  <1>4. CASE CreateUser(r) \/ SetPassword(r) \/ ConfirmEmail(r) \/ WriteAccount(r) \/ Authenticate(r)
    BY <1>2, <1>4, CreateUserShape, SetPasswordShape, ConfirmEmailShape, WriteAccountShape,
       AuthenticateShape
  <1>5. CASE Commit(r) \/ SaveOTP(r)
    BY <1>2, <1>5, CommitShape, SaveOTPShape
  <1>6. CASE SendReset(r) \/ CountAttempt(r) \/ FillProfile(r)
    BY <1>2, <1>6, CacheShape
  <1>7. CASE StoreKey(r, "done") /\ UNCHANGED <<accounts, caches, spoiled>>
    BY <1>2, <1>7, StoreShape
  <1>8. CASE \/ KeycloakFails(r) \/ SaveOTPFails(r) \/ SendResetFails(r) \/ CountFails(r)
             \/ /\ CutShort(r)
                /\ \/ StoreFails(r, "done")
                   \/ CacheFails(r)
                   \/ call[r].op # "forgot" /\ DatabaseFails(r)
                   \/ Abandon(r)
    BY <1>2, <1>8, FaultShape
  <1>9. QED
    BY <1>3, <1>4, <1>5, <1>6, <1>7, <1>8 DEF Step

------------------------------------------------------------------------------
(***************************************************************************)
(* A move keeps the invariant.                                             *)
(***************************************************************************)

LEMMA CountersNext ==
    ASSUME FrameInv'
    PROVE  Slack' \in Nat
  <1>1. faults' \in [Faults -> Nat] /\ ResetLimit \in Nat
    BY IdentityAssumption DEF FrameInv
  <1>2. faults'["redis"] \in Nat /\ faults'["abandon"] \in Nat
    BY <1>1 DEF Faults
  <1>3. ResetLimit * faults'["redis"] \in Nat
    BY <1>1, <1>2
  <1>4. QED
    BY <1>2, <1>3 DEF Slack

\* What another request relies on stays.
LEMMA OthersRely ==
    ASSUME AccountInv, NEW r \in Requests, NEW e \in Emails, Move(r, e),
           NEW q \in Requests, q # r
    PROVE  CallOK(q)'
  <1>1. /\ pc'[q] = pc[q] /\ call'[q] = call[q] /\ copy'[q] = copy[q] /\ Stable(r, e)
        /\ \A f \in Emails : f # e => Same(f)
    BY DEF Move, OnlyMoves
  <1> SUFFICES ASSUME InFlight(q) PROVE (Placed(call[q], pc[q]))' /\ (Relies(call[q], pc[q], copy[q]))'
    BY <1>1 DEF CallOK, InFlight
  <1>2. Placed(call[q], pc[q]) /\ Relies(call[q], pc[q], copy[q])
    BY DEF AccountInv, CallInv, CallOK
  <1>3. (Placed(call[q], pc[q]))'
    BY <1>1, <1>2 DEF Placed
  <1>4. PICK f \in Emails : call[q].id = f
    BY <1>2 DEF Placed
  <1>5. /\ user[f].stored => user'[f].stored
        /\ user[f].verified => user'[f].verified
        /\ (user[f].stored /\ keycloak[f] = "verified") => keycloak'[f] = "verified"
    BY <1>1 DEF Stable, Same
  <1>6. Signing(q, f) => keycloak'[f] = keycloak[f] /\ user'[f].stored = user[f].stored
    BY <1>1 DEF Stable, Same
  <1>7. (call[q].op = "signup" /\ pc[q] \in {"password", "commit"}) => Signing(q, f)
    BY <1>4 DEF Signing
  <1>8. (Relies(call[q], pc[q], copy[q]))'
    BY <1>1, <1>2, <1>4, <1>5, <1>6, <1>7 DEF Relies
  <1>9. QED
    BY <1>3, <1>8

LEMMA AccountStep ==
    ASSUME AccountInv, NEW r \in Requests, NEW e \in Emails, Move(r, e)
    PROVE  AccountInv'
  <1>1. /\ OnlyMoves(r) /\ FrameInv' /\ TablesOK' /\ CallOK(r)' /\ RowOK(e)'
        /\ InFlight(r)' => call'[r].id = e
        /\ \A f \in Emails : f # e => Same(f)
        /\ Signing(r, e)' => \A q \in Requests : q # r => ~Signing(q, e)
    BY DEF Move
  <1>2. CallInv'
    BY <1>1, OthersRely DEF CallInv
  <1>3. RowInv'
    <2>1. ASSUME NEW f \in Emails, f # e PROVE RowOK(f)'
      BY <1>1, <2>1 DEF AccountInv, RowInv, RowOK, Same
    <2>2. QED
      BY <1>1, <2>1 DEF RowInv
  <1>4. OneSignup'
    <2> SUFFICES ASSUME NEW f \in Emails, NEW p \in Requests, NEW q \in Requests,
                        Signing(p, f)', Signing(q, f)'
                 PROVE  p = q
      BY DEF OneSignup
    <2>1. \A o \in Requests : o # r => (Signing(o, f)' <=> Signing(o, f))
      BY <1>1 DEF OnlyMoves, Signing
    <2>2. Signing(r, f)' => f = e
      BY <1>1 DEF Signing, InFlight
    <2>3. Signing(r, f)' => \A o \in Requests : o # r => ~Signing(o, f)
      BY <1>1, <2>2
    <2>4. CASE p # r /\ q # r
      BY <2>1, <2>4 DEF AccountInv, OneSignup
    <2>5. CASE p = r \/ q = r
      BY <2>1, <2>3, <2>5
    <2>6. QED
      BY <2>4, <2>5
  <1>5. QED
    BY <1>1, <1>2, <1>3, <1>4 DEF AccountInv

LEMMA MailStep ==
    ASSUME AccountInv, MailInv, NEW r \in Requests, NEW e \in Emails, Move(r, e)
    PROVE  MailInv'
  <1>0. FrameInv /\ TablesOK /\ CallOK(r)
    BY DEF AccountInv, CallInv
  <1>1. /\ OnlyMoves(r) /\ FrameInv' /\ overlap' = overlap /\ TablesOK' /\ CallOK(r)'
        /\ InFlight(r) \/ (Serial => \A q \in Requests : ~InFlight(q))
        /\ InFlight(r) => call[r].id = e
        /\ InFlight(r)' => call'[r].id = e
        /\ \A f \in Emails : f # e => Same(f)
        /\ Slack <= Slack' /\ CountersMove(r, e)
    BY DEF Move
  <1> SUFFICES ASSUME Serial PROVE \A f \in Emails : MailOK(f)'
    BY <1>1 DEF MailInv, Serial
  <1>2. Slack \in Nat /\ Slack' \in Nat /\ ResetLimit \in Nat
    BY <1>0, <1>1, Counters, CountersNext, IdentityAssumption
  <1>3. \A q \in Requests : q # r => ~InFlight(q) /\ ~InFlight(q)'
    BY <1>0, <1>1 DEF FrameInv, OnlyMoves, InFlight
  <1>4. ASSUME NEW f \in Emails, NEW q \in Requests, q # r
        PROVE  ~Asking(q, f) /\ ~Counting(q, f) /\ ~Asking(q, f)' /\ ~Counting(q, f)'
    BY <1>3, <1>4 DEF InFlight, Asking, Counting
  <1>5. ASSUME NEW f \in Emails, f # e PROVE MailOK(f)'
    <2>1. ~Asking(r, f)' /\ ~Counting(r, f)' /\ ~Counting(r, f)
      BY <1>1, <1>5 DEF Asking, Counting, InFlight
    <2>2. mails'[f] = mails[f] /\ attempts'[f] = attempts[f]
      BY <1>1, <1>5 DEF Same
    <2>3. \A q \in Requests : ~Counting(q, f) /\ ~Asking(q, f)' /\ ~Counting(q, f)'
      BY <1>4, <2>1
    <2>4. attempts[f] <= ResetLimit /\ mails[f] <= attempts[f] + Slack
      BY <2>3 DEF MailInv, MailOK
    <2>5. mails[f] \in Nat /\ attempts[f] \in Nat
      BY <1>0 DEF TablesOK
    <2>6. mails[f] <= attempts[f] + Slack'
      BY <1>1, <1>2, <2>4, <2>5
    <2>7. QED
      BY <2>2, <2>3, <2>4, <2>6 DEF MailOK
  <1>6. MailOK(e)'
    <2> DEFINE m == mails[e]
               a == attempts[e]
    <2>1. m \in Nat /\ a \in Nat /\ a <= ResetLimit /\ mails'[e] \in Nat /\ attempts'[e] \in Nat
      BY <1>0, <1>1 DEF TablesOK, MailInv, MailOK
    <2>2. ~Counting(r, e) => m <= a + Slack
      BY <1>4 DEF MailInv, MailOK
    <2>3. /\ Asking(r, e) => m <= copy[r].attempts + Slack
          /\ Counting(r, e) => m <= a + Slack + 1 /\ m <= copy[r].attempts + Slack + 1
      BY DEF MailInv, MailOK
    <2>4. (Asking(r, e) \/ Counting(r, e)) => copy[r].attempts \in Nat /\ copy[r].attempts < ResetLimit
      BY <1>0 DEF CallOK, Relies, InFlight, Asking, Counting
    <2>5. (Asking(r, e) \/ Counting(r, e))' => copy'[r].attempts \in Nat
      BY <1>1 DEF CallOK, Relies, InFlight, Asking, Counting
    <2>6. SUFFICES /\ attempts'[e] <= ResetLimit
                   /\ ~Counting(r, e)' => mails'[e] <= attempts'[e] + Slack'
                   /\ Asking(r, e)' => mails'[e] <= copy'[r].attempts + Slack'
                   /\ Counting(r, e)' => /\ mails'[e] <= attempts'[e] + Slack' + 1
                                         /\ mails'[e] <= copy'[r].attempts + Slack' + 1
      BY <1>4 DEF MailOK
    <2>7. ~(Asking(r, e)' /\ Counting(r, e)') /\ ~(Asking(r, e) /\ Counting(r, e))
      BY DEF Asking, Counting
    <2>8. CASE /\ mails'[e] = m /\ attempts'[e] = a
               /\ ~Asking(r, e)' /\ ~Counting(r, e)'
               /\ Counting(r, e) => Slack < Slack'
      BY <1>1, <1>2, <2>1, <2>2, <2>3, <2>8
    <2>9. CASE /\ mails'[e] = m /\ attempts'[e] = a
               /\ ~Asking(r, e) /\ ~Counting(r, e) /\ Asking(r, e)'
               /\ copy'[r].attempts = a \/ (copy'[r].attempts = 0 /\ Slack' = Slack + ResetLimit)
      BY <1>1, <1>2, <2>1, <2>2, <2>7, <2>9
    <2>10. CASE /\ mails'[e] \in {m, m + 1} /\ attempts'[e] = a
                /\ Asking(r, e) /\ copy'[r] = copy[r]
                /\ Counting(r, e)' \/ (Asking(r, e)' /\ mails'[e] = m)
      BY <1>1, <1>2, <2>1, <2>2, <2>3, <2>4, <2>7, <2>10
    <2>11. CASE /\ mails'[e] = m /\ attempts'[e] = copy[r].attempts + 1
                /\ Counting(r, e) /\ ~InFlight(r)'
      <3>1. ~Asking(r, e)' /\ ~Counting(r, e)'
        BY <2>11 DEF Asking, Counting, InFlight
      <3>2. QED
        BY <1>1, <1>2, <2>1, <2>3, <2>4, <2>11, <3>1
    <2>12. QED
      BY <1>1, <2>8, <2>9, <2>10, <2>11 DEF CountersMove
  <1>7. QED
    BY <1>5, <1>6

LEMMA StrandStep ==
    ASSUME AccountInv, StrandInv, NEW r \in Requests, NEW e \in Emails, Move(r, e)
    PROVE  StrandInv'
  <1>1. /\ OnlyMoves(r) /\ FateMoves(r, e)
        /\ InFlight(r) => call[r].id = e
        /\ InFlight(r)' => call'[r].id = e
        /\ \A f \in Emails : f # e => Same(f) /\ (f \in spoiled' <=> f \in spoiled)
    BY DEF Move
  <1>2. \A q \in Requests, f \in Emails : q # r => (WorksOn(q, f)' <=> WorksOn(q, f))
    BY <1>1 DEF OnlyMoves, WorksOn, Midway
  <1>3. ASSUME NEW f \in Emails, f # e PROVE Fate(f)'
    <2>1. Fate(f) /\ (f \in spoiled' <=> f \in spoiled)
      BY <1>1, <1>3 DEF StrandInv
    <2>2. /\ Usable(f)' <=> Usable(f)
          /\ (f \in otp' <=> f \in otp) /\ user'[f] = user[f]
      BY <1>1, <1>3 DEF Same, Usable, CanSignUp, CanVerify, Confirmed
    <2>3. ~WorksOn(r, f) /\ ~WorksOn(r, f)'
      BY <1>1, <1>3 DEF WorksOn, Midway, InFlight
    <2>4. \A q \in Requests : WorksOn(q, f)' <=> WorksOn(q, f)
      BY <1>2, <2>3
    <2>5. QED
      BY <2>1, <2>2, <2>4 DEF Fate
  <1>4. Fate(e)'
    <2>0. Fate(e) /\ RowOK(e)
      BY DEF StrandInv, AccountInv, RowInv
    <2>1. WorksOn(r, e) => \A q \in Requests : q # r => ~WorksOn(q, e)'
      BY <1>2, <2>0 DEF Fate
    <2>2. Usable(e) => \A q \in Requests : q # r => ~WorksOn(q, e)'
      BY <1>2, <2>0 DEF Fate
    <2>3. (e \in otp)' => ~(user[e].verified)'
      <3>1. WorksOn(r, e) => ~Usable(e)
        BY <2>0 DEF Fate
      <3>2. (e \in otp /\ ~user[e].verified) \/ user[e].verified => Usable(e)
        BY <2>0 DEF RowOK, Usable, CanVerify, Confirmed
      <3>3. ~(e \in otp /\ user[e].verified)
        BY <2>0 DEF Fate
      <3>4. QED
        BY <1>1, <3>1, <3>2, <3>3 DEF FateMoves
    <2>4. CASE /\ Usable(e)' <=> Usable(e)
               /\ WorksOn(r, e)' <=> WorksOn(r, e)
               /\ e \in spoiled' <=> e \in spoiled
      <3>1. \A q \in Requests : WorksOn(q, e)' <=> WorksOn(q, e)
        BY <1>2, <2>4
      <3>2. QED
        BY <2>0, <2>3, <2>4, <3>1 DEF Fate
    <2>5. CASE /\ Usable(e) /\ ~Usable(e)' /\ WorksOn(r, e)'
               /\ e \in spoiled' <=> e \in spoiled
      BY <2>0, <2>2, <2>3, <2>5 DEF Fate
    <2>6. CASE /\ \/ WorksOn(r, e) /\ (Usable(e)' <=> Usable(e))
                  \/ Usable(e) /\ ~Usable(e)'
               /\ ~WorksOn(r, e)' /\ e \in spoiled'
      <3>1. ~Usable(e)'
        BY <2>0, <2>6 DEF Fate
      <3>2. \A q \in Requests : ~WorksOn(q, e)'
        BY <2>1, <2>2, <2>6
      <3>3. QED
        BY <2>3, <2>6, <3>1, <3>2 DEF Fate
    <2>7. CASE /\ WorksOn(r, e) /\ ~WorksOn(r, e)' /\ Usable(e)'
               /\ e \in spoiled' <=> e \in spoiled
      <3>1. e \notin spoiled
        BY <2>0, <2>7 DEF Fate
      <3>2. \A q \in Requests : ~WorksOn(q, e)'
        BY <2>1, <2>7
      <3>3. QED
        BY <2>3, <2>7, <3>1, <3>2 DEF Fate
    <2>8. QED
      BY <1>1, <2>4, <2>5, <2>6, <2>7 DEF FateMoves
  <1>5. QED
    BY <1>3, <1>4 DEF StrandInv

LEMMA MoveStep ==
    ASSUME IdentityInv, NEW r \in Requests, NEW e \in Emails, Move(r, e)
    PROVE  IdentityInv' /\ \A f \in Emails : user[f].verified => user'[f].verified
  <1>1. AccountInv /\ MailInv /\ StrandInv
    BY DEF IdentityInv
  <1>2. AccountInv'
    BY <1>1, AccountStep
  <1>3. MailInv' /\ StrandInv'
    BY <1>1, <1>2, MailStep, StrandStep
  <1>4. \A f \in Emails : user[f].verified => user'[f].verified
    BY DEF Move, Stable, Same
  <1>5. QED
    BY <1>2, <1>3, <1>4 DEF IdentityInv

\* What a code, a profile or a counter that expires leaves behind.
LEMMA ExpireStep ==
    ASSUME IdentityInv, NEW e \in Emails, Expire(e)
    PROVE  IdentityInv' /\ user' = user
  <1>0. AccountInv /\ MailInv /\ StrandInv /\ FrameInv /\ TablesOK /\ CallInv /\ RowInv
    BY DEF IdentityInv, AccountInv
  <1>1. /\ UNCHANGED <<keycloak, user, session>>
        /\ UNCHANGED <<overlap, pc, call, copy, stored, commits, faults>>
    BY DEF Expire, frameVars
  <1>2. FrameInv' /\ CallInv' /\ OneSignup'
    <2>1. FrameInv'
      BY <1>0, <1>1 DEF FrameInv, OverRequests, Serial, InFlight
    <2>2. OneSignup'
      BY <1>0, <1>1 DEF AccountInv, OneSignup, Signing
    <2>3. ASSUME NEW r \in Requests PROVE CallOK(r)'
      <3>1. CallOK(r)
        BY <1>0 DEF CallInv
      <3>2. (Placed(call[r], pc[r]))' <=> Placed(call[r], pc[r])
        BY <1>1 DEF Placed
      <3>3. (Relies(call[r], pc[r], copy[r]))' <=> Relies(call[r], pc[r], copy[r])
        BY <1>1 DEF Relies
      <3>4. QED
        BY <1>1, <3>1, <3>2, <3>3 DEF CallOK, InFlight
    <2>4. QED
      BY <2>1, <2>2, <2>3 DEF CallInv
  <1>3. NoUser \in Users
    BY DEF NoUser, Users
  <1>4. TablesOK' /\ RowInv'
    <2>1. CASE otp' = otp \ {e} /\ UNCHANGED <<profile, attempts, mails>>
      BY <1>0, <1>1, <2>1 DEF TablesOK, RowInv, RowOK
    <2>2. CASE /\ profile' = [profile EXCEPT ![e] = NoUser]
               /\ UNCHANGED <<otp, attempts, mails>>
      <3>1. TablesOK' /\ \A f \in Emails : profile'[f] \in {profile[f], NoUser}
        BY <1>0, <1>1, <1>3, <2>2 DEF TablesOK
      <3>2. QED
        BY <1>0, <1>1, <2>2, <3>1 DEF RowInv, RowOK
    <2>3. CASE /\ attempts' = [attempts EXCEPT ![e] = 0] /\ mails' = [mails EXCEPT ![e] = 0]
               /\ UNCHANGED <<otp, profile>>
      BY <1>0, <1>1, <2>3 DEF TablesOK, RowInv, RowOK
    <2>4. QED
      BY <2>1, <2>2, <2>3 DEF Expire
  <1>5. Slack' = Slack /\ Slack \in Nat
    BY <1>0, <1>1, Counters
  <1>6. MailInv'
    <2> SUFFICES ASSUME Serial, NEW f \in Emails PROVE MailOK(f)'
      BY <1>1 DEF MailInv, Serial
    <2>1. MailOK(f) /\ attempts[f] \in Nat /\ mails[f] \in Nat /\ ResetLimit \in Nat
      BY <1>0, IdentityAssumption DEF MailInv, TablesOK
    <2>2. \/ attempts'[f] = attempts[f] /\ mails'[f] = mails[f]
          \/ attempts'[f] = 0 /\ mails'[f] = 0
      BY <1>0 DEF Expire, TablesOK
    <2>3. \A q \in Requests : /\ Asking(q, f)' <=> Asking(q, f)
                              /\ Counting(q, f)' <=> Counting(q, f)
      BY <1>1 DEF Asking, Counting
    <2>4. \A q \in Requests : Asking(q, f) \/ Counting(q, f) => copy[q].attempts \in Nat
      BY <1>0 DEF CallInv, CallOK, Relies, InFlight, Asking, Counting
    <2>5. CASE attempts'[f] = attempts[f] /\ mails'[f] = mails[f]
      BY <1>1, <1>5, <2>1, <2>3, <2>5 DEF MailOK
    <2>6. CASE attempts'[f] = 0 /\ mails'[f] = 0
      BY <1>1, <1>5, <2>1, <2>3, <2>4, <2>6 DEF MailOK
    <2>7. QED
      BY <2>2, <2>5, <2>6
  <1>7. StrandInv'
    <2>1. \A q \in Requests, f \in Emails : WorksOn(q, f)' <=> WorksOn(q, f)
      BY <1>1 DEF WorksOn, Midway
    <2>2. \/ e \in otp /\ otp' = otp \ {e} /\ spoiled' = spoiled \union {e}
          \/ otp' = otp /\ spoiled' = spoiled
      BY DEF Expire
    <2>3. \A f \in Emails : f # e \/ otp' = otp => (Usable(f)' <=> Usable(f))
      BY <1>1, <2>2 DEF Usable, CanSignUp, CanVerify, Confirmed
    <2>4. ASSUME NEW f \in Emails, f # e \/ otp' = otp PROVE Fate(f)'
      <3>1. /\ Fate(f) /\ (Usable(f)' <=> Usable(f)) /\ (f \in spoiled' <=> f \in spoiled)
            /\ f \in otp' <=> f \in otp
        BY <1>0, <2>2, <2>3, <2>4 DEF StrandInv
      <3>2. QED
        BY <1>1, <2>1, <3>1 DEF Fate
    <2>5. ASSUME otp' # otp PROVE Fate(e)'
      <3>1. e \in otp /\ e \in spoiled' /\ e \notin otp' /\ Fate(e) /\ RowOK(e)
        BY <1>0, <2>2, <2>5 DEF StrandInv, RowInv
      <3>2. user[e].stored /\ ~user[e].verified
        BY <3>1 DEF Fate, RowOK
      <3>3. Usable(e) /\ ~Usable(e)'
        BY <1>1, <3>1, <3>2 DEF Usable, CanSignUp, CanVerify, Confirmed
      <3>4. \A q \in Requests : ~WorksOn(q, e)'
        BY <2>1, <3>1, <3>3 DEF Fate
      <3>5. QED
        BY <3>1, <3>3, <3>4 DEF Fate
    <2>6. QED
      BY <2>4, <2>5 DEF StrandInv
  <1>8. QED
    BY <1>1, <1>2, <1>4, <1>6, <1>7 DEF IdentityInv, AccountInv

\* No step, or one that only lifts a required action at Keycloak.
LEMMA StutterStep ==
    ASSUME IdentityInv, UNCHANGED <<keycloak, user, otp, session, spoiled, caches, frameVars>>
    PROVE  IdentityInv'
  <1>0. AccountInv /\ MailInv /\ StrandInv /\ FrameInv
    BY DEF IdentityInv, AccountInv
  <1>1. /\ UNCHANGED <<keycloak, user, otp, session, spoiled, profile, attempts, mails>>
        /\ UNCHANGED <<overlap, pc, call, copy, stored, commits, faults>>
    BY DEF caches, frameVars
  <1>2. FrameInv' /\ TablesOK' /\ RowInv' /\ OneSignup'
    BY <1>0, <1>1 DEF AccountInv, FrameInv, OverRequests, Serial, InFlight, TablesOK, RowInv, RowOK,
                      OneSignup, Signing
  <1>3. CallInv'
    BY <1>0, <1>1 DEF AccountInv, CallInv, CallOK, InFlight, Placed, Relies
  <1>4. MailInv'
    BY <1>0, <1>1 DEF MailInv, MailOK, Serial, Asking, Counting, Slack
  <1>5. StrandInv'
    BY <1>0, <1>1 DEF StrandInv, Fate, Usable, CanSignUp, CanVerify, Confirmed, WorksOn, Midway
  <1>6. QED
    BY <1>2, <1>3, <1>4, <1>5 DEF IdentityInv, AccountInv

LEMMA IdentityInvInit == Init => IdentityInv
  <1> SUFFICES ASSUME Init PROVE IdentityInv
    OBVIOUS
  <1>1. FrameInv
    BY FrameInitial DEF Init
  <1>2. /\ keycloak = [e \in Emails |-> "absent"] /\ user = [e \in Emails |-> NoUser]
        /\ otp = {} /\ session = {} /\ profile = [e \in Emails |-> NoUser]
        /\ attempts = [e \in Emails |-> 0] /\ mails = [e \in Emails |-> 0] /\ spoiled = {}
        /\ \A r \in Requests : pc[r] = "idle"
    BY DEF Init, FrameInit
  <1>3. NoUser \in Users /\ ~NoUser.stored /\ ~NoUser.verified
    BY DEF NoUser, Users
  <1>4. TablesOK /\ RowInv
    BY <1>2, <1>3 DEF TablesOK, RowInv, RowOK
  <1>5. CallInv /\ OneSignup
    BY <1>2 DEF CallInv, CallOK, InFlight, OneSignup, Signing
  <1>6. Slack \in Nat /\ ResetLimit \in Nat
    BY <1>1, Counters, IdentityAssumption
  <1>7. MailInv
    BY <1>2, <1>6 DEF MailInv, MailOK, Asking, Counting
  <1>8. StrandInv
    <2>1. \A e \in Emails : Usable(e)
      BY <1>2, <1>3 DEF Usable, CanSignUp
    <2>2. \A r \in Requests, e \in Emails : ~WorksOn(r, e)
      BY <1>2 DEF WorksOn, Midway
    <2>3. QED
      BY <1>2, <2>1, <2>2 DEF StrandInv, Fate
  <1>9. QED
    BY <1>1, <1>4, <1>5, <1>7, <1>8 DEF IdentityInv, AccountInv

LEMMA IdentityInvStep ==
    ASSUME IdentityInv, [Next]_vars
    PROVE  IdentityInv' /\ \A f \in Emails : user[f].verified => user'[f].verified
  <1>0. AccountInv /\ StrandInv
    BY DEF IdentityInv
  <1>1. ASSUME NEW r \in Requests, Arrival(r) \/ Step(r)
        PROVE  IdentityInv' /\ \A f \in Emails : user[f].verified => user'[f].verified
    <2>1. PICK e \in Emails : Move(r, e)
      BY <1>0, <1>1, ArrivalShape, StepShape
    <2>2. QED
      BY <2>1, MoveStep
  <1>2. ASSUME NEW e \in Emails, Expire(e)
        PROVE  IdentityInv' /\ \A f \in Emails : user[f].verified => user'[f].verified
    BY <1>2, ExpireStep
  <1>3. ASSUME UNCHANGED vars \/ \E e \in Emails : ClearAction(e)
        PROVE  IdentityInv' /\ user' = user
    BY <1>3, StutterStep DEF vars, accounts, ClearAction
  <1>4. QED
    BY <1>1, <1>2, <1>3 DEF Next

------------------------------------------------------------------------------

\* IdentityInv holds in every reachable state of identity-svc.
THEOREM IdentityInvAlways == Spec => []IdentityInv
  <1>1. IdentityInv /\ [Next]_vars => IdentityInv'
    BY IdentityInvStep
  <1>2. QED
    BY <1>1, IdentityInvInit, PTL DEF Spec

\* However requests overlap, whatever fails and for any number of addresses: between
\* calls an address that can neither be signed up nor verified, and is not confirmed
\* in both places, is one that a fault midway, an expired code or a wrong guess has
\* spoiled, and a spoiled address never becomes usable again.
THEOREM StrandingHasCause == Spec => []StrandedAccounted
  <1>1. ASSUME IdentityInv, Quiescent, NEW e \in Emails
        PROVE  e \in spoiled <=> ~CanSignUp(e) /\ ~CanVerify(e) /\ ~Confirmed(e)
    <2>1. \A r \in Requests : ~WorksOn(r, e)
      BY <1>1 DEF Quiescent, InFlight, WorksOn, Midway
    <2>2. Fate(e)
      BY <1>1 DEF IdentityInv, StrandInv
    <2>3. QED
      BY <2>1, <2>2 DEF Fate, Usable
  <1>2. IdentityInv => StrandedAccounted
    BY <1>1 DEF StrandedAccounted
  <1>3. QED
    BY <1>2, IdentityInvAlways, PTL

\* When requests do not overlap, the reset mails of an address within the life of
\* its counter stay within the limit and what failed reads and lost counts allow.
THEOREM ResetMailsAreBounded == Spec => []ResetMailsBounded
  <1>1. ASSUME IdentityInv, Serial, NEW e \in Emails
        PROVE  mails[e] <= ResetLimit * (1 + faults["redis"]) + faults["abandon"]
    <2>1. /\ FrameInv /\ TablesOK /\ CallInv /\ MailOK(e)
      BY <1>1 DEF IdentityInv, AccountInv, MailInv
    <2>2. /\ ResetLimit \in Nat /\ mails[e] \in Nat /\ attempts[e] \in Nat /\ Slack \in Nat
          /\ faults["redis"] \in Nat /\ faults["abandon"] \in Nat
      BY <2>1, Counters, IdentityAssumption DEF TablesOK, FrameInv, Faults
    <2>3. mails[e] <= ResetLimit + Slack
      <3>1. CASE \A r \in Requests : ~Counting(r, e)
        BY <2>1, <2>2, <3>1 DEF MailOK
      <3>2. ASSUME NEW r \in Requests, Counting(r, e) PROVE mails[e] <= ResetLimit + Slack
        <4>1. mails[e] <= copy[r].attempts + Slack + 1
          BY <2>1, <3>2 DEF MailOK
        <4>2. copy[r].attempts \in Nat /\ copy[r].attempts < ResetLimit
          BY <2>1, <3>2 DEF CallInv, CallOK, Relies, InFlight, Counting
        <4>3. QED
          BY <2>2, <4>1, <4>2
      <3>3. QED
        BY <3>1, <3>2
    <2>4. ResetLimit * (1 + faults["redis"]) = ResetLimit + ResetLimit * faults["redis"]
          /\ ResetLimit * faults["redis"] \in Nat
      BY <2>2
    <2>5. Slack = ResetLimit * faults["redis"] + faults["abandon"]
      BY DEF Slack
    <2>6. QED
      BY <2>2, <2>3, <2>4, <2>5
  <1>2. IdentityInv => ResetMailsBounded
    BY <1>1 DEF ResetMailsBounded
  <1>3. QED
    BY <1>2, IdentityInvAlways, PTL

\* However requests overlap, no step takes the verification of an address back, in
\* the table, at Keycloak or in its cached profile.
THEOREM VerifiedStays == Spec => VerificationIsFinal
  <1> DEFINE Final == \A e \in Emails :
                  user[e].verified => /\ user'[e].verified /\ keycloak'[e] = "verified"
                                      /\ profile'[e] # NoUser => profile'[e].verified
  <1>1. ASSUME IdentityInv, [Next]_vars PROVE [Final]_vars
    <2>1. /\ IdentityInv'
          /\ \A f \in Emails : user[f].verified => user'[f].verified
      BY <1>1, IdentityInvStep
    <2>2. \A f \in Emails : /\ user'[f].verified => keycloak'[f] = "verified"
                            /\ profile'[f] # NoUser => profile'[f].verified
      BY <2>1 DEF IdentityInv, AccountInv, RowInv, RowOK
    <2>3. QED
      BY <2>1, <2>2
  <1>2. IdentityInv /\ [Next]_vars => [Final]_vars
    BY <1>1
  <1>3. QED
    BY <1>2, IdentityInvAlways, PTL DEF Spec, VerificationIsFinal
==============================================================================
