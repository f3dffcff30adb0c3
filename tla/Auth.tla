-------------------------------- MODULE Auth --------------------------------
(***************************************************************************)
(* Registration, login, refresh and logout of routers/auth.py, and the     *)
(* reading of one's account with an access token.                          *)
(*                                                                         *)
(* A call is one HTTP request with its own database session, and a step is *)
(* one statement of it with the Python code that follows.  A registration  *)
(* inserts at most one user with one account, a login or a refresh at most *)
(* one refresh token: each row is named by the call that inserts it.  The  *)
(* API deletes neither users nor refresh tokens.                           *)
(***************************************************************************)
EXTENDS Naturals, FiniteSets

CONSTANTS
    Emails,         \* the spellings of e-mail addresses clients send
    EmailStr,       \* what pydantic's EmailStr makes of a spelling
    Passwords,
    Numbers,        \* the account numbers _generate_account_number draws from
    Registrations, Logins, Refreshes, Logouts, Reads,  \* the calls
    MaxLost,        \* how many calls may lose their connection or instance
    None            \* SQL NULL, and the absence of a value

Grants == Logins \cup Refreshes     \* each grants an access and a refresh token
Calls == Registrations \cup Grants \cup Logouts \cup Reads

ASSUME CallsAreDistinct ==
    /\ Registrations \cap (Grants \cup Logouts \cup Reads) = {}
    /\ Logins \cap (Refreshes \cup Logouts \cup Reads) = {}
    /\ Refreshes \cap (Logouts \cup Reads) = {}
    /\ Logouts \cap Reads = {}
    /\ None \notin Calls \cup Numbers \cup Emails

ASSUME EmailStrNormalises ==
    /\ EmailStr \in [Emails -> Emails]
    /\ \A e \in Emails : EmailStr[EmailStr[e]] = EmailStr[e]

ASSUME NumbersExist == Numbers # {}
ASSUME LostCalls == MaxLost \in Nat

VARIABLES
    user,     \* the users table
    account,  \* the accounts table: the number of each user's account
    token,    \* the refresh_tokens table
    life,     \* how far the two tokens of a grant are past their exp
    body,     \* what each call sent
    pc,       \* the statement each call is about to run
    answer    \* what each call was answered

vars == <<user, account, token, life, body, pc, answer>>

Credentials == [email : Emails, password : Passwords]
NoUser == [email |-> None, password |-> None]
NoToken == [user |-> None, revoked |-> FALSE]

Goto(c, step) == pc' = [pc EXCEPT ![c] = step]
Respond(c, reply) == Goto(c, "done") /\ answer' = [answer EXCEPT ![c] = reply]
Send(c, content) == pc[c] = "idle" /\ body' = [body EXCEPT ![c] = content]

\* The refresh tokens a client was given, and None for any other string.
Known == {t \in Grants : answer[t] = "200"} \cup {None}

Init ==
    /\ user = [r \in Registrations |-> NoUser]
    /\ account = [r \in Registrations |-> None]
    /\ token = [t \in Grants |-> NoToken]
    /\ life = [t \in Grants |-> "fresh"]
    /\ body = [c \in Calls |-> None]
    /\ pc = [c \in Calls |-> "idle"]
    /\ answer = [c \in Calls |-> "none"]

(***************************************************************************)
(* POST /auth/register                                                     *)
(***************************************************************************)
\* The address a registration stores: UserCreate validated it.
Address(r) == EmailStr[body[r].email]

\* A committed user has this e-mail; or an uncommitted one.
EmailSeen(e) ==
    \E q \in Registrations :
        user[q].email = e \/ (pc[q] = "flushed" /\ Address(q) = e)
EmailTaken(e) == \E q \in Registrations : user[q] # NoUser /\ user[q].email = e

\* An insert waits for every uncommitted row with the same unique e-mail: one
\* of a session that has still to commit; or one of a session never closed.
HeldBy(r, steps) ==
    \E q \in Registrations \ {r} : pc[q] \in steps /\ Address(q) = Address(r)
EmailHeldForever(r) == HeldBy(r, {"flushed", "lost"})
EmailHeld(r) == HeldBy(r, {"flushed"})

register(r) ==
    /\ \E b \in Credentials :
        /\ Send(r, b)
        /\ IF EmailTaken(EmailStr[b.email])
           THEN Respond(r, "409 email")
           ELSE Goto(r, "checked") /\ UNCHANGED answer
    /\ UNCHANGED <<user, account, token, life>>

MayFlush(r) == pc[r] = "checked" /\ ~EmailHeld(r)

flush_user(r) ==
    /\ MayFlush(r)
    /\ IF EmailTaken(Address(r))
       THEN Respond(r, "409 email")
       ELSE Goto(r, "flushed") /\ UNCHANGED answer
    /\ UNCHANGED <<user, account, token, life, body>>

\* The two rows a registration inserts.
UserRow(r) == [email |-> Address(r), password |-> body[r].password]
UserAlone(r, n) == user' = [user EXCEPT ![r] = UserRow(r)] /\ UNCHANGED account
UserWithAccount(r, n) ==
    /\ user' = [user EXCEPT ![r] = UserRow(r)]
    /\ account' = [account EXCEPT ![r] = n]

NumberTakenUnchecked(n) == FALSE
NumberTaken(n) == \E q \in Registrations : account[q] = n

\* The commit inserts the account, and makes both rows visible or neither.
commit_user(r) ==
    /\ pc[r] = "flushed"
    /\ \E n \in Numbers :
        IF NumberTaken(n)
        THEN Respond(r, "409 number") /\ UNCHANGED <<user, account>>
        ELSE UserWithAccount(r, n) /\ Goto(r, "committed") /\ UNCHANGED answer
    /\ UNCHANGED <<token, life, body>>

(***************************************************************************)
(* POST /auth/login                                                        *)
(***************************************************************************)
\* The user the form names; the form's username is compared as it was sent.
UserWith(b) ==
    {r \in Registrations : user[r] # NoUser /\ user[r].email = b.email}

MayGrant(c) == pc[c] = "verified" /\ UserWith(body[c]) # {}

Verified(b) == {r \in UserWith(b) : user[r].password = b.password}

login(c) ==
    /\ \E b \in Credentials :
        /\ Send(c, b)
        /\ IF Verified(b) = {}
           THEN Respond(c, "401")
           ELSE Goto(c, "verified") /\ UNCHANGED answer
    /\ UNCHANGED <<user, account, token, life>>

StoreNothing(c, r) == UNCHANGED token
StoreToken(c, r) == token' = [token EXCEPT ![c] = [user |-> r, revoked |-> FALSE]]

commit_token(c) ==
    /\ MayGrant(c)
    /\ \E r \in UserWith(body[c]) : StoreToken(c, r)
    /\ Goto(c, "committed")
    /\ UNCHANGED <<user, account, life, body, answer>>

(***************************************************************************)
(* POST /auth/refresh, POST /auth/logout                                   *)
(***************************************************************************)
\* decode_token accepts the string, and its row is there and not revoked.
AcceptedRevoked(t) == t # None /\ life[t] # "expired"
Accepted(t) == t # None /\ ~token[t].revoked /\ life[t] # "expired"

refresh_token_endpoint(c) ==
    /\ \E t \in Known :
        /\ Send(c, t)
        /\ IF Accepted(t)
           THEN Goto(c, "rotating") /\ UNCHANGED answer
           ELSE Respond(c, "401")
    /\ UNCHANGED <<user, account, token, life>>

Successor(c) == [user |-> token[body[c]].user, revoked |-> FALSE]

\* One commit revokes the old row and inserts the new one.  The UPDATE names
\* the row by its id alone: that it was not revoked is not checked again.
SuccessorAlone(c) == [token EXCEPT ![c] = Successor(c)]
Rotated(c) == [token EXCEPT ![body[c]].revoked = TRUE, ![c] = Successor(c)]

rotate(c) ==
    /\ pc[c] = "rotating"
    /\ token' = Rotated(c)
    /\ Goto(c, "committed")
    /\ UNCHANGED <<user, account, life, body, answer>>

\* Logout neither decodes the token nor asks who sends it.
logout(c) ==
    /\ \E t \in Known :
        /\ Send(c, t)
        /\ IF t = None
           THEN Respond(c, "204")
           ELSE Goto(c, "revoking") /\ UNCHANGED answer
    /\ UNCHANGED <<user, account, token, life>>

revoke(c) ==
    /\ pc[c] = "revoking"
    /\ token' = [token EXCEPT ![body[c]].revoked = TRUE]
    /\ Goto(c, "committed")
    /\ UNCHANGED <<user, account, life, body, answer>>

(***************************************************************************)
(* GET /accounts/me                                                        *)
(***************************************************************************)
\* get_current_user trusts the access token until it expires.
get_my_balance(c) ==
    /\ \E t \in Known :
        /\ Send(c, t)
        /\ Respond(c,
               IF t = None \/ life[t] # "fresh" THEN "401"
               ELSE IF account[token[t].user] = None THEN "404" ELSE "200")
    /\ UNCHANGED <<user, account, token, life>>

(***************************************************************************)
(* Answers, time, failures                                                 *)
(***************************************************************************)
Success(c) ==
    IF c \in Registrations THEN "201" ELSE IF c \in Logouts THEN "204" ELSE "200"

answer_call(c) ==
    /\ pc[c] = "committed"
    /\ Respond(c, Success(c))
    /\ UNCHANGED <<user, account, token, life, body>>

\* An access token lives for minutes, a refresh token for days.
expire(t) ==
    /\ token[t] # NoToken
    /\ \/ life[t] = "fresh" /\ life' = [life EXCEPT ![t] = "stale"]
       \/ life[t] = "stale" /\ life' = [life EXCEPT ![t] = "expired"]
    /\ UNCHANGED <<user, account, token, body, pc, answer>>

\* A call ends where it is: closing its session rolls back what it flushed.
lose(c) ==
    /\ Cardinality({d \in Calls : pc[d] = "lost"}) < MaxLost
    /\ pc[c] \notin {"idle", "done", "lost"}
    /\ Goto(c, "lost")
    /\ UNCHANGED <<user, account, token, life, body, answer>>

Step(c) ==
    \/ c \in Registrations /\ (flush_user(c) \/ commit_user(c))
    \/ c \in Logins /\ commit_token(c)
    \/ c \in Refreshes /\ rotate(c)
    \/ c \in Logouts /\ revoke(c)
    \/ answer_call(c)

\* Whether a step of the call is possible: the guards of Step(c).
CanGoOn(c) ==
    \/ c \in Registrations /\ (MayFlush(c) \/ pc[c] = "flushed")
    \/ c \in Logins /\ MayGrant(c)
    \/ c \in Refreshes /\ pc[c] = "rotating"
    \/ c \in Logouts /\ pc[c] = "revoking"
    \/ pc[c] = "committed"

Next ==
    \/ \E r \in Registrations : register(r)
    \/ \E c \in Logins : login(c)
    \/ \E c \in Refreshes : refresh_token_endpoint(c)
    \/ \E c \in Logouts : logout(c)
    \/ \E c \in Reads : get_my_balance(c)
    \/ \E c \in Calls : Step(c) \/ lose(c)
    \/ \E t \in Grants : expire(t)

Spec == Init /\ [][Next]_vars

(***************************************************************************)
(* Properties                                                              *)
(***************************************************************************)
Steps == {"idle", "checked", "flushed", "verified", "rotating", "revoking",
          "committed", "done", "lost"}
Answers == {"none", "200", "201", "204", "401", "404", "409 email", "409 number"}

\* Every table, body, step and answer is one the program can hold: a call past
\* its first statement has sent a body of its own kind, and a refresh token that
\* is handed out is stored.
TypeOK ==
    /\ user \in [Registrations -> Credentials \cup {NoUser}]
    /\ account \in [Registrations -> Numbers \cup {None}]
    /\ token \in [Grants -> [user : Registrations, revoked : BOOLEAN] \cup {NoToken}]
    /\ life \in [Grants -> {"fresh", "stale", "expired"}]
    /\ pc \in [Calls -> Steps]
    /\ answer \in [Calls -> Answers]
    /\ body \in [Calls -> Credentials \cup Grants \cup {None}]
    /\ \A c \in Calls : pc[c] # "idle" =>
        IF c \in Registrations \cup Logins THEN body[c] \in Credentials
                                           ELSE body[c] \in Grants \cup {None}
    /\ \A c \in Grants : pc[c] = "committed" \/ answer[c] = "200" => token[c] # NoToken

\* Registration is all or nothing: whatever is refused or lost on the way, a
\* user has exactly one account, no two share an e-mail or an account number,
\* and a refused registration leaves neither row behind.
RegistrationIsAtomic ==
    \A r \in Registrations :
        /\ user[r] = NoUser <=> account[r] = None
        /\ answer[r] \in {"409 email", "409 number"} => user[r] = NoUser
        /\ \A q \in Registrations \ {r} : user[r] # NoUser =>
            user[q].email # user[r].email /\ account[q] # account[r]

\* The e-mail is refused only where it is really taken: a registration that
\* meets another's uncommitted user is not refused for a row that the other's
\* rollback then removes.
ConflictIsTrue ==
    \A r \in Registrations : answer[r] = "409 email" =>
        \E q \in Registrations \ {r} : user[q] # NoUser /\ user[q].email = Address(r)

\* Whoever holds an access token has an account: GET /accounts/me, and with it
\* every payment, never meets a user without one.
AccountIsThere == \A c \in Reads : answer[c] # "404"

\* A refresh token is revoked by the commit that hands out its successor or by
\* a logout, and by nothing else; no rotation leaves it valid.
RevokedExactlyByUse ==
    \A t \in Grants :
        LET exchanged == \E c \in Refreshes : body[c] = t /\ token[c] # NoToken
        IN  /\ exchanged => token[t].revoked
            /\ \A c \in Logouts :
                body[c] = t /\ answer[c] = "204" => token[t].revoked
            /\ token[t].revoked =>
                \/ exchanged
                \/ \E c \in Logouts :
                    body[c] = t /\ pc[c] \in {"committed", "done", "lost"}

\* The refreshes that were let through with token t.
Exchanging(t) ==
    {c \in Refreshes : body[c] = t /\ (pc[c] = "rotating" \/ token[c] # NoToken)}

\* Once a refresh token is revoked or past its time, no further refresh is let
\* through with it: only those already past the check can still rotate it.
RevocationIsFinal ==
    [][\A t \in Grants : token[t].revoked \/ life[t] = "expired" =>
        Exchanging(t)' \subseteq Exchanging(t)]_vars

\* No set of calls waits on one another, nor on a call that is lost: as long as
\* one has not come to its end, one of them goes on.
NoCallIsStuck ==
    (\A c \in Calls : ~CanGoOn(c)) =>
        \A c \in Calls : pc[c] \in {"idle", "done", "lost"}

(***************************************************************************)
(* What the code does not do                                               *)
(***************************************************************************)
\* Rotation: a refresh token is exchanged for at most one successor.
ExchangedOnce ==
    \A c, d \in Refreshes :
        token[c] # NoToken /\ token[d] # NoToken /\ body[c] = body[d] => c = d

==============================================================================
