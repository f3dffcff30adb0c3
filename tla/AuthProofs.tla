----------------------------- MODULE AuthProofs -----------------------------
(***************************************************************************)
(* What registrations, tokens and their revocation keep in every reachable *)
(* state of Auth, for any number of calls, addresses and account numbers.  *)
(***************************************************************************)
EXTENDS Auth, TLAPS

(***************************************************************************)
(* The inductive invariant                                                 *)
(***************************************************************************)
\* Only a call that has ended was answered.
AnsweredIsDone == \A c \in Calls : answer[c] # "none" => pc[c] = "done"

\* A registration that has not committed has no row, and the address it has
\* flushed is nobody else's: neither committed nor flushed.
Unwritten(r) ==
    /\ pc[r] \in {"idle", "checked", "flushed"} => user[r] = NoUser
    /\ pc[r] = "committed" => user[r] # NoUser
    /\ pc[r] = "flushed" => ~EmailTaken(Address(r)) /\ ~EmailHeld(r)
RegistrationInv ==
    /\ \A r \in Registrations : Unwritten(r)
    /\ RegistrationIsAtomic
    /\ ConflictIsTrue

\* A grant that has not committed has no row; a row is that of a user; what a
\* refresh or a logout is about to revoke is a row.
Ungranted == \A c \in Grants : pc[c] \in {"idle", "verified", "rotating"} => token[c] = NoToken
OwnedByUser == \A t \in Grants : token[t] # NoToken => user[token[t].user] # NoUser
Revoking ==
    \A c \in Refreshes \cup Logouts :
        pc[c] \in {"rotating", "revoking"} => body[c] \in Grants /\ token[body[c]] # NoToken
LoggedOut ==
    \A c \in Logouts :
        pc[c] \in {"committed", "done"} /\ body[c] # None => token[body[c]].revoked
TokenInv == Ungranted /\ OwnedByUser /\ Revoking /\ LoggedOut /\ RevokedExactlyByUse

\* What RevokedExactlyByUse says of one token.
UseOf(t) ==
    /\ (\E c \in Refreshes : body[c] = t /\ token[c] # NoToken) => token[t].revoked
    /\ \A c \in Logouts : body[c] = t /\ answer[c] = "204" => token[t].revoked
    /\ token[t].revoked =>
         \/ \E c \in Refreshes : body[c] = t /\ token[c] # NoToken
         \/ \E c \in Logouts : body[c] = t /\ pc[c] \in {"committed", "done", "lost"}

AuthInv == TypeOK /\ AnsweredIsDone /\ RegistrationInv /\ TokenInv /\ AccountIsThere

\* The kinds of calls are disjoint, and None is none of them.
LEMMA Kinds ==
    /\ Calls = Registrations \cup Logins \cup Refreshes \cup Logouts \cup Reads
    /\ Grants = Logins \cup Refreshes
    /\ \A r \in Registrations : r \notin Grants /\ r \notin Logouts /\ r \notin Reads
    /\ \A c \in Logins : c \notin Refreshes /\ c \notin Logouts /\ c \notin Reads
    /\ \A c \in Refreshes : c \notin Logouts /\ c \notin Reads
    /\ \A c \in Logouts : c \notin Reads
    /\ None \notin Calls /\ None \notin Numbers /\ None \notin Emails
BY CallsAreDistinct DEF Calls, Grants

\* The absence of a row is not a row.
LEMMA NotARow == NoUser \notin Credentials /\ NoToken \notin [user : Registrations, revoked : BOOLEAN]
<1>1. ASSUME NoUser \in Credentials PROVE FALSE
  BY <1>1, Kinds DEF NoUser, Credentials
<1>2. ASSUME NoToken \in [user : Registrations, revoked : BOOLEAN] PROVE FALSE
  BY <1>2, Kinds DEF NoToken
<1> QED BY <1>1, <1>2

\* Before any call the tables are empty.
LEMMA InitHolds == Init => AuthInv
<1> SUFFICES ASSUME Init PROVE AuthInv
  OBVIOUS
<1>1. TypeOK
  BY Kinds DEF Init, TypeOK, Steps, Answers
<1>2. AnsweredIsDone
  BY DEF Init, AnsweredIsDone
<1>3. RegistrationInv
  BY Kinds DEF Init, RegistrationInv, Unwritten, RegistrationIsAtomic, ConflictIsTrue
<1>4. TokenInv
  BY Kinds DEF Init, TokenInv, Ungranted, OwnedByUser, Revoking, LoggedOut,
     RevokedExactlyByUse, NoToken
<1>5. AccountIsThere
  BY Kinds DEF Init, AccountIsThere
<1> QED BY <1>1, <1>2, <1>3, <1>4, <1>5 DEF AuthInv

(***************************************************************************)
(* What a step of one kind of call leaves alone                            *)
(***************************************************************************)
Same(c) == pc'[c] = pc[c] /\ body'[c] = body[c] /\ answer'[c] = answer[c]

\* What is said of registrations needs the two tables and the registrations only.
LEMMA RegistrationFrame ==
    ASSUME RegistrationInv, UNCHANGED <<user, account>>,
           \A r \in Registrations : Same(r)
    PROVE  RegistrationInv'
<1>1. \A r \in Registrations : Address(r)' = Address(r)
  BY DEF Same, Address
<1>2. \A r \in Registrations : Unwritten(r)'
  BY <1>1 DEF RegistrationInv, Unwritten, EmailTaken, EmailHeld, HeldBy, Same
<1>3. RegistrationIsAtomic'
  BY DEF RegistrationInv, RegistrationIsAtomic, Same
<1>4. ConflictIsTrue'
  BY <1>1 DEF RegistrationInv, ConflictIsTrue, Same
<1> QED BY <1>2, <1>3, <1>4 DEF RegistrationInv

\* Users are only added.
UsersStay == \A r \in Registrations : user[r] # NoUser => user'[r] # NoUser

\* A token keeps an owner, since users are only added.
LEMMA OwnersStay ==
    ASSUME TypeOK, OwnedByUser, UsersStay, UNCHANGED token
    PROVE  OwnedByUser'
BY DEF TypeOK, OwnedByUser, UsersStay

\* What is said of tokens needs their table and the calls that use them only.
LEMMA TokenFrame ==
    ASSUME TypeOK, TokenInv, UsersStay, UNCHANGED token,
           \A c \in Grants \cup Logouts : Same(c)
    PROVE  TokenInv'
<1>1. OwnedByUser'
  BY OwnersStay DEF TokenInv
<1>2. Ungranted' /\ Revoking' /\ LoggedOut'
  BY Kinds DEF TokenInv, Ungranted, Revoking, LoggedOut, Same
<1>3. RevokedExactlyByUse'
  BY Kinds DEF TokenInv, RevokedExactlyByUse, Same
<1> QED BY <1>1, <1>2, <1>3 DEF TokenInv

\* What is said of reads needs the reads only.
LEMMA ReadFrame ==
    ASSUME AccountIsThere, \A c \in Reads : Same(c)
    PROVE  AccountIsThere'
BY DEF AccountIsThere, Same

\* The conjuncts of TypeOK about one call.
BodyOK(c) ==
    pc[c] # "idle" =>
        IF c \in Registrations \cup Logins THEN body[c] \in Credentials
                                           ELSE body[c] \in Grants \cup {None}
StoredOK(c) == pc[c] = "committed" \/ answer[c] = "200" => token[c] # NoToken

(***************************************************************************)
(* Registration                                                            *)
(***************************************************************************)
\* The SELECT of a registration keeps the invariant.
LEMMA register_keeps ==
    ASSUME AuthInv, NEW r \in Registrations, register(r)
    PROVE  AuthInv'
<1> USE DEF AuthInv
<1>1. PICK b \in Credentials :
        /\ Send(r, b)
        /\ IF EmailTaken(EmailStr[b.email])
           THEN Respond(r, "409 email")
           ELSE Goto(r, "checked") /\ UNCHANGED answer
  BY DEF register
<1>2. r \in Calls /\ UNCHANGED <<user, account, token, life>>
  BY Kinds DEF register
<1>3. /\ pc[r] = "idle" /\ answer[r] = "none" /\ body'[r] = b
      /\ \/ ~EmailTaken(EmailStr[b.email]) /\ pc'[r] = "checked" /\ answer'[r] = "none"
         \/ EmailTaken(EmailStr[b.email]) /\ pc'[r] = "done" /\ answer'[r] = "409 email"
      /\ \A d \in Calls \ {r} : Same(d)
  BY <1>1, <1>2 DEF TypeOK, AnsweredIsDone, Send, Respond, Goto, Same
<1>4. TypeOK'
  <2>1. pc' \in [Calls -> Steps] /\ answer' \in [Calls -> Answers]
    BY <1>1, <1>2 DEF TypeOK, Steps, Answers, Respond, Goto
  <2>2. body' \in [Calls -> Credentials \cup Grants \cup {None}]
    BY <1>1, <1>2 DEF TypeOK, Send
  <2>3. \A c \in Calls : BodyOK(c)'
    <3>1. BodyOK(r)'
      BY <1>3 DEF BodyOK
    <3>2. \A c \in Calls \ {r} : BodyOK(c)
      BY DEF TypeOK, BodyOK
    <3> QED BY <3>1, <3>2, <1>3 DEF BodyOK, Same
  <2>4. \A c \in Grants : StoredOK(c)'
    BY <1>2, <1>3, Kinds DEF TypeOK, StoredOK, Same
  <2> QED BY <1>2, <2>1, <2>2, <2>3, <2>4 DEF TypeOK, BodyOK, StoredOK
<1>5. AnsweredIsDone'
  BY <1>3 DEF AnsweredIsDone, Same
<1>6. \A q \in Registrations \ {r} : Address(q)' = Address(q) /\ Same(q)
  BY <1>2, <1>3, Kinds DEF Same, Address
<1>7. Address(r)' = EmailStr[b.email]
  BY <1>3 DEF Address
<1>8. RegistrationInv'
  <2>1. \A q \in Registrations : Unwritten(q)'
    <3> TAKE q \in Registrations
    <3>1. CASE q = r
      BY <3>1, <1>2, <1>3 DEF RegistrationInv, Unwritten
    <3>2. CASE q # r
      <4>1. Unwritten(q) /\ Same(q) /\ Address(q)' = Address(q)
        BY <3>2, <1>6 DEF RegistrationInv
      <4>2. EmailTaken(Address(q))' = EmailTaken(Address(q))
        BY <4>1, <1>2 DEF EmailTaken
      <4>3. EmailHeld(q)' => EmailHeld(q)
        BY <4>1, <1>3, <1>6 DEF EmailHeld, HeldBy, Same
      <4> QED BY <4>1, <4>2, <4>3, <1>2 DEF Unwritten, Same
    <3> QED BY <3>1, <3>2
  <2>2. RegistrationIsAtomic'
    BY <1>2, <1>3, <1>6 DEF RegistrationInv, Unwritten, RegistrationIsAtomic, Same
  <2>3. ConflictIsTrue'
    <3> SUFFICES ASSUME NEW p \in Registrations, answer'[p] = "409 email"
                 PROVE  \E q \in Registrations \ {p} :
                          user'[q] # NoUser /\ user'[q].email = Address(p)'
      BY DEF ConflictIsTrue
    <3>1. CASE p = r
      <4>1. EmailTaken(EmailStr[b.email]) /\ user[r] = NoUser
        BY <3>1, <1>3 DEF RegistrationInv, Unwritten
      <4> QED BY <4>1, <3>1, <1>2, <1>7 DEF EmailTaken
    <3>2. CASE p # r
      BY <3>2, <1>2, <1>6 DEF RegistrationInv, ConflictIsTrue, Same
    <3> QED BY <3>1, <3>2
  <2> QED BY <2>1, <2>2, <2>3 DEF RegistrationInv
<1>9. TokenInv'
  BY TokenFrame, <1>2, <1>3, Kinds DEF UsersStay
<1>10. AccountIsThere'
  BY ReadFrame, <1>3, Kinds
<1> QED BY <1>4, <1>5, <1>8, <1>9, <1>10

\* A flushed user is in no table yet, and its e-mail is free or held by nobody else.
LEMMA flush_user_keeps ==
    ASSUME AuthInv, NEW r \in Registrations, flush_user(r)
    PROVE  AuthInv'
<1> USE DEF AuthInv
<1>1. r \in Calls /\ UNCHANGED <<user, account, token, life, body>>
  BY Kinds DEF flush_user, MayFlush
<1>2. /\ pc[r] = "checked" /\ answer[r] = "none"
      /\ ~EmailHeld(r)
      /\ \/ ~EmailTaken(Address(r)) /\ pc'[r] = "flushed" /\ answer'[r] = "none"
         \/ EmailTaken(Address(r)) /\ pc'[r] = "done" /\ answer'[r] = "409 email"
      /\ \A d \in Calls \ {r} : Same(d)
  BY <1>1 DEF flush_user, MayFlush, TypeOK, AnsweredIsDone, Respond, Goto, Same
<1>3. TypeOK'
  <2>1. pc' \in [Calls -> Steps] /\ answer' \in [Calls -> Answers]
    BY <1>1 DEF flush_user, MayFlush, TypeOK, Steps, Answers, Respond, Goto
  <2> QED BY <1>1, <1>2, <2>1, Kinds DEF TypeOK, Same
<1>4. AnsweredIsDone'
  BY <1>2 DEF AnsweredIsDone, Same
<1>5. \A q \in Registrations : Address(q)' = Address(q)
  BY <1>1 DEF Address
<1>6. \A q \in Registrations \ {r} : Same(q)
  BY <1>2, Kinds
<1>7. RegistrationInv'
  <2>1. \A q \in Registrations : Unwritten(q)'
    <3> TAKE q \in Registrations
    <3>1. CASE q = r
      <4>1. EmailTaken(Address(r))' = EmailTaken(Address(r))
        BY <1>1, <1>5 DEF EmailTaken
      <4>2. EmailHeld(r)' => EmailHeld(r)
        BY <1>5, <1>6 DEF EmailHeld, HeldBy, Same
      <4> QED BY <3>1, <4>1, <4>2, <1>1, <1>2 DEF RegistrationInv, Unwritten
    <3>2. CASE q # r
      <4>1. Unwritten(q) /\ Same(q)
        BY <3>2, <1>6 DEF RegistrationInv
      <4>2. EmailTaken(Address(q))' = EmailTaken(Address(q))
        BY <1>1, <1>5 DEF EmailTaken
      <4>3. pc[q] = "flushed" => Address(q) # Address(r)
        BY <3>2, <1>2 DEF EmailHeld, HeldBy
      <4>4. pc[q] = "flushed" /\ EmailHeld(q)' => EmailHeld(q)
        BY <4>3, <1>5, <1>6 DEF EmailHeld, HeldBy, Same
      <4> QED BY <4>1, <4>2, <4>4, <1>1 DEF Unwritten, Same
    <3> QED BY <3>1, <3>2
  <2>2. RegistrationIsAtomic'
    BY <1>1, <1>2, <1>6 DEF RegistrationInv, Unwritten, RegistrationIsAtomic, Same
  <2>3. ConflictIsTrue'
    BY <1>1, <1>2, <1>5, <1>6
       DEF RegistrationInv, Unwritten, ConflictIsTrue, EmailTaken, Same
  <2> QED BY <2>1, <2>2, <2>3 DEF RegistrationInv
<1>8. TokenInv'
  BY TokenFrame, <1>1, <1>2, Kinds DEF UsersStay
<1>9. AccountIsThere'
  BY ReadFrame, <1>2, Kinds
<1> QED BY <1>3, <1>4, <1>7, <1>8, <1>9

\* The commit adds a user and its account, or neither.
LEMMA commit_user_keeps ==
    ASSUME AuthInv, NEW r \in Registrations, commit_user(r)
    PROVE  AuthInv'
<1> USE DEF AuthInv
<1>1. r \in Calls /\ UNCHANGED <<token, life, body>>
  BY Kinds DEF commit_user
<1>2. PICK n \in Numbers :
        IF NumberTaken(n)
        THEN Respond(r, "409 number") /\ UNCHANGED <<user, account>>
        ELSE UserWithAccount(r, n) /\ Goto(r, "committed") /\ UNCHANGED answer
  BY DEF commit_user
<1>3. pc[r] = "flushed" /\ answer[r] = "none" /\ user[r] = NoUser /\ account[r] = None
  BY <1>1 DEF commit_user, AnsweredIsDone, RegistrationInv, Unwritten, RegistrationIsAtomic
<1>4. \A q \in Registrations : Address(q)' = Address(q)
  BY <1>1 DEF Address
<1>5. UserRow(r) \in Credentials /\ UserRow(r) # NoUser /\ UserRow(r).email = Address(r)
  <2>1. body[r] \in Credentials
    BY <1>1, <1>3 DEF TypeOK
  <2> QED BY <2>1, NotARow, EmailStrNormalises DEF UserRow, Address, Credentials
<1>6. /\ pc' = [pc EXCEPT ![r] = IF NumberTaken(n) THEN "done" ELSE "committed"]
      /\ answer' = [answer EXCEPT ![r] = IF NumberTaken(n) THEN "409 number" ELSE @]
  BY <1>1, <1>2 DEF Respond, Goto, TypeOK
<1>7. /\ pc'[r] = IF NumberTaken(n) THEN "done" ELSE "committed"
      /\ answer'[r] = IF NumberTaken(n) THEN "409 number" ELSE "none"
      /\ \A d \in Calls \ {r} : Same(d)
  BY <1>1, <1>3, <1>6 DEF TypeOK, Same
<1>8. \A q \in Registrations \ {r} : Same(q) /\ user'[q] = user[q] /\ account'[q] = account[q]
  <2>1. \A q \in Registrations \ {r} : user'[q] = user[q] /\ account'[q] = account[q]
    BY <1>2 DEF TypeOK, UserWithAccount
  <2> QED BY <2>1, <1>7, Kinds
<1>9. IF NumberTaken(n) THEN UNCHANGED <<user, account>>
                        ELSE user'[r] = UserRow(r) /\ account'[r] = n
  BY <1>2 DEF TypeOK, UserWithAccount
<1>10. TypeOK'
  <2>1. user' \in [Registrations -> Credentials \cup {NoUser}]
    BY <1>2, <1>5 DEF TypeOK, UserWithAccount
  <2>2. account' \in [Registrations -> Numbers \cup {None}]
    BY <1>2 DEF TypeOK, UserWithAccount
  <2>3. pc' \in [Calls -> Steps] /\ answer' \in [Calls -> Answers]
    BY <1>6 DEF TypeOK, Steps, Answers
  <2>4. \A c \in Calls : BodyOK(c)'
    BY <1>1, <1>3, <1>7 DEF TypeOK, BodyOK, Same
  <2>5. \A c \in Grants : StoredOK(c)'
    BY <1>1, <1>7, Kinds DEF TypeOK, StoredOK, Same
  <2> QED BY <1>1, <2>1, <2>2, <2>3, <2>4, <2>5 DEF TypeOK, BodyOK, StoredOK
<1>11. AnsweredIsDone'
  BY <1>7 DEF AnsweredIsDone, Same
<1>12. RegistrationInv'
  <2>1. \A q \in Registrations : Unwritten(q)'
    <3> TAKE q \in Registrations
    <3>1. CASE q = r
      BY <3>1, <1>5, <1>7, <1>9 DEF Unwritten
    <3>2. CASE q # r
      <4>1. Unwritten(q) /\ Same(q) /\ user'[q] = user[q]
        BY <3>2, <1>8 DEF RegistrationInv
      <4>2. pc[q] = "flushed" => Address(q) # Address(r)
        BY <4>1, <3>2, <1>3 DEF Unwritten, EmailHeld, HeldBy
      <4>3. pc[q] = "flushed" /\ EmailTaken(Address(q))' => EmailTaken(Address(q))
        BY <4>2, <1>4, <1>5, <1>8, <1>9 DEF EmailTaken
      <4>4. EmailHeld(q)' => EmailHeld(q)
        BY <1>4, <1>7, <1>8 DEF EmailHeld, HeldBy, Same
      <4> QED BY <4>1, <4>3, <4>4 DEF Unwritten, Same
    <3> QED BY <3>1, <3>2
  <2>2. RegistrationIsAtomic'
    <3>1. CASE NumberTaken(n)
      BY <3>1, <1>3, <1>7, <1>8, <1>9 DEF RegistrationInv, RegistrationIsAtomic, Same
    <3>2. CASE ~NumberTaken(n)
      <4>1. \A q \in Registrations \ {r} :
              user[q] # NoUser => user[q].email # Address(r) /\ account[q] # n
        BY <3>2, <1>3 DEF RegistrationInv, Unwritten, EmailTaken, NumberTaken
      <4>2. n # None /\ user'[r] # NoUser /\ user'[r].email = Address(r) /\ account'[r] = n
        BY <3>2, <1>5, <1>9, Kinds
      <4>3. answer'[r] = "none"
        BY <3>2, <1>7
      <4>4. \A p \in Registrations :
              /\ user'[p] = NoUser <=> account'[p] = None
              /\ answer'[p] \in {"409 email", "409 number"} => user'[p] = NoUser
        BY <4>2, <4>3, <1>8 DEF RegistrationInv, RegistrationIsAtomic, Same
      <4>5. \A p, q \in Registrations : p # q /\ user'[q] # NoUser =>
              user'[q].email # user'[p].email /\ account'[q] # account'[p]
        <5> SUFFICES ASSUME NEW p \in Registrations, NEW q \in Registrations,
                            p # q, user'[q] # NoUser
                     PROVE  user'[q].email # user'[p].email /\ account'[q] # account'[p]
          OBVIOUS
        <5>1. CASE p = r
          BY <5>1, <4>1, <4>2, <1>8
        <5>2. CASE q = r
          <6>1. CASE user[p] = NoUser
            <7>1. Address(r) \in Emails
              BY <1>5 DEF Credentials
            <7>2. user'[p].email = None /\ account'[p] = None
              <8>1. user'[p] = NoUser /\ account'[p] = None
                BY <6>1, <5>2, <1>8 DEF RegistrationInv, RegistrationIsAtomic
              <8> QED BY <8>1 DEF NoUser
            <7> QED BY <7>1, <7>2, <5>2, <4>2, Kinds
          <6>2. CASE user[p] # NoUser
            BY <6>2, <5>2, <4>1, <4>2, <1>8
          <6> QED BY <6>1, <6>2
        <5>3. CASE p # r /\ q # r
          BY <5>3, <1>8 DEF RegistrationInv, RegistrationIsAtomic
        <5> QED BY <5>1, <5>2, <5>3
      <4> QED BY <4>4, <4>5 DEF RegistrationIsAtomic
    <3> QED BY <3>1, <3>2
  <2>3. ConflictIsTrue'
    BY <1>3, <1>4, <1>7, <1>8 DEF RegistrationInv, ConflictIsTrue, Same
  <2> QED BY <2>1, <2>2, <2>3 DEF RegistrationInv
<1>13. TokenInv'
  <2>1. UsersStay
    BY <1>3, <1>8 DEF UsersStay
  <2> QED BY TokenFrame, <2>1, <1>1, <1>7, Kinds
<1>14. AccountIsThere'
  BY ReadFrame, <1>7, Kinds
<1> QED BY <1>10, <1>11, <1>12, <1>13, <1>14

(***************************************************************************)
(* Grants, logouts and reads                                               *)
(***************************************************************************)
\* A call that begins without touching a table.
LEMMA BeginKeeps ==
    ASSUME AuthInv, UNCHANGED <<user, account, token, life>>,
           NEW c \in Calls, NEW content \in Credentials \cup Grants \cup {None},
           NEW step \in Steps, NEW reply \in Answers,
           Send(c, content),
           (Goto(c, step) /\ UNCHANGED answer) \/ Respond(c, reply),
           c \notin Registrations,
           IF c \in Logins THEN content \in Credentials ELSE content \in Grants \cup {None},
           c \in Grants => step # "committed" /\ reply # "200"
    PROVE  /\ TypeOK' /\ AnsweredIsDone' /\ RegistrationInv' /\ OwnedByUser'
           /\ pc[c] = "idle" /\ answer[c] = "none" /\ body'[c] = content
           /\ \/ pc'[c] = step /\ answer'[c] = "none"
              \/ pc'[c] = "done" /\ answer'[c] = reply
           /\ \A d \in Calls \ {c} : Same(d)
<1> USE DEF AuthInv
<1>1. /\ answer[c] = "none" /\ body'[c] = content
      /\ \/ pc'[c] = step /\ answer'[c] = "none"
         \/ pc'[c] = "done" /\ answer'[c] = reply
      /\ \A d \in Calls \ {c} : Same(d)
  BY DEF TypeOK, AnsweredIsDone, Same, Send, Goto, Respond
<1>2. TypeOK'
  <2>1. pc' \in [Calls -> Steps] /\ answer' \in [Calls -> Answers]
    BY DEF TypeOK, Steps, Goto, Respond
  <2>2. body' \in [Calls -> Credentials \cup Grants \cup {None}]
    BY DEF TypeOK, Send
  <2>3. \A d \in Calls : BodyOK(d)'
    <3>1. BodyOK(c)'
      BY <1>1, Kinds DEF BodyOK
    <3>2. \A d \in Calls \ {c} : BodyOK(d)
      BY DEF TypeOK, BodyOK
    <3> QED BY <3>1, <3>2, <1>1 DEF BodyOK, Same
  <2>4. \A d \in Grants : StoredOK(d)'
    <3>1. c \in Grants => StoredOK(c)'
      BY <1>1 DEF StoredOK
    <3>2. \A d \in Grants : StoredOK(d)
      BY DEF TypeOK, StoredOK
    <3> QED BY <3>1, <3>2, <1>1, Kinds DEF StoredOK, Same
  <2> QED BY <2>1, <2>2, <2>3, <2>4 DEF TypeOK, BodyOK, StoredOK
<1>3. AnsweredIsDone'
  BY <1>1 DEF AnsweredIsDone, Same
<1>4. RegistrationInv'
  BY RegistrationFrame, <1>1, Kinds
<1>5. OwnedByUser'
  BY OwnersStay DEF TokenInv, UsersStay
<1>6. pc[c] = "idle"
  BY DEF Send
<1> QED BY <1>1, <1>2, <1>3, <1>4, <1>5, <1>6

\* A login past its check has found a user.
LEMMA login_keeps ==
    ASSUME AuthInv, NEW c \in Logins, login(c)
    PROVE  AuthInv'
<1> USE DEF AuthInv
<1>1. PICK b \in Credentials :
        /\ Send(c, b)
        /\ IF Verified(b) = {}
           THEN Respond(c, "401")
           ELSE Goto(c, "verified") /\ UNCHANGED answer
  BY DEF login
<1>2. c \in Calls /\ c \notin Registrations /\ UNCHANGED <<user, account, token, life>>
  BY Kinds DEF login
<1>3. /\ TypeOK' /\ AnsweredIsDone' /\ RegistrationInv' /\ OwnedByUser'
      /\ pc[c] = "idle"
      /\ pc'[c] = "verified" \/ pc'[c] = "done"
      /\ \A d \in Calls \ {c} : Same(d)
  <2>1. "verified" \in Steps /\ "401" \in Answers
    BY DEF Steps, Answers
  <2>2. (Goto(c, "verified") /\ UNCHANGED answer) \/ Respond(c, "401")
    BY <1>1
  <2> QED BY <1>1, <1>2, <2>1, <2>2, BeginKeeps
<1>4. TokenInv'
  <2>1. Ungranted' /\ Revoking' /\ LoggedOut'
    BY <1>2, <1>3, Kinds DEF TokenInv, Ungranted, Revoking, LoggedOut, Same
  <2>2. RevokedExactlyByUse'
    BY <1>2, <1>3, Kinds DEF TokenInv, RevokedExactlyByUse, Same
  <2> QED BY <2>1, <2>2, <1>3 DEF TokenInv
<1>5. AccountIsThere'
  BY ReadFrame, <1>2, <1>3, Kinds
<1> QED BY <1>3, <1>4, <1>5

\* A token a client was given is in the table.
LEMMA KnownStored == ASSUME TypeOK, NEW t \in Known, t # None
                     PROVE  t \in Grants /\ token[t] # NoToken
BY DEF TypeOK, Known

\* A refresh past its check has a stored token.
LEMMA refresh_token_endpoint_keeps ==
    ASSUME AuthInv, NEW c \in Refreshes, refresh_token_endpoint(c)
    PROVE  AuthInv'
<1> USE DEF AuthInv
<1>1. PICK t \in Known :
        /\ Send(c, t)
        /\ IF Accepted(t)
           THEN Goto(c, "rotating") /\ UNCHANGED answer
           ELSE Respond(c, "401")
  BY DEF refresh_token_endpoint
<1>2. c \in Calls /\ c \notin Registrations /\ UNCHANGED <<user, account, token, life>>
  BY Kinds DEF refresh_token_endpoint
<1>3. t \in Grants \cup {None}
  BY DEF Known
<1>4. /\ TypeOK' /\ AnsweredIsDone' /\ RegistrationInv' /\ OwnedByUser'
      /\ pc[c] = "idle" /\ body'[c] = t
      /\ pc'[c] = "rotating" \/ pc'[c] = "done"
      /\ \A d \in Calls \ {c} : Same(d)
  <2>1. "rotating" \in Steps /\ "401" \in Answers
    BY DEF Steps, Answers
  <2>2. (Goto(c, "rotating") /\ UNCHANGED answer) \/ Respond(c, "401")
    BY <1>1
  <2>3. c \notin Logins
    BY Kinds
  <2> QED BY <1>1, <1>2, <1>3, <2>1, <2>2, <2>3, BeginKeeps
<1>5. pc'[c] = "rotating" => t \in Grants /\ token[t] # NoToken
  <2>1. pc'[c] = "rotating" => Accepted(t)
    BY <1>1, <1>2 DEF Respond, Goto, TypeOK
  <2> QED BY <2>1, KnownStored DEF Accepted
<1>6. token[c] = NoToken
  BY <1>4, Kinds DEF TokenInv, Ungranted
<1>7. TokenInv'
  <2>1. Ungranted' /\ LoggedOut'
    BY <1>2, <1>4, <1>6, Kinds DEF TokenInv, Ungranted, LoggedOut, Same
  <2>2. Revoking'
    BY <1>2, <1>4, <1>5, Kinds DEF TokenInv, Revoking, Same
  <2>3. RevokedExactlyByUse'
    BY <1>2, <1>4, <1>6, Kinds DEF TokenInv, RevokedExactlyByUse, Same
  <2> QED BY <2>1, <2>2, <2>3, <1>4 DEF TokenInv
<1>8. AccountIsThere'
  BY ReadFrame, <1>2, <1>4, Kinds
<1> QED BY <1>4, <1>7, <1>8

\* A logout past its check has a stored token.
LEMMA logout_keeps ==
    ASSUME AuthInv, NEW c \in Logouts, logout(c)
    PROVE  AuthInv'
<1> USE DEF AuthInv
<1>1. PICK t \in Known :
        /\ Send(c, t)
        /\ IF t = None
           THEN Respond(c, "204")
           ELSE Goto(c, "revoking") /\ UNCHANGED answer
  BY DEF logout
<1>2. /\ c \in Calls /\ c \notin Registrations /\ c \notin Grants
      /\ UNCHANGED <<user, account, token, life>>
  BY Kinds DEF logout
<1>3. t \in Grants \cup {None}
  BY DEF Known
<1>4. /\ TypeOK' /\ AnsweredIsDone' /\ RegistrationInv' /\ OwnedByUser'
      /\ pc[c] = "idle" /\ body'[c] = t
      /\ \/ pc'[c] = "revoking" /\ answer'[c] = "none"
         \/ pc'[c] = "done" /\ answer'[c] = "204"
      /\ \A d \in Calls \ {c} : Same(d)
  <2>1. "revoking" \in Steps /\ "204" \in Answers
    BY DEF Steps, Answers
  <2>2. (Goto(c, "revoking") /\ UNCHANGED answer) \/ Respond(c, "204")
    BY <1>1
  <2>3. c \notin Logins
    BY Kinds
  <2> QED BY <1>1, <1>2, <1>3, <2>1, <2>2, <2>3, BeginKeeps
<1>5. IF t = None THEN pc'[c] = "done" ELSE pc'[c] = "revoking"
  BY <1>1, <1>2 DEF Respond, Goto, TypeOK
<1>6. t # None => t \in Grants /\ token[t] # NoToken
  BY KnownStored
<1>7. TokenInv'
  <2>1. Ungranted' /\ LoggedOut'
    BY <1>2, <1>4, <1>5, Kinds DEF TokenInv, Ungranted, LoggedOut, Same
  <2>2. Revoking'
    BY <1>2, <1>4, <1>5, <1>6, Kinds DEF TokenInv, Revoking, Same
  <2>3. RevokedExactlyByUse'
    BY <1>2, <1>3, <1>4, <1>5, Kinds DEF TokenInv, RevokedExactlyByUse, Same
  <2> QED BY <2>1, <2>2, <2>3, <1>4 DEF TokenInv
<1>8. AccountIsThere'
  BY ReadFrame, <1>2, <1>4, Kinds
<1> QED BY <1>4, <1>7, <1>8

\* The owner of a token that was handed out has an account.
LEMMA get_my_balance_keeps ==
    ASSUME AuthInv, NEW c \in Reads, get_my_balance(c)
    PROVE  AuthInv'
<1> USE DEF AuthInv
<1>1. PICK t \in Known :
        /\ Send(c, t)
        /\ Respond(c,
               IF t = None \/ life[t] # "fresh" THEN "401"
               ELSE IF account[token[t].user] = None THEN "404" ELSE "200")
  BY DEF get_my_balance
<1>2. /\ c \in Calls /\ c \notin Registrations /\ c \notin Grants /\ c \notin Logouts
      /\ UNCHANGED <<user, account, token, life>>
  BY Kinds DEF get_my_balance
<1>3. t \in Grants \cup {None}
  BY DEF Known
<1>4. t # None => account[token[t].user] # None
  <2>1. t # None => t \in Grants /\ token[t] # NoToken
    BY KnownStored
  <2>2. t # None => token[t].user \in Registrations /\ user[token[t].user] # NoUser
    BY <2>1 DEF TypeOK, TokenInv, OwnedByUser
  <2> QED BY <2>2 DEF RegistrationInv, RegistrationIsAtomic
<1>5. PICK reply \in {"401", "200"} : Respond(c, reply)
  BY <1>1, <1>4
<1>6. /\ TypeOK' /\ AnsweredIsDone' /\ RegistrationInv' /\ OwnedByUser'
      /\ pc[c] = "idle" /\ pc'[c] = "done" /\ answer'[c] = reply
      /\ \A d \in Calls \ {c} : Same(d)
  <2>1. "done" \in Steps /\ reply \in Answers
    BY DEF Steps, Answers
  <2>2. TypeOK' /\ AnsweredIsDone' /\ RegistrationInv' /\ OwnedByUser' /\ pc[c] = "idle"
        /\ \A d \in Calls \ {c} : Same(d)
    <3>1. c \notin Logins
      BY Kinds
    <3> QED BY <1>1, <1>2, <1>3, <1>5, <2>1, <3>1, BeginKeeps
  <2>3. pc'[c] = "done" /\ answer'[c] = reply
    BY <1>2, <1>5 DEF Respond, Goto, TypeOK
  <2> QED BY <2>2, <2>3
<1>7. TokenInv'
  BY TokenFrame, <1>2, <1>6, Kinds DEF UsersStay
<1>8. AccountIsThere'
  BY <1>6, Kinds DEF AccountIsThere, Same
<1> QED BY <1>6, <1>7, <1>8

\* A call that goes on or ends where only tokens and its pc may change.
LEMMA StepKeeps ==
    ASSUME AuthInv, UNCHANGED <<user, account, life, body, answer>>,
           NEW c \in Calls \ Registrations, NEW step \in Steps,
           pc[c] \notin {"idle", "done"}, Goto(c, step),
           token' \in [Grants -> [user : Registrations, revoked : BOOLEAN] \cup {NoToken}],
           \A t \in Grants : token[t] # NoToken => token'[t] # NoToken,
           c \in Grants /\ step = "committed" => token'[c] # NoToken
    PROVE  /\ TypeOK' /\ AnsweredIsDone' /\ RegistrationInv' /\ AccountIsThere'
           /\ answer[c] = "none" /\ pc'[c] = step
           /\ \A d \in Calls \ {c} : Same(d)
           /\ \A d \in Calls : body'[d] = body[d] /\ answer'[d] = answer[d]
<1> USE DEF AuthInv
<1>1. /\ answer[c] = "none" /\ pc'[c] = step
      /\ \A d \in Calls \ {c} : Same(d)
      /\ \A d \in Calls : body'[d] = body[d] /\ answer'[d] = answer[d]
  BY DEF TypeOK, AnsweredIsDone, Same, Goto
<1>2. TypeOK'
  <2>1. pc' \in [Calls -> Steps]
    BY DEF TypeOK, Goto
  <2>2. \A d \in Calls : BodyOK(d)'
    <3>1. \A d \in Calls : BodyOK(d)
      BY DEF TypeOK, BodyOK
    <3> QED BY <3>1, <1>1 DEF BodyOK, Same
  <2>3. \A d \in Grants : StoredOK(d)'
    <3>1. \A d \in Grants : StoredOK(d)
      BY DEF TypeOK, StoredOK
    <3> QED BY <3>1, <1>1, Kinds DEF StoredOK, Same
  <2> QED BY <2>1, <2>2, <2>3 DEF TypeOK, BodyOK, StoredOK
<1>3. AnsweredIsDone'
  BY <1>1 DEF AnsweredIsDone, Same
<1>4. RegistrationInv'
  BY RegistrationFrame, <1>1, Kinds
<1>5. AccountIsThere'
  BY DEF AccountIsThere
<1> QED BY <1>1, <1>2, <1>3, <1>4, <1>5

\* A login stores a token of its user, unrevoked.
LEMMA commit_token_keeps ==
    ASSUME AuthInv, NEW c \in Logins, commit_token(c)
    PROVE  AuthInv'
<1> USE DEF AuthInv
<1>1. PICK r \in UserWith(body[c]) : StoreToken(c, r)
  BY DEF commit_token, MayGrant
<1>2. r \in Registrations /\ user[r] # NoUser
  BY DEF UserWith
<1>3. /\ c \in Calls \ Registrations /\ c \in Grants /\ pc[c] = "verified"
      /\ UNCHANGED <<user, account, life, body, answer>>
  BY Kinds DEF commit_token, MayGrant
<1>4. token[c] = NoToken
  BY <1>3 DEF TokenInv, Ungranted
<1>5. /\ token'[c] = [user |-> r, revoked |-> FALSE]
      /\ \A t \in Grants \ {c} : token'[t] = token[t]
  BY <1>1, <1>3 DEF StoreToken, TypeOK
<1>6. token' \in [Grants -> [user : Registrations, revoked : BOOLEAN] \cup {NoToken}]
  BY <1>1, <1>2 DEF StoreToken, TypeOK
<1>7. token'[c] # NoToken
  <2>1. token'[c] \in [user : Registrations, revoked : BOOLEAN]
    BY <1>2, <1>5
  <2> QED BY <2>1, NotARow
<1>8. /\ TypeOK' /\ AnsweredIsDone' /\ RegistrationInv' /\ AccountIsThere'
      /\ pc'[c] = "committed"
      /\ \A d \in Calls \ {c} : Same(d)
  <2>1. "committed" \in Steps /\ Goto(c, "committed")
    BY DEF Steps, commit_token, MayGrant
  <2>2. \A t \in Grants : token[t] # NoToken => token'[t] # NoToken
    BY <1>4, <1>5
  <2> QED BY <1>3, <1>6, <1>7, <2>1, <2>2, StepKeeps
<1>9. TokenInv'
  <2>1. Ungranted'
    BY <1>5, <1>8, Kinds DEF TokenInv, Ungranted, Same
  <2>2. OwnedByUser'
    BY <1>2, <1>3, <1>5 DEF TokenInv, OwnedByUser
  <2>3. Revoking'
    BY <1>5, <1>7, <1>8, Kinds DEF TokenInv, Revoking, Same
  <2>4. token[c].revoked = FALSE /\ token'[c].revoked = FALSE
    BY <1>4, <1>5 DEF NoToken
  <2>5. \A d \in Logouts : body[d] # c \/ pc[d] \notin {"committed", "done"}
    BY <1>3, <2>4, Kinds DEF TokenInv, LoggedOut
  <2>6. \A d \in Logouts : d # c /\ Same(d)
    BY <1>8, Kinds
  <2>7. LoggedOut'
    <3> SUFFICES ASSUME NEW d \in Logouts, pc'[d] \in {"committed", "done"}, body'[d] # None
                 PROVE  token'[body'[d]].revoked
      BY DEF LoggedOut
    <3>1. pc[d] \in {"committed", "done"} /\ body'[d] = body[d] /\ body[d] # None
      BY <2>6 DEF Same
    <3>2. body[d] \in Grants /\ body[d] # c
      BY <3>1, <2>5, Kinds DEF TypeOK
    <3> QED BY <3>1, <3>2, <1>5 DEF TokenInv, LoggedOut
  <2>8. RevokedExactlyByUse'
    <3> SUFFICES ASSUME NEW t \in Grants PROVE UseOf(t)'
      BY DEF RevokedExactlyByUse, UseOf
    <3>1. \A d \in Refreshes : d # c /\ token'[d] = token[d] /\ body'[d] = body[d]
      BY <1>3, <1>5, Kinds
    <3>2. CASE t = c
      <4>1. ~ \E d \in Refreshes : body[d] = t /\ token[d] # NoToken
        BY <3>2, <2>4 DEF TokenInv, RevokedExactlyByUse
      <4>2. \A d \in Logouts : ~(body'[d] = t /\ answer'[d] = "204")
        BY <3>2, <1>3, <2>5, Kinds DEF AnsweredIsDone
      <4> QED BY <3>1, <3>2, <4>1, <4>2, <2>4 DEF UseOf
    <3>3. CASE t # c
      <4>1. UseOf(t) /\ token'[t] = token[t]
        BY <3>3, <1>5 DEF TokenInv, RevokedExactlyByUse, UseOf
      <4> QED BY <3>1, <4>1, <2>6 DEF UseOf, Same
    <3> QED BY <3>2, <3>3
  <2> QED BY <2>1, <2>2, <2>3, <2>7, <2>8 DEF TokenInv
<1> QED BY <1>8, <1>9

\* A rotation revokes the token it replaces, in the commit that stores the new one.
LEMMA rotate_keeps ==
    ASSUME AuthInv, NEW c \in Refreshes, rotate(c)
    PROVE  AuthInv'
<1> USE DEF AuthInv
<1> DEFINE b == body[c]
<1>1. /\ c \in Calls \ Registrations /\ c \in Grants /\ c \notin Logouts
      /\ pc[c] = "rotating" /\ Goto(c, "committed")
      /\ UNCHANGED <<user, account, life, body, answer>>
      /\ token' = [token EXCEPT ![b].revoked = TRUE, ![c] = Successor(c)]
  BY Kinds DEF rotate, Rotated
<1>2. token[c] = NoToken /\ b \in Grants /\ token[b] # NoToken
  BY <1>1 DEF TokenInv, Ungranted, Revoking
<1>3. b # c
  BY <1>2
<1>4. token[b] \in [user : Registrations, revoked : BOOLEAN] /\ user[token[b].user] # NoUser
  BY <1>2 DEF TypeOK, TokenInv, OwnedByUser
<1>5. /\ token'[c] = [user |-> token[b].user, revoked |-> FALSE]
      /\ token'[b] = [token[b] EXCEPT !.revoked = TRUE]
      /\ \A t \in Grants \ {b, c} : token'[t] = token[t]
  BY <1>1, <1>2, <1>3 DEF TypeOK, Successor
<1>6. /\ token'[b].revoked /\ token'[b].user = token[b].user
      /\ token'[b] \in [user : Registrations, revoked : BOOLEAN]
      /\ token'[c] \in [user : Registrations, revoked : BOOLEAN]
  <2>1. token[b].user \in Registrations
    BY <1>4
  <2>2. token'[b] = [user |-> token[b].user, revoked |-> TRUE]
    BY <1>4, <1>5
  <2> QED BY <2>1, <2>2, <1>5
<1>7. token' \in [Grants -> [user : Registrations, revoked : BOOLEAN] \cup {NoToken}]
  <2>1. \A t \in Grants : token'[t] \in [user : Registrations, revoked : BOOLEAN] \cup {NoToken}
    BY <1>5, <1>6 DEF TypeOK
  <2>2. token' = [t \in Grants |-> token'[t]]
    BY <1>1 DEF TypeOK
  <2> QED BY <2>1, <2>2
<1>8. \A t \in Grants : token[t] # NoToken => token'[t] # NoToken
  BY <1>2, <1>5, <1>6, NotARow
<1>9. token'[c] # NoToken
  BY <1>6, NotARow
<1>10. /\ TypeOK' /\ AnsweredIsDone' /\ RegistrationInv' /\ AccountIsThere'
       /\ pc'[c] = "committed"
       /\ \A d \in Calls \ {c} : Same(d)
  <2>1. "committed" \in Steps
    BY DEF Steps
  <2> QED BY <1>1, <1>7, <1>8, <1>9, <2>1, StepKeeps
<1>11. \A t \in Grants : token[t].revoked => token'[t].revoked
  BY <1>2, <1>5, <1>6 DEF NoToken
<1>12. TokenInv'
  <2>1. Ungranted'
    <3>1. \A d \in Grants \ {c} : pc[d] \in {"idle", "verified", "rotating"} => d # b /\ Same(d)
      BY <1>2, <1>10, Kinds DEF TokenInv, Ungranted
    <3> QED BY <3>1, <1>5, <1>10, Kinds DEF TokenInv, Ungranted, Same
  <2>2. OwnedByUser'
    <3> SUFFICES ASSUME NEW t \in Grants, token'[t] # NoToken
                 PROVE  user[token'[t].user] # NoUser
      BY <1>1 DEF OwnedByUser
    <3>1. CASE t \in {b, c}
      <4>1. token'[t].user = token[b].user
        BY <3>1, <1>5, <1>6
      <4> QED BY <4>1, <1>4
    <3>2. CASE t \notin {b, c}
      BY <3>2, <1>5 DEF TokenInv, OwnedByUser
    <3> QED BY <3>1, <3>2
  <2>3. Revoking'
    BY <1>8, <1>10, Kinds DEF TokenInv, Revoking, Same
  <2>4. LoggedOut'
    <3> SUFFICES ASSUME NEW d \in Logouts, pc'[d] \in {"committed", "done"}, body'[d] # None
                 PROVE  token'[body'[d]].revoked
      BY DEF LoggedOut
    <3>1. pc[d] \in {"committed", "done"} /\ body'[d] = body[d] /\ body[d] # None
      BY <1>1, <1>10, Kinds DEF Same
    <3>2. body[d] \in Grants
      BY <3>1, Kinds DEF TypeOK
    <3> QED BY <3>1, <3>2, <1>11 DEF TokenInv, LoggedOut
  <2>5. RevokedExactlyByUse'
    <3> SUFFICES ASSUME NEW t \in Grants PROVE UseOf(t)'
      BY DEF RevokedExactlyByUse, UseOf
    <3>1. \A d \in Refreshes \ {c} : token'[d] # NoToken => token[d] # NoToken
      BY <1>2, <1>5, Kinds
    <3>2. (\E d \in Refreshes : body'[d] = t /\ token'[d] # NoToken) => token'[t].revoked
      <4> SUFFICES ASSUME NEW d \in Refreshes, body'[d] = t, token'[d] # NoToken
                   PROVE  token'[t].revoked
        OBVIOUS
      <4>1. CASE d = c
        BY <4>1, <1>1, <1>6
      <4>2. CASE d # c
        <5>1. body[d] = t /\ token[d] # NoToken
          BY <4>2, <3>1, <1>1
        <5> QED BY <5>1, <1>11 DEF TokenInv, RevokedExactlyByUse
      <4> QED BY <4>1, <4>2
    <3>3. \A d \in Logouts : body'[d] = t /\ answer'[d] = "204" => token'[t].revoked
      BY <1>1, <1>11 DEF TokenInv, RevokedExactlyByUse
    <3>4. ASSUME token'[t].revoked
          PROVE  \/ \E d \in Refreshes : body'[d] = t /\ token'[d] # NoToken
                 \/ \E d \in Logouts : body'[d] = t /\ pc'[d] \in {"committed", "done", "lost"}
      <4>1. CASE t = b
        BY <4>1, <1>1, <1>9
      <4>2. CASE t # b
        <5>1. token[t].revoked
          BY <3>4, <4>2, <1>5
        <5>2. CASE \E d \in Refreshes : body[d] = t /\ token[d] # NoToken
          BY <5>2, <1>1, <1>8, Kinds
        <5>3. CASE \E d \in Logouts : body[d] = t /\ pc[d] \in {"committed", "done", "lost"}
          BY <5>3, <1>1, <1>10, Kinds DEF Same
        <5> QED BY <5>1, <5>2, <5>3 DEF TokenInv, RevokedExactlyByUse
      <4> QED BY <4>1, <4>2
    <3> QED BY <3>2, <3>3, <3>4 DEF UseOf
  <2> QED BY <2>1, <2>2, <2>3, <2>4, <2>5 DEF TokenInv
<1> QED BY <1>10, <1>12

\* A logout revokes a token and changes nothing else.
LEMMA revoke_keeps ==
    ASSUME AuthInv, NEW c \in Logouts, revoke(c)
    PROVE  AuthInv'
<1> USE DEF AuthInv
<1> DEFINE b == body[c]
<1>1. /\ c \in Calls \ Registrations /\ c \notin Grants
      /\ pc[c] = "revoking" /\ Goto(c, "committed")
      /\ UNCHANGED <<user, account, life, body, answer>>
      /\ token' = [token EXCEPT ![b].revoked = TRUE]
  BY Kinds DEF revoke
<1>2. b \in Grants /\ token[b] # NoToken
  BY <1>1 DEF TokenInv, Revoking
<1>3. token[b] \in [user : Registrations, revoked : BOOLEAN] /\ user[token[b].user] # NoUser
  BY <1>2 DEF TypeOK, TokenInv, OwnedByUser
<1>4. /\ token'[b] = [token[b] EXCEPT !.revoked = TRUE]
      /\ \A t \in Grants \ {b} : token'[t] = token[t]
  BY <1>1, <1>2 DEF TypeOK
<1>5. /\ token'[b].revoked /\ token'[b].user = token[b].user
      /\ token'[b] \in [user : Registrations, revoked : BOOLEAN]
  <2>1. token'[b] = [user |-> token[b].user, revoked |-> TRUE]
    BY <1>3, <1>4
  <2> QED BY <2>1, <1>3
<1>6. token' \in [Grants -> [user : Registrations, revoked : BOOLEAN] \cup {NoToken}]
  <2>1. \A t \in Grants : token'[t] \in [user : Registrations, revoked : BOOLEAN] \cup {NoToken}
    BY <1>4, <1>5 DEF TypeOK
  <2>2. token' = [t \in Grants |-> token'[t]]
    BY <1>1 DEF TypeOK
  <2> QED BY <2>1, <2>2
<1>7. /\ \A t \in Grants : token'[t] = NoToken <=> token[t] = NoToken
      /\ \A t \in Grants : token[t].revoked => token'[t].revoked
      /\ \A t \in Grants : token'[t].user = token[t].user
  BY <1>2, <1>4, <1>5, NotARow
<1>8. /\ TypeOK' /\ AnsweredIsDone' /\ RegistrationInv' /\ AccountIsThere'
      /\ answer[c] = "none" /\ pc'[c] = "committed"
      /\ \A d \in Calls \ {c} : Same(d)
  <2>1. "committed" \in Steps
    BY DEF Steps
  <2> QED BY <1>1, <1>6, <1>7, <2>1, StepKeeps
<1>9. TokenInv'
  <2>1. Ungranted' /\ OwnedByUser'
    BY <1>1, <1>7, <1>8, Kinds DEF TokenInv, Ungranted, OwnedByUser, Same
  <2>2. Revoking'
    BY <1>1, <1>7, <1>8, Kinds DEF TokenInv, Revoking, Same
  <2>3. LoggedOut'
    <3> SUFFICES ASSUME NEW d \in Logouts, pc'[d] \in {"committed", "done"}, body'[d] # None
                 PROVE  token'[body'[d]].revoked
      BY DEF LoggedOut
    <3>1. CASE d = c
      BY <3>1, <1>1, <1>5
    <3>2. CASE d # c
      <4>1. pc[d] \in {"committed", "done"} /\ body'[d] = body[d] /\ body[d] # None
        BY <3>2, <1>8, Kinds DEF Same
      <4>2. body[d] \in Grants
        BY <4>1, Kinds DEF TypeOK
      <4> QED BY <4>1, <4>2, <1>7 DEF TokenInv, LoggedOut
    <3> QED BY <3>1, <3>2
  <2>4. RevokedExactlyByUse'
    <3> SUFFICES ASSUME NEW t \in Grants PROVE UseOf(t)'
      BY DEF RevokedExactlyByUse, UseOf
    <3>1. UseOf(t)
      BY DEF TokenInv, RevokedExactlyByUse, UseOf
    <3>2. (\E d \in Refreshes : body'[d] = t /\ token'[d] # NoToken) => token'[t].revoked
      BY <3>1, <1>1, <1>7, Kinds DEF UseOf
    <3>3. \A d \in Logouts : body'[d] = t /\ answer'[d] = "204" => token'[t].revoked
      BY <3>1, <1>1, <1>7 DEF UseOf
    <3>4. ASSUME token'[t].revoked
          PROVE  \/ \E d \in Refreshes : body'[d] = t /\ token'[d] # NoToken
                 \/ \E d \in Logouts : body'[d] = t /\ pc'[d] \in {"committed", "done", "lost"}
      <4>1. CASE t = b
        BY <4>1, <1>1, <1>8
      <4>2. CASE t # b
        <5>1. token[t].revoked
          BY <3>4, <4>2, <1>4
        <5>2. CASE \E d \in Refreshes : body[d] = t /\ token[d] # NoToken
          BY <5>2, <1>1, <1>7, Kinds
        <5>3. CASE \E d \in Logouts : body[d] = t /\ pc[d] \in {"committed", "done", "lost"}
          BY <5>3, <1>1, <1>8, Kinds DEF Same
        <5> QED BY <5>1, <5>2, <5>3, <3>1 DEF UseOf
      <4> QED BY <4>1, <4>2
    <3> QED BY <3>2, <3>3, <3>4 DEF UseOf
  <2> QED BY <2>1, <2>2, <2>3, <2>4 DEF TokenInv
<1> QED BY <1>8, <1>9

(***************************************************************************)
(* Answers, losses, time                                                   *)
(***************************************************************************)
\* A call ends, answered or lost: the tables keep what it has committed.
LEMMA EndKeeps ==
    ASSUME AuthInv, NEW c \in Calls, UNCHANGED <<user, account, token, life, body>>,
           \/ pc[c] = "committed" /\ Respond(c, Success(c))
           \/ pc[c] \notin {"idle", "done", "lost"} /\ Goto(c, "lost") /\ UNCHANGED answer
    PROVE  AuthInv'
<1> USE DEF AuthInv
<1>1. /\ pc[c] \notin {"idle", "done", "lost"} /\ answer[c] = "none"
      /\ \/ pc[c] = "committed" /\ pc'[c] = "done" /\ answer'[c] = Success(c)
         \/ pc'[c] = "lost" /\ answer'[c] = "none"
      /\ \A d \in Calls \ {c} : Same(d)
      /\ \A d \in Calls : body'[d] = body[d]
  BY DEF TypeOK, AnsweredIsDone, Same, Respond, Goto
<1>2. Success(c) \in {"200", "201", "204"}
  BY DEF Success
<1>3. TypeOK'
  <2>1. pc' \in [Calls -> Steps] /\ answer' \in [Calls -> Answers]
    <3>1. "done" \in Steps /\ "lost" \in Steps /\ Success(c) \in Answers
      BY <1>2 DEF Steps, Answers
    <3> QED BY <3>1 DEF TypeOK, Respond, Goto
  <2>2. \A d \in Calls : BodyOK(d)'
    <3>1. \A d \in Calls : BodyOK(d)
      BY DEF TypeOK, BodyOK
    <3> QED BY <3>1, <1>1 DEF BodyOK, Same
  <2>3. \A d \in Grants : StoredOK(d)'
    <3>1. \A d \in Grants : StoredOK(d)
      BY DEF TypeOK, StoredOK
    <3> QED BY <3>1, <1>1, Kinds DEF StoredOK, Same
  <2> QED BY <2>1, <2>2, <2>3 DEF TypeOK, BodyOK, StoredOK
<1>4. AnsweredIsDone'
  BY <1>1 DEF AnsweredIsDone, Same
<1>5. RegistrationInv'
  <2>1. \A q \in Registrations : Address(q)' = Address(q) /\ EmailTaken(Address(q))' = EmailTaken(Address(q))
    BY DEF Address, EmailTaken
  <2>2. \A q \in Registrations : EmailHeld(q)' => EmailHeld(q)
    BY <1>1, <2>1, Kinds DEF EmailHeld, HeldBy, Same
  <2>3. \A q \in Registrations : Unwritten(q)'
    BY <1>1, <2>1, <2>2, Kinds DEF RegistrationInv, Unwritten, Same
  <2>4. \A q \in Registrations :
          answer'[q] \in {"409 email", "409 number"} => answer[q] = answer'[q]
    BY <1>1, <1>2, Kinds DEF Same
  <2>5. RegistrationIsAtomic'
    BY <2>4 DEF RegistrationInv, RegistrationIsAtomic
  <2>6. ConflictIsTrue'
    BY <2>1, <2>4 DEF RegistrationInv, ConflictIsTrue
  <2> QED BY <2>3, <2>5, <2>6 DEF RegistrationInv
<1>6. TokenInv'
  <2>1. Ungranted' /\ OwnedByUser' /\ Revoking' /\ LoggedOut'
    BY <1>1, Kinds DEF TokenInv, Ungranted, OwnedByUser, Revoking, LoggedOut, Same
  <2>2. RevokedExactlyByUse'
    <3> SUFFICES ASSUME NEW t \in Grants PROVE UseOf(t)'
      BY DEF RevokedExactlyByUse, UseOf
    <3>1. UseOf(t)
      BY DEF TokenInv, RevokedExactlyByUse, UseOf
    <3>2. ASSUME NEW d \in Logouts, body'[d] = t, answer'[d] = "204" PROVE token'[t].revoked
      <4>1. CASE d = c
        BY <4>1, <3>2, <1>1, Kinds DEF TokenInv, LoggedOut
      <4>2. CASE d # c
        BY <4>2, <3>1, <3>2, <1>1, Kinds DEF UseOf, Same
      <4> QED BY <4>1, <4>2
    <3>3. \A d \in Logouts : pc[d] \in {"committed", "done", "lost"}
                              => pc'[d] \in {"committed", "done", "lost"}
      BY <1>1, Kinds DEF Same
    <3> QED BY <3>1, <3>2, <3>3 DEF UseOf
  <2> QED BY <2>1, <2>2 DEF TokenInv
<1>7. AccountIsThere'
  BY <1>1, <1>2, Kinds DEF AccountIsThere, Same
<1> QED BY <1>3, <1>4, <1>5, <1>6, <1>7

\* Time changes nothing the invariant speaks of.
LEMMA LifeKeeps ==
    ASSUME AuthInv, UNCHANGED <<user, account, token, body, pc, answer>>,
           life' \in [Grants -> {"fresh", "stale", "expired"}]
    PROVE  AuthInv'
<1> USE DEF AuthInv
<1>1. TypeOK'
  BY DEF TypeOK
<1>2. RegistrationInv'
  BY RegistrationFrame DEF Same
<1>3. TokenInv'
  BY TokenFrame DEF Same, UsersStay
<1>4. AnsweredIsDone' /\ AccountIsThere'
  BY DEF AnsweredIsDone, AccountIsThere
<1> QED BY <1>1, <1>2, <1>3, <1>4

\* Every step keeps the invariant.
LEMMA StepHolds == AuthInv /\ [Next]_vars => AuthInv'
<1> SUFFICES ASSUME AuthInv, [Next]_vars PROVE AuthInv'
  OBVIOUS
<1>1. ASSUME NEW r \in Registrations, register(r) PROVE AuthInv'
  BY <1>1, register_keeps
<1>2. ASSUME NEW c \in Logins, login(c) PROVE AuthInv'
  BY <1>2, login_keeps
<1>3. ASSUME NEW c \in Refreshes, refresh_token_endpoint(c) PROVE AuthInv'
  BY <1>3, refresh_token_endpoint_keeps
<1>4. ASSUME NEW c \in Logouts, logout(c) PROVE AuthInv'
  BY <1>4, logout_keeps
<1>5. ASSUME NEW c \in Reads, get_my_balance(c) PROVE AuthInv'
  BY <1>5, get_my_balance_keeps
<1>6. ASSUME NEW c \in Calls, Step(c) PROVE AuthInv'
  <2>1. CASE c \in Registrations /\ (flush_user(c) \/ commit_user(c))
    BY <2>1, flush_user_keeps, commit_user_keeps
  <2>2. CASE c \in Logins /\ commit_token(c)
    BY <2>2, commit_token_keeps
  <2>3. CASE c \in Refreshes /\ rotate(c)
    BY <2>3, rotate_keeps
  <2>4. CASE c \in Logouts /\ revoke(c)
    BY <2>4, revoke_keeps
  <2>5. CASE answer_call(c)
    BY <2>5, EndKeeps DEF answer_call
  <2> QED BY <1>6, <2>1, <2>2, <2>3, <2>4, <2>5 DEF Step
<1>7. ASSUME NEW c \in Calls, lose(c) PROVE AuthInv'
  BY <1>7, EndKeeps DEF lose
<1>8. ASSUME NEW t \in Grants, expire(t) PROVE AuthInv'
  <2>1. life' \in [Grants -> {"fresh", "stale", "expired"}]
    BY <1>8 DEF expire, AuthInv, TypeOK
  <2> QED BY <1>8, <2>1, LifeKeeps DEF expire
<1>9. CASE UNCHANGED vars
  BY <1>9, LifeKeeps DEF vars, AuthInv, TypeOK
<1> QED BY <1>1, <1>2, <1>3, <1>4, <1>5, <1>6, <1>7, <1>8, <1>9 DEF Next

(***************************************************************************)
(* The theorems                                                            *)
(***************************************************************************)
\* The invariant holds in every reachable state.
THEOREM AuthInvariance == Spec => []AuthInv
<1>1. Init => AuthInv
  BY InitHolds
<1>2. AuthInv /\ [Next]_vars => AuthInv'
  BY StepHolds
<1> QED BY <1>1, <1>2, PTL DEF Spec

\* The tables, bodies, steps and answers of auth.py keep their types.
THEOREM AuthTypes == Spec => []TypeOK
<1>1. AuthInv => TypeOK
  BY DEF AuthInv
<1> QED BY <1>1, AuthInvariance, PTL

\* A user has one account and an e-mail and number of its own, and a refused
\* registration leaves no row, however many registrations race.
THEOREM RegistrationIsAtomicHolds == Spec => []RegistrationIsAtomic
<1>1. AuthInv => RegistrationIsAtomic
  BY DEF AuthInv, RegistrationInv
<1> QED BY <1>1, AuthInvariance, PTL

\* An address is refused only where a committed user has it.
THEOREM ConflictIsTrueHolds == Spec => []ConflictIsTrue
<1>1. AuthInv => ConflictIsTrue
  BY DEF AuthInv, RegistrationInv
<1> QED BY <1>1, AuthInvariance, PTL

\* An access token always leads to an account.
THEOREM AccountIsThereHolds == Spec => []AccountIsThere
<1>1. AuthInv => AccountIsThere
  BY DEF AuthInv
<1> QED BY <1>1, AuthInvariance, PTL

\* Refresh tokens are revoked by their exchange or by a logout alone.
THEOREM RevokedExactlyByUseHolds == Spec => []RevokedExactlyByUse
<1>1. AuthInv => RevokedExactlyByUse
  BY DEF AuthInv, TokenInv
<1> QED BY <1>1, AuthInvariance, PTL

\* Calls that already are past the check are the only ones a step lets rotate a
\* token that is revoked or past its time.
LEMMA NoneLetThrough ==
    ASSUME AuthInv, [Next]_vars, NEW t \in Grants,
           token[t].revoked \/ life[t] = "expired"
    PROVE  Exchanging(t)' \subseteq Exchanging(t)
<1> SUFFICES ASSUME NEW c \in Refreshes, body'[c] = t,
                    pc'[c] = "rotating" \/ token'[c] # NoToken
             PROVE  body[c] = t /\ (pc[c] = "rotating" \/ token[c] # NoToken)
  BY DEF Exchanging
<1> USE DEF AuthInv
<1>0. c \in Calls /\ c \in Grants
  BY Kinds
<1>1. CASE body'[c] = body[c] /\ token'[c] = token[c] /\ pc'[c] = pc[c]
  BY <1>1
<1>2. ASSUME NEW r \in Registrations, register(r) \/ flush_user(r) \/ commit_user(r)
      PROVE  body'[c] = body[c] /\ token'[c] = token[c] /\ pc'[c] = pc[c]
  <2>1. r \in Calls /\ r # c
    BY Kinds
  <2>2. CASE register(r)
    BY <2>1, <2>2, <1>0 DEF register, Send, Respond, Goto, TypeOK
  <2>3. CASE flush_user(r)
    BY <2>1, <2>3, <1>0 DEF flush_user, MayFlush, Respond, Goto, TypeOK
  <2>4. CASE commit_user(r)
    BY <2>1, <2>4, <1>0 DEF commit_user, Respond, Goto, TypeOK
  <2> QED BY <1>2, <2>2, <2>3, <2>4
<1>3. ASSUME NEW l \in Logins, login(l)
      PROVE  body'[c] = body[c] /\ token'[c] = token[c] /\ pc'[c] = pc[c]
  BY <1>3, <1>0, Kinds DEF login, Send, Respond, Goto, TypeOK
<1>4. ASSUME NEW l \in Logins, commit_token(l)
      PROVE  body'[c] = body[c] /\ token'[c] = token[c] /\ pc'[c] = pc[c]
  BY <1>4, <1>0, Kinds DEF commit_token, MayGrant, StoreToken, Goto, TypeOK
<1>5. ASSUME NEW l \in Logouts, logout(l)
      PROVE  body'[c] = body[c] /\ token'[c] = token[c] /\ pc'[c] = pc[c]
  BY <1>5, <1>0, Kinds DEF logout, Send, Respond, Goto, TypeOK
<1>6. ASSUME NEW l \in Reads, get_my_balance(l)
      PROVE  body'[c] = body[c] /\ token'[c] = token[c] /\ pc'[c] = pc[c]
  BY <1>6, <1>0, Kinds DEF get_my_balance, Send, Respond, Goto, TypeOK
<1>7. ASSUME NEW l \in Logouts, revoke(l)
      PROVE  body'[c] = body[c] /\ pc'[c] = pc[c] /\ (token'[c] # NoToken => token[c] # NoToken)
  <2>1. l # c /\ l \in Calls
    BY Kinds
  <2>2. pc'[c] = pc[c] /\ body'[c] = body[c]
    BY <1>7, <1>0, <2>1 DEF revoke, Goto, TypeOK
  <2>3. body[l] \in Grants /\ token[body[l]] # NoToken
    BY <1>7 DEF revoke, TokenInv, Revoking
  <2>4. token[c] = NoToken => token'[c] = NoToken
    BY <1>7, <1>0, <2>3 DEF revoke, TypeOK
  <2> QED BY <2>2, <2>4
<1>8. ASSUME NEW d \in Refreshes, refresh_token_endpoint(d)
      PROVE  body[c] = t /\ (pc[c] = "rotating" \/ token[c] # NoToken)
  <2>1. token' = token /\ pc[d] = "idle" /\ d \in Calls
    BY <1>8, Kinds DEF refresh_token_endpoint, Send
  <2>2. CASE d = c
    <3>1. token[c] = NoToken
      BY <1>0, <2>1, <2>2 DEF TokenInv, Ungranted
    <3>2. ~Accepted(t)
      BY DEF Accepted
    <3>3. PICK s \in Known :
            /\ Send(c, s)
            /\ IF Accepted(s) THEN Goto(c, "rotating") ELSE Respond(c, "401")
      BY <1>8, <2>2 DEF refresh_token_endpoint
    <3>4. body'[c] = s
      BY <1>0, <3>3 DEF Send, TypeOK
    <3>5. pc'[c] = "done"
      BY <1>0, <3>2, <3>3, <3>4 DEF Respond, Goto, TypeOK
    <3> QED BY <3>1, <3>5, <2>1
  <2>3. CASE d # c
    BY <2>1, <2>3, <1>0, <1>8 DEF refresh_token_endpoint, Send, Respond, Goto, TypeOK
  <2> QED BY <2>2, <2>3
<1>9. ASSUME NEW d \in Refreshes, rotate(d)
      PROVE  body[c] = t /\ (pc[c] = "rotating" \/ token[c] # NoToken)
  <2>1. body' = body /\ pc[d] = "rotating" /\ d \in Calls
    BY <1>9, Kinds DEF rotate
  <2>2. d # c => pc'[c] = pc[c]
    BY <1>9, <1>0, <2>1 DEF rotate, Goto, TypeOK
  <2>3. body[d] \in Grants /\ token[body[d]] # NoToken
    BY <2>1 DEF TokenInv, Revoking
  <2>4. d # c /\ token[c] = NoToken => token'[c] = NoToken
    BY <1>9, <1>0, <2>3 DEF rotate, Rotated, TypeOK
  <2> QED BY <2>1, <2>2, <2>4
<1>10. ASSUME NEW d \in Calls, answer_call(d) \/ lose(d)
       PROVE  body'[c] = body[c] /\ token'[c] = token[c] /\ (pc'[c] = "rotating" => pc[c] = "rotating")
  BY <1>10, <1>0 DEF answer_call, lose, Respond, Goto, TypeOK
<1>11. ASSUME NEW s \in Grants, expire(s)
       PROVE  body'[c] = body[c] /\ token'[c] = token[c] /\ pc'[c] = pc[c]
  BY <1>11 DEF expire
<1>12. CASE UNCHANGED vars
  BY <1>12, <1>1 DEF vars
<1>13. ASSUME NEW d \in Calls, Step(d)
       PROVE  body[c] = t /\ (pc[c] = "rotating" \/ token[c] # NoToken)
  BY <1>13, <1>2, <1>4, <1>7, <1>9, <1>10 DEF Step
<1> QED BY <1>2, <1>3, <1>5, <1>6, <1>8, <1>10, <1>11, <1>12, <1>13 DEF Next

\* A refresh token that is revoked or expired lets no further refresh through.
THEOREM RevocationIsFinalHolds == Spec => RevocationIsFinal
<1>1. AuthInv /\ [Next]_vars
      => [\A t \in Grants : token[t].revoked \/ life[t] = "expired" =>
            Exchanging(t)' \subseteq Exchanging(t)]_vars
  BY NoneLetThrough
<1> QED BY <1>1, AuthInvariance, PTL DEF Spec, RevocationIsFinal

\* A body is sent once, and only its own rotation gives a refresh a token.
LEMMA OnlyRotateGrants ==
    ASSUME AuthInv, [Next]_vars, NEW c \in Refreshes
    PROVE  /\ pc[c] # "idle" => body'[c] = body[c]
           /\ token[c] = NoToken /\ token'[c] # NoToken => rotate(c)
<1> USE DEF AuthInv
<1>0. c \in Calls /\ c \in Grants
  BY Kinds
<1>1. ASSUME NEW d \in Calls, NEW b, Send(d, b)
      PROVE  pc[c] # "idle" => body'[c] = body[c]
  BY <1>1, <1>0 DEF Send, TypeOK
<1>2. ASSUME NEW r \in Registrations, register(r) \/ flush_user(r) \/ commit_user(r)
      PROVE  token' = token /\ (pc[c] # "idle" => body'[c] = body[c])
  BY <1>1, <1>2, Kinds DEF register, flush_user, MayFlush, commit_user
<1>3. ASSUME NEW d \in Calls, \/ d \in Logins /\ login(d)
                              \/ d \in Refreshes /\ refresh_token_endpoint(d)
                              \/ d \in Logouts /\ logout(d)
                              \/ d \in Reads /\ get_my_balance(d)
      PROVE  token' = token /\ (pc[c] # "idle" => body'[c] = body[c])
  BY <1>1, <1>3 DEF login, refresh_token_endpoint, logout, get_my_balance
<1>4. ASSUME NEW l \in Logins, commit_token(l)
      PROVE  body' = body /\ token'[c] = token[c]
  BY <1>4, <1>0, Kinds DEF commit_token, MayGrant, StoreToken, TypeOK
<1>5. ASSUME NEW l \in Logouts, revoke(l)
      PROVE  body' = body /\ (token[c] = NoToken => token'[c] = NoToken)
  <2>1. body[l] \in Grants /\ token[body[l]] # NoToken
    BY <1>5 DEF revoke, TokenInv, Revoking
  <2> QED BY <1>5, <1>0, <2>1 DEF revoke, TypeOK
<1>6. ASSUME NEW d \in Refreshes, rotate(d), d # c
      PROVE  body' = body /\ (token[c] = NoToken => token'[c] = NoToken)
  <2>1. body[d] \in Grants /\ token[body[d]] # NoToken
    BY <1>6 DEF rotate, TokenInv, Revoking
  <2> QED BY <1>6, <1>0, <2>1 DEF rotate, Rotated, TypeOK
<1>7. rotate(c) => body' = body
  BY DEF rotate
<1>8. ASSUME NEW d \in Calls, answer_call(d) \/ lose(d)
      PROVE  body' = body /\ token' = token
  BY <1>8 DEF answer_call, lose
<1>9. ASSUME NEW s \in Grants, expire(s)
      PROVE  body' = body /\ token' = token
  BY <1>9 DEF expire
<1>10. CASE UNCHANGED vars
  BY <1>10 DEF vars
<1>11. ASSUME NEW d \in Calls, Step(d)
       PROVE  /\ pc[c] # "idle" => body'[c] = body[c]
              /\ token[c] = NoToken /\ token'[c] # NoToken => rotate(c)
  BY <1>11, <1>2, <1>4, <1>5, <1>6, <1>7, <1>8 DEF Step
<1> QED BY <1>2, <1>3, <1>8, <1>9, <1>10, <1>11, Kinds DEF Next

\* No two refreshes with one token are between the check and the commit at a time.
OneAtATime ==
    \A c, d \in Refreshes :
        pc[c] = "rotating" /\ pc[d] = "rotating" /\ body[c] = body[d] => c = d

\* Each token lets one refresh through, which sent the token it was granted for.
LetThroughOnce ==
    /\ \A t \in Grants : \A c, d \in Exchanging(t) : c = d
    /\ \A c \in Refreshes : token[c] # NoToken => body[c] \in Grants

\* A step lets no second refresh through, unless two are past the check at a time.
LEMMA NoSecondRefresh ==
    ASSUME AuthInv, [Next]_vars, OneAtATime, OneAtATime', LetThroughOnce
    PROVE  LetThroughOnce'
<1>1. ASSUME NEW c \in Refreshes, token'[c] # NoToken
      PROVE  body'[c] \in Grants
  <2>1. c \in Grants /\ c \in Calls
    BY Kinds
  <2>2. CASE token[c] = NoToken
    <3>1. rotate(c)
      BY <1>1, <2>2, OnlyRotateGrants
    <3>2. pc[c] = "rotating" /\ body' = body
      BY <3>1 DEF rotate
    <3> QED BY <3>2 DEF AuthInv, TokenInv, Revoking
  <2>3. CASE token[c] # NoToken
    <3>1. pc[c] # "idle"
      BY <2>1, <2>3 DEF AuthInv, TokenInv, Ungranted
    <3> QED BY <2>3, <3>1, OnlyRotateGrants DEF LetThroughOnce
  <2> QED BY <2>2, <2>3
<1>2. ASSUME NEW t \in Grants, NEW c \in Exchanging(t)', NEW d \in Exchanging(t)'
      PROVE  c = d
  <2>1. CASE token[t].revoked
    BY <1>2, <2>1, NoneLetThrough DEF LetThroughOnce
  <2>2. CASE ~token[t].revoked
    <3>1. /\ c \in Refreshes /\ body'[c] = t /\ (pc'[c] = "rotating" \/ token'[c] # NoToken)
          /\ d \in Refreshes /\ body'[d] = t /\ (pc'[d] = "rotating" \/ token'[d] # NoToken)
      BY <1>2 DEF Exchanging
    <3>2. \A e \in Refreshes : body[e] = t => token[e] = NoToken
      BY <2>2 DEF AuthInv, TokenInv, RevokedExactlyByUse
    <3>3. ASSUME NEW x \in Refreshes, NEW y \in Refreshes, body'[x] = t, body'[y] = t,
                 token'[x] # NoToken, pc'[y] = "rotating" \/ token'[y] # NoToken
          PROVE  x = y
      <4>1. token[x] = NoToken
        <5>1. CASE token[x] # NoToken
          <6>1. x \in Grants /\ pc[x] # "idle"
            BY <5>1, Kinds DEF AuthInv, TokenInv, Ungranted
          <6>2. body[x] = t
            BY <3>3, <6>1, OnlyRotateGrants
          <6> QED BY <3>2, <6>2
        <5> QED BY <5>1
      <4>2. rotate(x)
        BY <3>3, <4>1, OnlyRotateGrants
      <4>3. pc[x] = "rotating" /\ body' = body
        BY <4>2 DEF rotate
      <4>4. CASE y # x
        <5>1. y \in Calls /\ x \in Calls /\ y \in Grants
          BY Kinds
        <5>2. pc'[y] = pc[y]
          BY <4>2, <4>4, <5>1 DEF rotate, Goto, AuthInv, TypeOK
        <5>3. token[y] = NoToken
          BY <3>2, <3>3, <4>3
        <5>4. ~rotate(y)
          BY <4>4, <4>2, <5>1, <5>2 DEF rotate, Goto, AuthInv, TypeOK
        <5>5. token'[y] = NoToken
          BY <5>3, <5>4, OnlyRotateGrants
        <5>6. pc[y] = "rotating"
          BY <3>3, <5>2, <5>5
        <5> QED BY <3>3, <4>3, <5>6 DEF OneAtATime
      <4> QED BY <4>4
    <3>4. CASE token'[c] # NoToken
      BY <3>1, <3>3, <3>4
    <3>5. CASE token'[d] # NoToken
      BY <3>1, <3>3, <3>5
    <3>6. CASE token'[c] = NoToken /\ token'[d] = NoToken
      BY <3>1, <3>6 DEF OneAtATime
    <3> QED BY <3>4, <3>5, <3>6
  <2> QED BY <2>1, <2>2
<1> QED BY <1>1, <1>2 DEF LetThroughOnce

\* What README.md:20 promises of rotation holds while no two refreshes with one
\* token are past the check at a time: then a token has one successor at most,
\* whatever logouts, losses and expiries come in between. So the check that is
\* not repeated at the commit (refresh_token_endpoint) is all that is missing.
THEOREM RotationIsSoundAlone == Spec /\ []OneAtATime => []ExchangedOnce
<1>1. Init => LetThroughOnce
  BY Kinds DEF Init, LetThroughOnce, Exchanging
<1>2. AuthInv /\ [Next]_vars /\ OneAtATime /\ OneAtATime' /\ LetThroughOnce => LetThroughOnce'
  BY NoSecondRefresh
<1>3. LetThroughOnce => ExchangedOnce
  BY DEF LetThroughOnce, ExchangedOnce, Exchanging
<1> QED BY <1>1, <1>2, <1>3, AuthInvariance, PTL DEF Spec

(***************************************************************************)
(* No call waits for ever                                                  *)
(***************************************************************************)
\* A call is at a step of its own kind, and a login past the check names a user
\* who is still there.
AtOwnStep(c) ==
    /\ pc[c] \in {"checked", "flushed"} => c \in Registrations
    /\ pc[c] = "verified" => c \in Logins /\ UserWith(body[c]) # {}
    /\ pc[c] = "rotating" => c \in Refreshes
    /\ pc[c] = "revoking" => c \in Logouts
CallInv == \A c \in Calls : AtOwnStep(c)

\* A user who can log in stays one: the API changes and deletes no user.
LEMMA UserRowsStay ==
    ASSUME AuthInv, [Next]_vars
    PROVE  \A b : UserWith(b) \subseteq UserWith(b)'
<1>1. CASE UNCHANGED user
  BY <1>1 DEF UserWith
<1>2. ASSUME NEW r \in Registrations, commit_user(r)
      PROVE  \A b : UserWith(b) \subseteq UserWith(b)'
  <2>1. user[r] = NoUser
    BY <1>2 DEF commit_user, AuthInv, RegistrationInv, Unwritten
  <2>2. \A q \in Registrations \ {r} : user'[q] = user[q]
    BY <1>2 DEF commit_user, UserWithAccount, AuthInv, TypeOK
  <2> QED BY <2>1, <2>2 DEF UserWith
<1>3. ASSUME NEW c \in Calls, Step(c)
      PROVE  UNCHANGED user \/ (c \in Registrations /\ commit_user(c))
  BY <1>3 DEF Step, flush_user, commit_token, rotate, revoke, answer_call
<1>4. ASSUME Next, \A c \in Calls : ~Step(c) PROVE UNCHANGED user
  BY <1>4 DEF Next, register, login, refresh_token_endpoint, logout, get_my_balance,
     lose, expire
<1> QED BY <1>1, <1>2, <1>3, <1>4 DEF vars

\* What a step does to the program counters: one call at most moves, to a step
\* of its kind or to its end, and a body is sent once.
LEMMA OneCallMoves ==
    ASSUME AuthInv, [Next]_vars
    PROVE  \/ UNCHANGED <<pc, body>>
           \/ \E c \in Calls :
                /\ \A d \in Calls \ {c} : pc'[d] = pc[d] /\ body'[d] = body[d]
                /\ pc'[c] \in {"committed", "done", "lost"} \/ AtOwnStep(c)'
<1> USE DEF AuthInv, TypeOK
<1>1. ASSUME NEW r \in Registrations, register(r) \/ flush_user(r) \/ commit_user(r)
      PROVE  /\ \A d \in Calls \ {r} : pc'[d] = pc[d] /\ body'[d] = body[d]
             /\ pc'[r] \in {"committed", "done", "lost"} \/ AtOwnStep(r)'
  <2>0. r \in Calls
    BY Kinds
  <2> DEFINE Moves == /\ \A d \in Calls \ {r} : pc'[d] = pc[d] /\ body'[d] = body[d]
                      /\ pc'[r] \in {"checked", "flushed", "committed", "done"}
  <2>1. register(r) => Moves
    <3> SUFFICES ASSUME register(r) PROVE Moves
      OBVIOUS
    <3>1. PICK b \in Credentials :
            /\ Send(r, b)
            /\ IF EmailTaken(EmailStr[b.email]) THEN Respond(r, "409 email")
                                                ELSE Goto(r, "checked")
      BY DEF register
    <3> QED BY <2>0, <3>1 DEF Send, Respond, Goto
  <2>2. flush_user(r) => Moves
    <3> SUFFICES ASSUME flush_user(r) PROVE Moves
      OBVIOUS
    <3> QED BY <2>0 DEF flush_user, Respond, Goto
  <2>3. commit_user(r) => Moves
    <3> SUFFICES ASSUME commit_user(r) PROVE Moves
      OBVIOUS
    <3>1. body' = body /\ (Respond(r, "409 number") \/ Goto(r, "committed"))
      BY DEF commit_user
    <3> QED BY <2>0, <3>1 DEF Respond, Goto
  <2>4. Moves
    BY <1>1, <2>1, <2>2, <2>3
  <2> QED BY <2>4 DEF AtOwnStep
<1>2. ASSUME NEW c \in Logins, login(c) \/ commit_token(c)
      PROVE  /\ \A d \in Calls \ {c} : pc'[d] = pc[d] /\ body'[d] = body[d]
             /\ pc'[c] \in {"committed", "done", "lost"} \/ AtOwnStep(c)'
  <2>0. c \in Calls
    BY Kinds
  <2>1. CASE commit_token(c)
    BY <2>0, <2>1 DEF commit_token, Goto
  <2>2. CASE login(c)
    <3>1. PICK b \in Credentials :
            /\ Send(c, b)
            /\ IF Verified(b) = {} THEN Respond(c, "401")
                                   ELSE Goto(c, "verified") /\ UNCHANGED answer
      BY <2>2 DEF login
    <3>2. body'[c] = b /\ \A d \in Calls \ {c} : pc'[d] = pc[d] /\ body'[d] = body[d]
      BY <2>0, <3>1 DEF Send, Respond, Goto
    <3>3. pc'[c] = "done" \/ (pc'[c] = "verified" /\ UserWith(b) # {})
      BY <2>0, <3>1 DEF Verified, Respond, Goto
    <3>4. UserWith(b) \subseteq UserWith(b)'
      BY UserRowsStay
    <3>5. UserWith(b)' = UserWith(body[c])'
      BY <3>2 DEF UserWith
    <3> QED BY <3>2, <3>3, <3>4, <3>5 DEF AtOwnStep
  <2> QED BY <1>2, <2>1, <2>2
<1>3. ASSUME NEW c \in Calls, \/ c \in Refreshes /\ (refresh_token_endpoint(c) \/ rotate(c))
                              \/ c \in Logouts /\ (logout(c) \/ revoke(c))
                              \/ c \in Reads /\ get_my_balance(c)
                              \/ answer_call(c) \/ lose(c)
      PROVE  /\ \A d \in Calls \ {c} : pc'[d] = pc[d] /\ body'[d] = body[d]
             /\ pc'[c] \in {"committed", "done", "lost"} \/ AtOwnStep(c)'
  <2>1. \A d \in Calls \ {c} : pc'[d] = pc[d] /\ body'[d] = body[d]
    BY <1>3 DEF refresh_token_endpoint, rotate, logout, revoke, get_my_balance,
       answer_call, lose, Send, Respond, Goto
  <2>2. \/ pc'[c] \in {"committed", "done", "lost"}
        \/ c \in Refreshes /\ pc'[c] = "rotating"
        \/ c \in Logouts /\ pc'[c] = "revoking"
    BY <1>3 DEF refresh_token_endpoint, rotate, logout, revoke, get_my_balance,
       answer_call, lose, Send, Respond, Goto
  <2> QED BY <2>1, <2>2 DEF AtOwnStep
<1>4. ASSUME NEW t \in Grants, expire(t) PROVE UNCHANGED <<pc, body>>
  BY <1>4 DEF expire
<1>5. CASE UNCHANGED vars
  BY <1>5 DEF vars
<1> QED BY <1>1, <1>2, <1>3, <1>4, <1>5, Kinds DEF Next, Step

\* Every step keeps the calls at steps of their own.
LEMMA CallInvKept ==
    ASSUME AuthInv, CallInv, [Next]_vars
    PROVE  CallInv'
<1>1. ASSUME NEW d \in Calls, pc'[d] = pc[d], body'[d] = body[d]
      PROVE  AtOwnStep(d)'
  <2>1. UserWith(body[d]) \subseteq UserWith(body[d])'
    <3>1. UserWith(body[d])' = {r \in Registrations : user'[r] # NoUser /\ user'[r].email = body[d].email}
      BY <1>1 DEF UserWith
    <3>2. UserWith(body[d]) \subseteq {r \in Registrations : user'[r] # NoUser /\ user'[r].email = body[d].email}
      BY UserRowsStay DEF UserWith
    <3> QED BY <3>1, <3>2
  <2> QED BY <1>1, <2>1 DEF CallInv, AtOwnStep
<1>2. CASE UNCHANGED <<pc, body>>
  BY <1>1, <1>2 DEF CallInv
<1>3. ASSUME NEW c \in Calls,
             \A d \in Calls \ {c} : pc'[d] = pc[d] /\ body'[d] = body[d],
             pc'[c] \in {"committed", "done", "lost"} \/ AtOwnStep(c)'
      PROVE  CallInv'
  <2>1. AtOwnStep(c)'
    BY <1>3 DEF AtOwnStep
  <2> QED BY <1>1, <1>3, <2>1 DEF CallInv
<1> QED BY <1>2, <1>3, OneCallMoves

\* A registration that waits does so for one that has flushed its user, and that
\* one commits without waiting for anybody.
LEMMA SomebodyGoesOn == AuthInv /\ CallInv => NoCallIsStuck
<1> SUFFICES ASSUME AuthInv, CallInv, \A c \in Calls : ~CanGoOn(c), NEW c \in Calls
             PROVE  pc[c] \in {"idle", "done", "lost"}
  BY DEF NoCallIsStuck
<1>1. pc[c] \in Steps /\ AtOwnStep(c)
  BY DEF AuthInv, TypeOK, CallInv
<1>2. pc[c] # "checked"
  <2>1. SUFFICES ASSUME pc[c] = "checked" PROVE FALSE
    OBVIOUS
  <2>2. c \in Registrations /\ EmailHeld(c)
    BY <1>1, <2>1 DEF AtOwnStep, CanGoOn, MayFlush
  <2>3. PICK q \in Registrations : pc[q] = "flushed"
    BY <2>2 DEF EmailHeld, HeldBy
  <2> QED BY <2>3, Kinds DEF CanGoOn
<1>3. pc[c] \notin {"flushed", "verified", "rotating", "revoking", "committed"}
  BY <1>1 DEF AtOwnStep, CanGoOn, MayGrant
<1> QED BY <1>1, <1>2, <1>3 DEF Steps

\* As long as a call has not come to its end, some call goes on: no set of
\* registrations waits on one another's e-mails, nor on a session that was lost.
THEOREM NoCallIsStuckHolds == Spec => []NoCallIsStuck
<1>1. Init => CallInv
  BY DEF Init, CallInv, AtOwnStep
<1>2. AuthInv /\ CallInv /\ [Next]_vars => CallInv'
  BY CallInvKept
<1> QED BY <1>1, <1>2, AuthInvariance, SomebodyGoesOn, PTL DEF Spec

=============================================================================
