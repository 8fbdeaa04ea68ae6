------------------------------ MODULE Sessions ------------------------------
(***************************************************************************)
(* Sessions of the administrator: AuthService (internal/auth), its store   *)
(* (internal/sqlite) and the cookies that the browser keeps (internal/http *)
(* and web).  Refresh tokens rotate: each one is exchanged once, for its   *)
(* successor in the same family, and one that comes back ends the family.  *)
(*                                                                         *)
(* The database has one connection, so transactions do not overlap; a call *)
(* reads the key, and a password, before its transaction.  A token is its  *)
(* position in refresh; an access token is the key that signed it.         *)
(***************************************************************************)
EXTENDS Naturals, Sequences

CONSTANTS
    Browsers,       \* cookie jars, shared by the tabs of a browser
    Calls,          \* requests at the same time
    MaxTokens,      \* bound: refresh tokens
    MaxRotations    \* bound: changes of the password

ASSUME SessionConstants ==
    /\ Browsers # {}
    /\ {MaxTokens, MaxRotations} \subseteq Nat

VARIABLES
    registered,   \* there is a user
    signingKey,   \* the version of the signing key and of the password
    refresh,      \* refresh_tokens
    over,         \* families that were ended or expired (history)
    jars,         \* the cookies
    calls

authVars == <<registered, signingKey, refresh, over, jars, calls>>

\* family: the token of the login.
Token == [family : Nat, consumed : BOOLEAN, revoked : BOOLEAN, deleted : BOOLEAN]
NewToken(f) == [family |-> f, consumed |-> FALSE, revoked |-> FALSE, deleted |-> FALSE]

\* access and refresh are 0 for a cookie that is not there.
Jar == [access : Nat, refresh : Nat]
NoCookies == [access |-> 0, refresh |-> 0]

CallKinds == {"register", "login", "refresh", "logout", "password"}
Call == [kind : CallKinds, browser : Browsers, pc : {"idle", "key", "store", "answer"}, key : Nat,
         token : Nat]
NoCall(b) == [kind |-> "login", browser |-> b, pc |-> "idle", key |-> 0, token |-> 0]

AuthInit ==
    /\ registered = FALSE
    /\ signingKey = 1
    /\ refresh = <<>> /\ over = {}
    /\ jars = [b \in Browsers |-> NoCookies]
    /\ calls = [c \in Calls |-> NoCall(CHOOSE b \in Browsers : TRUE)]

Active(t) == ~t.consumed /\ ~t.revoked /\ ~t.deleted

-----------------------------------------------------------------------------
(* Calls.                                                                  *)

BeginCall(c, kind, b, pc) ==
    /\ calls[c].pc = "idle"
    /\ calls' = [calls EXCEPT ![c] = [kind |-> kind, browser |-> b, pc |-> pc, key |-> signingKey,
                                      token |-> jars[b].refresh]]
    /\ UNCHANGED <<registered, signingKey, refresh, over, jars>>

BeginRegister(c, b) == BeginCall(c, "register", b, "store")

\* The password was right; the key is read afterwards.
BeginLogin(c, b) == registered /\ BeginCall(c, "login", b, "key")

LoginKey(c) ==
    /\ calls[c].pc = "key"
    /\ calls' = [calls EXCEPT ![c].pc = "store", ![c].key = signingKey]
    /\ UNCHANGED <<registered, signingKey, refresh, over, jars>>

BeginRefresh(c, b) == jars[b].refresh # 0 /\ BeginCall(c, "refresh", b, "store")

\* The middleware, and ChangePassword again, look at the access token.
Authenticated(b) == jars[b].access = signingKey

BeginLogout(c, b) == Authenticated(b) /\ BeginCall(c, "logout", b, "store")
BeginPassword(c, b) == Authenticated(b) /\ BeginCall(c, "password", b, "store")

Storing(c, kind) == calls[c].pc = "store" /\ calls[c].kind = kind

\* The call is answered with the cookies of token t, with their removal when t is 0, or
\* with an error.
Answered(c, t) == calls' = [calls EXCEPT ![c].pc = "answer", ![c].token = t]
Refused(c) == calls' = [calls EXCEPT ![c] = NoCall(calls[c].browser)]

-----------------------------------------------------------------------------
(* Transactions.                                                           *)

RegisterUser(c) ==
    /\ Storing(c, "register")
    /\ \/ registered /\ Refused(c) /\ UNCHANGED <<registered, refresh>>
       \/ /\ ~registered /\ Len(refresh) < MaxTokens
          /\ registered' = TRUE
          /\ refresh' = Append(refresh, NewToken(Len(refresh) + 1))
          /\ Answered(c, Len(refresh) + 1)
    /\ UNCHANGED <<signingKey, over, jars>>

CreateRefresh(c) ==
    /\ Storing(c, "login") /\ Len(refresh) < MaxTokens
    /\ refresh' = Append(refresh, NewToken(Len(refresh) + 1))
    /\ Answered(c, Len(refresh) + 1)
    /\ UNCHANGED <<registered, signingKey, over, jars>>

\* Mutant: only the token that came back is revoked.
RevokedAlone(rs, t) == [rs EXCEPT ![t].revoked = TRUE]

\* The family of t is revoked.
Revoked(rs, t) ==
    [i \in DOMAIN rs |-> IF rs[i].family = rs[t].family THEN [rs[i] EXCEPT !.revoked = TRUE] ELSE rs[i]]

\* Mutant: the token is not marked as consumed.
ExchangedUnmarked(rs, t) == Append(rs, NewToken(rs[t].family))

Exchanged(rs, t) == Append([rs EXCEPT ![t].consumed = TRUE], NewToken(rs[t].family))

ExchangeRefresh(c) ==
    /\ Storing(c, "refresh")
    /\ LET t == calls[c].token
       IN  \/ /\ refresh[t].deleted \/ refresh[t].revoked
              /\ Refused(c)
              /\ UNCHANGED <<refresh, over>>
           \/ /\ ~refresh[t].deleted /\ ~refresh[t].revoked /\ refresh[t].consumed
              /\ refresh' = Revoked(refresh, t)
              /\ over' = over \cup {refresh[t].family}
              /\ Refused(c)
           \/ /\ Active(refresh[t]) /\ Len(refresh) < MaxTokens
              /\ refresh' = Exchanged(refresh, t)
              /\ Answered(c, Len(refresh) + 1)
              /\ UNCHANGED over
    /\ UNCHANGED <<registered, signingKey, jars>>

\* A token that is gone cannot be logged out.
RevokeRefreshFamily(c) ==
    /\ Storing(c, "logout")
    /\ LET t == calls[c].token
       IN  \/ /\ t = 0 \/ (t # 0 /\ refresh[t].deleted)
              /\ Refused(c)
              /\ UNCHANGED <<refresh, over>>
           \/ /\ t # 0 /\ ~refresh[t].deleted
              /\ refresh' = Revoked(refresh, t)
              /\ over' = over \cup {refresh[t].family}
              /\ Answered(c, 0)
    /\ UNCHANGED <<registered, signingKey, jars>>

\* Mutant: a change of the password leaves the sessions alone.
RotatedAlone(rs) == rs

\* Every session of the user is revoked.
Rotated(rs) == [i \in DOMAIN rs |-> [rs[i] EXCEPT !.revoked = TRUE]]

Rotate ==
    /\ signingKey <= MaxRotations
    /\ signingKey' = signingKey + 1
    /\ refresh' = Rotated(refresh)
    /\ over' = over \cup {refresh[i].family : i \in DOMAIN refresh}

UpdatePasswordAndRevoke(c) ==
    /\ Storing(c, "password")
    /\ Rotate
    /\ Answered(c, 0)
    /\ UNCHANGED <<registered, jars>>

\* porty reset-password.
ResetPassword ==
    /\ registered
    /\ Rotate
    /\ UNCHANGED <<registered, jars, calls>>

-----------------------------------------------------------------------------
(* Answers and time.                                                       *)

\* setAuthCookies, and clearAuthCookies after a logout or a change of the password.
AnswerCookies(call) ==
    IF call.token = 0 THEN NoCookies ELSE [access |-> call.key, refresh |-> call.token]

\* In the order in which the answers arrive; one may get lost.
SetAuthCookies(c) ==
    /\ calls[c].pc = "answer"
    /\ \/ jars' = [jars EXCEPT ![calls[c].browser] = AnswerCookies(calls[c])]
       \/ UNCHANGED jars
    /\ Refused(c)
    /\ UNCHANGED <<registered, signingKey, refresh, over>>

\* The key cannot be read, or the transaction is rolled back.
CallFails(c) ==
    /\ calls[c].pc \in {"key", "store"}
    /\ Refused(c)
    /\ UNCHANGED <<registered, signingKey, refresh, over, jars>>

AccessExpires(b) ==
    /\ jars[b].access # 0
    /\ jars' = [jars EXCEPT ![b].access = 0]
    /\ UNCHANGED <<registered, signingKey, refresh, over, calls>>

\* A family expires as a whole, a week after its login; cleanupRefresh deletes it.
FamilyExpires(f) ==
    /\ f \in DOMAIN refresh /\ refresh[f].family = f /\ ~refresh[f].deleted
    /\ refresh' = [i \in DOMAIN refresh |->
                     IF refresh[i].family = f THEN [refresh[i] EXCEPT !.deleted = TRUE] ELSE refresh[i]]
    /\ over' = over \cup {f}
    /\ UNCHANGED <<registered, signingKey, jars, calls>>

AuthNext ==
    \/ \E c \in Calls : \/ \E b \in Browsers : \/ BeginRegister(c, b) \/ BeginLogin(c, b)
                                              \/ BeginRefresh(c, b) \/ BeginLogout(c, b)
                                              \/ BeginPassword(c, b)
                        \/ LoginKey(c) \/ RegisterUser(c) \/ CreateRefresh(c) \/ ExchangeRefresh(c)
                        \/ RevokeRefreshFamily(c) \/ UpdatePasswordAndRevoke(c) \/ SetAuthCookies(c) \/ CallFails(c)
    \/ ResetPassword
    \/ \E b \in Browsers : AccessExpires(b)
    \/ \E f \in 1..MaxTokens : FamilyExpires(f)

AuthSpec == AuthInit /\ [][AuthNext]_authVars

-----------------------------------------------------------------------------
(* Properties.                                                             *)

\* The shape of the state; a family is named by its first token.
AuthTypeOK ==
    /\ registered \in BOOLEAN /\ signingKey \in 1..(MaxRotations + 1)
    /\ refresh \in Seq(Token) /\ Len(refresh) <= MaxTokens
    /\ \A i \in DOMAIN refresh :
          refresh[i].family \in 1..i /\ refresh[refresh[i].family].family = refresh[i].family
    /\ over \subseteq DOMAIN refresh
    /\ jars \in [Browsers -> Jar]
    /\ calls \in [Calls -> Call]
    /\ \A c \in Calls : calls[c].token \in 0..Len(refresh)

\* At most one token of a family can be exchanged, however the exchanges, retries and
\* tabs of a browser overlap (ExchangeRefresh).
OneActivePerFamily ==
    \A i, j \in DOMAIN refresh :
        refresh[i].family = refresh[j].family /\ Active(refresh[i]) /\ Active(refresh[j]) => i = j

\* A family that was logged out, whose token came back, or that a change of the password
\* ended never has a usable token again, also when an exchange was under way.
OverIsOver == \A i \in DOMAIN refresh : refresh[i].family \in over => ~Active(refresh[i])

\* The access token that comes with an exchanged refresh token is signed with the key
\* that is in force when the exchange commits, although the key was read before it.
ExchangeSignsWithCurrentKey ==
    [][\A c \in Calls :
          calls[c].kind = "refresh" /\ calls[c].pc = "store" /\ calls'[c].pc = "answer" =>
             calls[c].key = signingKey]_authVars

=============================================================================
