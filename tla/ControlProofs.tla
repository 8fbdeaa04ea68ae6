---------------------------- MODULE ControlProofs ----------------------------
(***************************************************************************)
(* Sessions, and the composition that TLC checks in one run (MCControl).   *)
(*                                                                         *)
(* The safety of refresh tokens is proved for any number of browsers,      *)
(* overlapping calls, tokens and changes of the password.  What is proved  *)
(* of the table depends only on how a transaction changes it: it adds a    *)
(* login, it exchanges an active token, or it marks tokens.  A lemma       *)
(* covers each.                                                            *)
(*                                                                         *)
(* A behaviour of the composition is one of each of its parts, so that     *)
(* what is proved of a part holds of it too.                               *)
(***************************************************************************)
EXTENDS MCControl, RepositoryProofs, OperationProofs

\* What holds of refresh_tokens and of the families that are over.
Sound(rs, past) ==
    /\ rs \in Seq(Token)
    /\ \A i \in DOMAIN rs : rs[i].family \in 1..i /\ rs[rs[i].family].family = rs[i].family
    /\ past \subseteq DOMAIN rs
    /\ \A i, j \in DOMAIN rs :
          rs[i].family = rs[j].family /\ Active(rs[i]) /\ Active(rs[j]) => i = j
    /\ \A i \in DOMAIN rs : rs[i].family \in past => ~Active(rs[i])

\* What a call may rely on: an exchange that was begun under an older key finds its
\* token revoked, as the rotation of the key has revoked every session.
CallInv ==
    \A c \in Calls :
        /\ calls[c].kind = "refresh" => calls[c].pc # "key"
        /\ calls[c].kind = "refresh" /\ calls[c].pc = "store" =>
              /\ calls[c].token # 0
              /\ calls[c].key # signingKey => refresh[calls[c].token].revoked

\* A cookie is that of a token that was handed out, or empty.
CookieInv == \A b \in Browsers : jars[b].refresh \in 0..Len(refresh)

\* AuthTypeOK without what Sound says of the table.
ShapeInv ==
    /\ registered \in BOOLEAN /\ signingKey \in 1..(MaxRotations + 1)
    /\ Len(refresh) <= MaxTokens
    /\ jars \in [Browsers -> Jar]
    /\ calls \in [Calls -> Call]
    /\ \A c \in Calls : calls[c].token \in 0..Len(refresh)

\* The inductive invariant.
SessionInv == Sound(refresh, over) /\ ShapeInv /\ CallInv /\ CookieInv

-----------------------------------------------------------------------------
(* The table.                                                              *)

\* One token more.
LEMMA AppendToken ==
  ASSUME NEW rs \in Seq(Token), NEW t \in Token
  PROVE  /\ Append(rs, t) \in Seq(Token)
         /\ Len(Append(rs, t)) = Len(rs) + 1
         /\ DOMAIN rs = 1..Len(rs) /\ DOMAIN Append(rs, t) = 1..(Len(rs) + 1)
         /\ \A i \in 1..Len(rs) : Append(rs, t)[i] = rs[i]
         /\ Append(rs, t)[Len(rs) + 1] = t
  OBVIOUS

\* The same tokens with other marks.
LEMMA MarkTokens ==
  ASSUME NEW rs \in Seq(Token), NEW ms \in [DOMAIN rs -> Token]
  PROVE  ms \in Seq(Token) /\ Len(ms) = Len(rs) /\ DOMAIN ms = DOMAIN rs
  OBVIOUS

\* A login founds a family of its own.
LEMMA LoginIsSound ==
  ASSUME NEW rs, NEW past, Sound(rs, past)
  PROVE  Sound(Append(rs, NewToken(Len(rs) + 1)), past)
<1> DEFINE k == Len(rs) + 1
           n == NewToken(k)
           as == Append(rs, n)
<1>1. rs \in Seq(Token) /\ Len(rs) \in Nat /\ DOMAIN rs = 1..Len(rs)
  BY DEF Sound
<1>2. n \in Token /\ n.family = k
  BY <1>1 DEF NewToken, Token
<1>3. /\ as \in Seq(Token) /\ DOMAIN as = 1..k
      /\ \A i \in 1..Len(rs) : as[i] = rs[i]
      /\ as[k] = n
  BY <1>1, <1>2, AppendToken
<1> HIDE DEF n, as
<1>4. \A i \in 1..k : i = k \/ i \in 1..Len(rs)
  BY <1>1
<1>5. ASSUME NEW i \in 1..Len(rs)
      PROVE  /\ as[i].family \in 1..i /\ as[as[i].family].family = as[i].family
             /\ as[i].family # k
             /\ as[i].family \in past => ~Active(as[i])
  <2>1. rs[i].family \in 1..i /\ rs[rs[i].family].family = rs[i].family
    BY <1>1 DEF Sound
  <2>2. rs[i].family \in 1..Len(rs)
    BY <1>1, <2>1
  <2>3. rs[i].family \in past => ~Active(rs[i])
    BY <1>1 DEF Sound
  <2>4. as[i] = rs[i] /\ as[rs[i].family] = rs[rs[i].family]
    BY <1>3, <2>2
  <2> QED
    BY <1>1, <2>1, <2>2, <2>3, <2>4
<1>6. past \subseteq 1..k /\ k \notin past
  BY <1>1 DEF Sound
<1>7. \A i \in 1..k : as[i].family \in 1..i /\ as[as[i].family].family = as[i].family
  <2> SUFFICES ASSUME NEW i \in 1..k
               PROVE  as[i].family \in 1..i /\ as[as[i].family].family = as[i].family
    OBVIOUS
  <2>1. CASE i = k
    BY <1>1, <1>2, <1>3, <2>1
  <2> QED
    BY <1>4, <1>5, <2>1
<1>8. \A i \in 1..k : as[i].family \in past => ~Active(as[i])
  BY <1>2, <1>3, <1>4, <1>5, <1>6
<1>9. ASSUME NEW i \in 1..k, NEW j \in 1..k,
             as[i].family = as[j].family, Active(as[i]), Active(as[j])
      PROVE  i = j
  <2>1. CASE i \in 1..Len(rs) /\ j \in 1..Len(rs)
    <3>1. as[i] = rs[i] /\ as[j] = rs[j]
      BY <1>3, <2>1
    <3> QED
      BY <1>1, <1>9, <2>1, <3>1 DEF Sound
  <2>2. CASE i = k \/ j = k
    BY <1>2, <1>3, <1>4, <1>5, <1>9, <2>2
  <2> QED
    BY <1>4, <2>1, <2>2
<1> QED
  BY <1>3, <1>6, <1>7, <1>8, <1>9 DEF Sound, as, n

\* Marks are only ever set, on all tokens of a family that is over.
LEMMA MarksAreSound ==
  ASSUME NEW rs, NEW past, Sound(rs, past),
         NEW ms \in [DOMAIN rs -> Token], NEW also,
         \A i \in DOMAIN rs : ms[i].family = rs[i].family,
         \A i \in DOMAIN rs : Active(ms[i]) => Active(rs[i]) /\ rs[i].family \notin also,
         also \subseteq DOMAIN rs
  PROVE  Sound(ms, past \cup also)
<1>1. ms \in Seq(Token) /\ DOMAIN ms = DOMAIN rs /\ DOMAIN rs = 1..Len(rs) /\ Len(rs) \in Nat
  BY MarkTokens DEF Sound
<1>2. \A i \in DOMAIN rs : rs[i].family \in DOMAIN rs
  BY <1>1 DEF Sound
<1> QED
  BY <1>1, <1>2 DEF Sound

\* An exchange passes the only active token of a family on.
LEMMA ExchangeIsSound ==
  ASSUME NEW rs, NEW past, Sound(rs, past), NEW t \in DOMAIN rs, Active(rs[t])
  PROVE  /\ Sound(Exchanged(rs, t), past)
         /\ Len(Exchanged(rs, t)) = Len(rs) + 1
         /\ \A i \in DOMAIN rs : Exchanged(rs, t)[i].revoked = rs[i].revoked
<1> DEFINE k == Len(rs) + 1
           ms == [rs EXCEPT ![t].consumed = TRUE]
           n == NewToken(rs[t].family)
           as == Append(ms, n)
<1>1. /\ rs \in Seq(Token) /\ Len(rs) \in Nat /\ DOMAIN rs = 1..Len(rs)
      /\ \A i \in DOMAIN rs : rs[i] \in Token
  BY DEF Sound
<1>2. ms \in [DOMAIN rs -> Token]
  BY <1>1 DEF Token
<1>3. \A i \in DOMAIN rs : ms[i].family = rs[i].family /\ ms[i].revoked = rs[i].revoked
  BY <1>1 DEF Token
<1>4. \A i \in DOMAIN rs : Active(ms[i]) => Active(rs[i]) /\ i # t
  BY <1>1 DEF Token, Active
<1>5. ms \in Seq(Token) /\ Len(ms) = Len(rs) /\ DOMAIN ms = DOMAIN rs
  BY <1>1, <1>2, MarkTokens
<1>6. n \in Token /\ n.family = rs[t].family /\ n.family \in 1..Len(rs)
  BY <1>1 DEF Sound, NewToken, Token
<1>7. /\ as \in Seq(Token) /\ Len(as) = k /\ DOMAIN as = 1..k
      /\ \A i \in 1..Len(rs) : as[i] = ms[i]
      /\ as[k] = n
  BY <1>5, <1>6, AppendToken
<1> HIDE DEF ms, n, as
<1>8. \A i \in 1..k : i = k \/ i \in 1..Len(rs)
  BY <1>1
<1>9. ASSUME NEW i \in 1..Len(rs)
      PROVE  /\ as[i].family = rs[i].family
             /\ as[i].family \in 1..i /\ as[as[i].family].family = as[i].family
             /\ as[i].family \in past => ~Active(as[i])
             /\ Active(as[i]) => Active(rs[i]) /\ as[i].family # n.family
  <2>1. rs[i].family \in 1..i /\ rs[rs[i].family].family = rs[i].family
    BY <1>1 DEF Sound
  <2>2. rs[i].family \in 1..Len(rs)
    BY <1>1, <2>1
  <2>3. rs[i].family \in past => ~Active(rs[i])
    BY <1>1 DEF Sound
  <2>4. Active(rs[i]) /\ rs[i].family = rs[t].family => i = t
    BY <1>1 DEF Sound
  <2> QED
    BY <1>1, <1>3, <1>4, <1>6, <1>7, <2>1, <2>2, <2>3, <2>4
<1>10. n.family \notin past /\ past \subseteq 1..k
  BY <1>1, <1>6 DEF Sound
<1>11. \A i \in 1..k : as[i].family \in 1..i /\ as[as[i].family].family = as[i].family
  <2> SUFFICES ASSUME NEW i \in 1..k
               PROVE  as[i].family \in 1..i /\ as[as[i].family].family = as[i].family
    OBVIOUS
  <2>1. CASE i = k
    <3>1. rs[rs[t].family].family = rs[t].family
      BY <1>1 DEF Sound
    <3>2. as[rs[t].family].family = rs[t].family
      BY <1>6, <1>9, <3>1
    <3>3. as[i].family = rs[t].family
      BY <1>6, <1>7, <2>1
    <3>4. rs[t].family \in 1..i
      BY <1>1, <1>6, <2>1
    <3> QED
      BY <3>2, <3>3, <3>4
  <2> QED
    BY <1>8, <1>9, <2>1
<1>12. \A i \in 1..k : as[i].family \in past => ~Active(as[i])
  BY <1>7, <1>8, <1>9, <1>10
<1>13. ASSUME NEW i \in 1..k, NEW j \in 1..k,
              as[i].family = as[j].family, Active(as[i]), Active(as[j])
       PROVE  i = j
  <2>1. CASE i \in 1..Len(rs) /\ j \in 1..Len(rs)
    <3>1. /\ rs[i].family = rs[j].family /\ Active(rs[i]) /\ Active(rs[j])
      BY <1>9, <1>13, <2>1
    <3> QED
      BY <1>1, <2>1, <3>1 DEF Sound
  <2>2. CASE i = k \/ j = k
    BY <1>7, <1>8, <1>9, <1>13, <2>2
  <2> QED
    BY <1>8, <2>1, <2>2
<1>14. Sound(as, past)
  BY <1>7, <1>10, <1>11, <1>12, <1>13 DEF Sound
<1>15. \A i \in DOMAIN rs : as[i].revoked = rs[i].revoked
  BY <1>1, <1>3, <1>7
<1>16. as = Exchanged(rs, t)
  BY DEF Exchanged, as, ms, n
<1> QED
  BY <1>7, <1>14, <1>15, <1>16

-----------------------------------------------------------------------------
(* The steps.                                                              *)

\* The invariant gives the three properties of states.
LEMMA SessionInvSuffices == SessionInv => AuthTypeOK /\ OneActivePerFamily /\ OverIsOver
  BY DEF SessionInv, Sound, ShapeInv, AuthTypeOK, OneActivePerFamily, OverIsOver

\* Nobody is registered at first.
LEMMA SessionInvInit == AuthInit => SessionInv
<1> SUFFICES ASSUME AuthInit PROVE SessionInv
  OBVIOUS
<1>0. /\ registered = FALSE /\ signingKey = 1 /\ refresh = <<>> /\ over = {}
      /\ jars = [d \in Browsers |-> NoCookies]
  BY Zenon DEF AuthInit
<1>1. Sound(refresh, over)
  <2>1. refresh \in Seq(Token) /\ DOMAIN refresh = {} /\ over = {}
    BY <1>0
  <2> QED
    BY <2>1 DEF Sound
<1>2. PICK b \in Browsers : calls = [c \in Calls |-> NoCall(b)]
  BY SessionConstants DEF AuthInit
<1>3. NoCall(b) \in Call /\ NoCookies \in Jar
  BY DEF NoCookies, Jar, NoCall, Call, CallKinds
<1>4. /\ \A c \in Calls : calls[c].token = 0 /\ calls[c].pc = "idle"
      /\ \A d \in Browsers : jars[d].refresh = 0
  BY <1>0, <1>2 DEF NoCookies, NoCall
<1>5. Len(refresh) = 0 /\ signingKey \in 1..(MaxRotations + 1) /\ MaxTokens \in Nat
  BY <1>0, SessionConstants
<1>6. jars \in [Browsers -> Jar] /\ calls \in [Calls -> Call]
  BY <1>0, <1>2, <1>3
<1>7. registered \in BOOLEAN
  BY <1>0, Zenon
<1>8. Len(refresh) <= MaxTokens /\ 0 \in 0..Len(refresh)
  BY <1>5
<1>9. ShapeInv
  BY <1>4, <1>5, <1>6, <1>7, <1>8, Zenon DEF ShapeInv
<1>10. CallInv /\ CookieInv
  BY <1>4, <1>8 DEF CallInv, CookieInv
<1> QED
  BY <1>1, <1>9, <1>10 DEF SessionInv

\* A call that begins reads the key in force and the cookie of its browser.
LEMMA BeginKeeps ==
  ASSUME SessionInv, NEW c \in Calls, NEW kind \in CallKinds, NEW b \in Browsers,
         NEW pc \in {"key", "store"}, kind = "refresh" => jars[b].refresh # 0 /\ pc = "store",
         BeginCall(c, kind, b, pc)
  PROVE  SessionInv'
<1>1. Sound(refresh, over)' /\ CookieInv' /\ Len(refresh) \in Nat
  BY DEF SessionInv, BeginCall, Sound, CookieInv
<1>2. ShapeInv'
  BY <1>1 DEF SessionInv, BeginCall, ShapeInv, CookieInv, Jar, Call
<1>3. CallInv'
  BY DEF SessionInv, BeginCall, ShapeInv, CallInv
<1> QED
  BY <1>1, <1>2, <1>3 DEF SessionInv

\* A browser keeps a cookie of a token that exists, or none.
LEMMA CookiesAfter ==
  ASSUME SessionInv, NEW b \in Browsers, NEW jar \in Jar, jar.refresh \in 0..Len(refresh),
         jars' = [jars EXCEPT ![b] = jar], UNCHANGED refresh
  PROVE  jars' \in [Browsers -> Jar] /\ CookieInv'
  BY DEF SessionInv, ShapeInv, CookieInv

\* The other steps that leave the table alone: a login reads the key again.
LEMMA LoginKeyKeeps == ASSUME SessionInv, NEW c \in Calls, LoginKey(c) PROVE SessionInv'
<1>1. Sound(refresh, over)' /\ CookieInv'
  BY DEF SessionInv, LoginKey, Sound, CookieInv
<1>2. calls[c] \in Call /\ signingKey \in Nat
  BY DEF SessionInv, ShapeInv
<1>3. ShapeInv'
  BY <1>2 DEF SessionInv, LoginKey, ShapeInv, Call
<1>4. CallInv'
  BY <1>2 DEF SessionInv, LoginKey, ShapeInv, CallInv, Call
<1> QED
  BY <1>1, <1>3, <1>4 DEF SessionInv

\* A step that keeps the tokens and sets marks on them, or adds one, and answers the call
\* c; the others keep what they rely on.
LEMMA CallsAfter ==
  ASSUME SessionInv, NEW c \in Calls,
         Len(refresh') \in Nat, Len(refresh) <= Len(refresh'),
         \A i \in DOMAIN refresh : refresh[i].revoked => refresh'[i].revoked,
         signingKey' = signingKey \/ \A i \in DOMAIN refresh : refresh'[i].revoked,
         \/ Refused(c)
         \/ \E t \in 0..Len(refresh') : Answered(c, t)
         \/ UNCHANGED calls
  PROVE  /\ calls' \in [Calls -> Call]
         /\ \A d \in Calls : calls'[d].token \in 0..Len(refresh')
         /\ CallInv'
<1>1. /\ refresh \in Seq(Token) /\ Len(refresh) \in Nat /\ DOMAIN refresh = 1..Len(refresh)
  BY DEF SessionInv, Sound
<1>2. /\ calls \in [Calls -> Call]
      /\ \A d \in Calls : calls[d].token \in 0..Len(refresh) /\ calls[d].token \in 0..Len(refresh')
  BY <1>1 DEF SessionInv, ShapeInv
<1>3. /\ calls' \in [Calls -> Call]
      /\ \A d \in Calls : calls'[d].token \in 0..Len(refresh')
  <2>1. calls[c] \in Call /\ 0 \in 0..Len(refresh')
    BY <1>2
  <2>2. CASE Refused(c)
    <3>1. /\ NoCall(calls[c].browser) \in Call /\ NoCall(calls[c].browser).token = 0
      BY <2>1 DEF NoCall, Call, CallKinds
    <3> QED
      BY <1>2, <2>1, <2>2, <3>1 DEF Refused
  <2>3. ASSUME NEW t \in 0..Len(refresh'), Answered(c, t)
        PROVE  /\ calls' \in [Calls -> Call]
               /\ \A d \in Calls : calls'[d].token \in 0..Len(refresh')
    <3>0. t \in Nat
      OBVIOUS
    <3>1. [calls[c] EXCEPT !.pc = "answer", !.token = t] \in Call
      BY <2>1, <3>0 DEF Call
    <3>2. calls' = [calls EXCEPT ![c] = [calls[c] EXCEPT !.pc = "answer", !.token = t]]
      BY <1>2, <2>3 DEF Answered
    <3> QED
      BY <1>2, <2>1, <3>1, <3>2 DEF Call
  <2> QED
    BY <1>2, <2>2, <2>3
<1>4. ASSUME NEW d \in Calls, calls'[d].kind = "refresh", calls'[d].pc = "store"
      PROVE  calls'[d] = calls[d]
  BY <1>2, <1>4 DEF Refused, Answered, NoCall, Call
<1>5. ASSUME NEW d \in Calls, calls'[d].kind = "refresh" PROVE calls'[d].pc # "key"
  <2>1. calls'[d] = calls[d] \/ calls'[d].pc \in {"idle", "answer"}
    BY <1>2 DEF Refused, Answered, NoCall, Call
  <2>2. calls[d].kind = "refresh" => calls[d].pc # "key"
    BY DEF SessionInv, CallInv
  <2> QED
    BY <1>5, <2>1, <2>2
<1>6. ASSUME NEW d \in Calls, calls'[d].kind = "refresh", calls'[d].pc = "store"
      PROVE  calls'[d].token # 0 /\ (calls'[d].key # signingKey' => refresh'[calls'[d].token].revoked)
  <2>1. /\ calls'[d] = calls[d] /\ calls[d].token # 0
        /\ calls[d].key # signingKey => refresh[calls[d].token].revoked
    BY <1>4, <1>6 DEF SessionInv, CallInv
  <2>2. calls[d].token \in DOMAIN refresh
    BY <1>1, <1>2, <2>1
  <2> QED
    BY <2>1, <2>2
<1> QED
  BY <1>3, <1>5, <1>6 DEF CallInv

\* An answer brings the cookies of a token that was stored, clears them, or is lost.
LEMMA AnswerKeeps ==
  ASSUME SessionInv, NEW c \in Calls, SetAuthCookies(c) \/ CallFails(c) PROVE SessionInv'
<1>1. /\ UNCHANGED <<refresh, over, signingKey, registered>> /\ Refused(c)
      /\ Len(refresh) \in Nat
  BY DEF SetAuthCookies, CallFails, SessionInv, Sound
<1>2. Sound(refresh, over)'
  BY <1>1 DEF SessionInv, Sound
<1>3. calls' \in [Calls -> Call] /\ (\A d \in Calls : calls'[d].token \in 0..Len(refresh')) /\ CallInv'
  BY <1>1, CallsAfter
<1>4. jars' \in [Browsers -> Jar] /\ CookieInv'
  <2>1. CASE UNCHANGED jars
    BY <1>1, <2>1 DEF SessionInv, ShapeInv, CookieInv
  <2>2. CASE jars' = [jars EXCEPT ![calls[c].browser] = AnswerCookies(calls[c])]
    <3>1. calls[c] \in Call /\ calls[c].token \in 0..Len(refresh)
      BY DEF SessionInv, ShapeInv
    <3>2. /\ calls[c].browser \in Browsers /\ AnswerCookies(calls[c]) \in Jar
          /\ AnswerCookies(calls[c]).refresh \in 0..Len(refresh)
      BY <1>1, <3>1 DEF AnswerCookies, NoCookies, Call, Jar
    <3> QED
      BY <1>1, <2>2, <3>1, <3>2, CookiesAfter
  <2> QED
    BY <2>1, <2>2 DEF SetAuthCookies, CallFails
<1>5. ShapeInv'
  BY <1>1, <1>3, <1>4 DEF SessionInv, ShapeInv
<1> QED
  BY <1>2, <1>3, <1>4, <1>5 DEF SessionInv

\* An access cookie expires.
LEMMA AccessKeeps == ASSUME SessionInv, NEW b \in Browsers, AccessExpires(b) PROVE SessionInv'
<1>1. UNCHANGED <<refresh, over, signingKey, registered, calls>>
  BY DEF AccessExpires
<1>2. Sound(refresh, over)' /\ CallInv'
  BY <1>1 DEF SessionInv, Sound, CallInv
<1>3. jars[b] \in Jar /\ jars[b].refresh \in 0..Len(refresh)
  BY DEF SessionInv, ShapeInv, CookieInv
<1>4. [jars[b] EXCEPT !.access = 0] \in Jar /\ [jars[b] EXCEPT !.access = 0].refresh = jars[b].refresh
  BY <1>3 DEF Jar
<1>5. jars' = [jars EXCEPT ![b] = [jars[b] EXCEPT !.access = 0]]
  BY DEF AccessExpires, SessionInv, ShapeInv
<1>6. jars' \in [Browsers -> Jar] /\ CookieInv'
  BY <1>1, <1>3, <1>4, <1>5, CookiesAfter
<1>7. ShapeInv'
  BY <1>1, <1>6 DEF SessionInv, ShapeInv
<1> QED
  BY <1>2, <1>6, <1>7 DEF SessionInv

\* A registration or a login adds the first token of a family, once.
LEMMA LoginKeeps ==
  ASSUME SessionInv, NEW c \in Calls, RegisterUser(c) \/ CreateRefresh(c) PROVE SessionInv'
<1>1. CASE RegisterUser(c) /\ registered /\ Refused(c) /\ UNCHANGED <<registered, refresh>>
  <2>1. UNCHANGED <<signingKey, over, jars>> /\ Len(refresh) \in Nat
    BY <1>1 DEF RegisterUser, SessionInv, Sound
  <2>2. calls' \in [Calls -> Call] /\ (\A d \in Calls : calls'[d].token \in 0..Len(refresh')) /\ CallInv'
    BY <1>1, <2>1, CallsAfter
  <2> QED
    BY <1>1, <2>1, <2>2 DEF SessionInv, Sound, ShapeInv, CookieInv
<1>2. CASE /\ registered' \in BOOLEAN /\ UNCHANGED <<signingKey, over, jars>>
           /\ Len(refresh) < MaxTokens
           /\ refresh' = Append(refresh, NewToken(Len(refresh) + 1))
           /\ Answered(c, Len(refresh) + 1)
  <2>1. /\ refresh \in Seq(Token) /\ Len(refresh) \in Nat /\ NewToken(Len(refresh) + 1) \in Token
    BY DEF SessionInv, Sound, NewToken, Token
  <2>2. /\ Len(refresh') = Len(refresh) + 1
        /\ \A i \in DOMAIN refresh : refresh'[i] = refresh[i]
    BY <1>2, <2>1, AppendToken
  <2>3. Sound(refresh, over)'
    BY <1>2, LoginIsSound DEF SessionInv
  <2>4. calls' \in [Calls -> Call] /\ (\A d \in Calls : calls'[d].token \in 0..Len(refresh')) /\ CallInv'
    BY <1>2, <2>1, <2>2, CallsAfter
  <2>5. ShapeInv' /\ CookieInv'
    BY <1>2, <2>1, <2>2, <2>4, SessionConstants DEF SessionInv, ShapeInv, CookieInv
  <2> QED
    BY <2>3, <2>4, <2>5 DEF SessionInv
<1>3. registered \in BOOLEAN
  BY DEF SessionInv, ShapeInv
<1> QED
  BY <1>1, <1>2, <1>3, Zenon DEF RegisterUser, CreateRefresh

\* Revoking the family of t marks all of its tokens.
LEMMA RevokedIsSound ==
  ASSUME NEW rs, NEW past, Sound(rs, past), NEW t \in DOMAIN rs
  PROVE  /\ Sound(Revoked(rs, t), past \cup {rs[t].family})
         /\ Len(Revoked(rs, t)) = Len(rs)
         /\ \A i \in DOMAIN rs : rs[i].revoked => Revoked(rs, t)[i].revoked
<1> DEFINE ms == Revoked(rs, t)
<1>1. rs \in Seq(Token) /\ DOMAIN rs = 1..Len(rs) /\ \A i \in DOMAIN rs : rs[i] \in Token
  BY DEF Sound
<1>2. ms \in [DOMAIN rs -> Token]
  BY <1>1 DEF Revoked, Token
<1>3. \A i \in DOMAIN rs : /\ ms[i].family = rs[i].family
                           /\ rs[i].revoked => ms[i].revoked
                           /\ Active(ms[i]) => Active(rs[i]) /\ rs[i].family \notin {rs[t].family}
  BY <1>1 DEF Revoked, Token, Active
<1>4. {rs[t].family} \subseteq DOMAIN rs
  BY <1>1 DEF Sound
<1> HIDE DEF ms
<1>5. Sound(ms, past \cup {rs[t].family})
  BY <1>2, <1>3, <1>4, MarksAreSound
<1>6. Len(ms) = Len(rs)
  BY <1>1, <1>2, MarkTokens
<1> QED
  BY <1>3, <1>5, <1>6 DEF ms

\* A rotation marks every token.
LEMMA RotatedIsSound ==
  ASSUME NEW rs, NEW past, Sound(rs, past)
  PROVE  /\ Sound(Rotated(rs), past \cup {rs[i].family : i \in DOMAIN rs})
         /\ Len(Rotated(rs)) = Len(rs)
         /\ \A i \in DOMAIN rs : Rotated(rs)[i].revoked
<1> DEFINE ms == Rotated(rs)
           all == {rs[i].family : i \in DOMAIN rs}
<1>1. rs \in Seq(Token) /\ DOMAIN rs = 1..Len(rs) /\ \A i \in DOMAIN rs : rs[i] \in Token
  BY DEF Sound
<1>2. ms \in [DOMAIN rs -> Token]
  BY <1>1 DEF Rotated, Token
<1>3. \A i \in DOMAIN rs : ms[i].family = rs[i].family /\ ms[i].revoked /\ ~Active(ms[i])
  BY <1>1 DEF Rotated, Token, Active
<1>4. all \subseteq DOMAIN rs
  BY <1>1 DEF Sound
<1> HIDE DEF ms, all
<1>5. Sound(ms, past \cup all)
  BY <1>2, <1>3, <1>4, MarksAreSound
<1>6. Len(ms) = Len(rs)
  BY <1>1, <1>2, MarkTokens
<1> QED
  BY <1>3, <1>5, <1>6 DEF ms, all

\* An exchange of a token that is over, one that ends a family, and one that succeeds.
LEMMA ExchangeKeeps ==
  ASSUME SessionInv, NEW c \in Calls, ExchangeRefresh(c) PROVE SessionInv'
<1> DEFINE t == calls[c].token
<1>1. refresh \in Seq(Token) /\ Len(refresh) \in Nat /\ DOMAIN refresh = 1..Len(refresh)
  BY DEF SessionInv, Sound
<1>2. t \in DOMAIN refresh
  BY <1>1 DEF ExchangeRefresh, Storing, SessionInv, ShapeInv, CallInv
<1>3. UNCHANGED <<registered, signingKey, jars>>
  BY DEF ExchangeRefresh
<1>4. CASE Refused(c) /\ UNCHANGED <<refresh, over>>
  <2>1. calls' \in [Calls -> Call] /\ (\A d \in Calls : calls'[d].token \in 0..Len(refresh')) /\ CallInv'
    BY <1>1, <1>3, <1>4, CallsAfter
  <2> QED
    BY <1>3, <1>4, <2>1 DEF SessionInv, Sound, ShapeInv, CookieInv
<1>5. CASE Refused(c) /\ refresh' = Revoked(refresh, t) /\ over' = over \cup {refresh[t].family}
  <2>1. /\ Sound(refresh', over') /\ Len(refresh') = Len(refresh)
        /\ \A i \in DOMAIN refresh : refresh[i].revoked => refresh'[i].revoked
    BY <1>2, <1>5, RevokedIsSound DEF SessionInv
  <2>2. calls' \in [Calls -> Call] /\ (\A d \in Calls : calls'[d].token \in 0..Len(refresh')) /\ CallInv'
    BY <1>1, <1>3, <1>5, <2>1, CallsAfter
  <2> QED
    BY <1>3, <2>1, <2>2 DEF SessionInv, ShapeInv, CookieInv, Sound
<1>6. CASE /\ Active(refresh[t]) /\ Len(refresh) < MaxTokens
           /\ refresh' = Exchanged(refresh, t) /\ UNCHANGED over
           /\ Answered(c, Len(refresh) + 1)
  <2>1. /\ Sound(refresh', over') /\ Len(refresh') = Len(refresh) + 1
        /\ \A i \in DOMAIN refresh : refresh'[i].revoked = refresh[i].revoked
    BY <1>2, <1>6, ExchangeIsSound DEF SessionInv
  <2>2. calls' \in [Calls -> Call] /\ (\A d \in Calls : calls'[d].token \in 0..Len(refresh')) /\ CallInv'
    BY <1>1, <1>3, <1>6, <2>1, CallsAfter
  <2>3. ShapeInv' /\ CookieInv'
    BY <1>1, <1>3, <1>6, <2>1, <2>2, SessionConstants DEF SessionInv, ShapeInv, CookieInv
  <2> QED
    BY <2>1, <2>2, <2>3 DEF SessionInv, Sound
<1> QED
  BY <1>4, <1>5, <1>6 DEF ExchangeRefresh

\* A logout revokes a family, or finds nothing.
LEMMA LogoutKeeps ==
  ASSUME SessionInv, NEW c \in Calls, RevokeRefreshFamily(c) PROVE SessionInv'
<1> DEFINE t == calls[c].token
<1>1. refresh \in Seq(Token) /\ Len(refresh) \in Nat /\ DOMAIN refresh = 1..Len(refresh)
  BY DEF SessionInv, Sound
<1>2. 0 \in 0..Len(refresh)
  BY <1>1
<1>3. UNCHANGED <<registered, signingKey, jars>>
  BY DEF RevokeRefreshFamily
<1>4. CASE Refused(c) /\ UNCHANGED <<refresh, over>>
  <2>1. calls' \in [Calls -> Call] /\ (\A d \in Calls : calls'[d].token \in 0..Len(refresh')) /\ CallInv'
    BY <1>1, <1>3, <1>4, CallsAfter
  <2> QED
    BY <1>3, <1>4, <2>1 DEF SessionInv, Sound, ShapeInv, CookieInv
<1>5. CASE /\ t # 0 /\ refresh' = Revoked(refresh, t) /\ over' = over \cup {refresh[t].family}
           /\ Answered(c, 0)
  <2>1. t \in DOMAIN refresh
    BY <1>1, <1>5 DEF SessionInv, ShapeInv
  <2>2. /\ Sound(refresh', over') /\ Len(refresh') = Len(refresh)
        /\ \A i \in DOMAIN refresh : refresh[i].revoked => refresh'[i].revoked
    BY <1>5, <2>1, RevokedIsSound DEF SessionInv
  <2>3. calls' \in [Calls -> Call] /\ (\A d \in Calls : calls'[d].token \in 0..Len(refresh')) /\ CallInv'
    BY <1>1, <1>2, <1>3, <1>5, <2>2, CallsAfter
  <2>4. ShapeInv' /\ CookieInv'
    BY <1>1, <1>3, <1>5, <2>2, <2>3 DEF SessionInv, ShapeInv, CookieInv
  <2> QED
    BY <2>2, <2>3, <2>4 DEF SessionInv, Sound
<1> QED
  BY <1>4, <1>5 DEF RevokeRefreshFamily

\* A change of the password revokes every session, also under calls that are under way.
LEMMA RotateKeeps ==
  ASSUME SessionInv, ResetPassword \/ \E c \in Calls : UpdatePasswordAndRevoke(c) PROVE SessionInv'
<1>1. refresh \in Seq(Token) /\ Len(refresh) \in Nat /\ DOMAIN refresh = 1..Len(refresh)
  BY DEF SessionInv, Sound
<1>2. Rotate /\ UNCHANGED registered
  BY DEF ResetPassword, UpdatePasswordAndRevoke
<1>3. /\ Sound(refresh', over') /\ Len(refresh') = Len(refresh)
      /\ \A i \in DOMAIN refresh : refresh'[i].revoked
  BY <1>2, RotatedIsSound DEF SessionInv, Rotate
<1>4. signingKey' \in 1..(MaxRotations + 1)
  BY <1>2, SessionConstants DEF SessionInv, ShapeInv, Rotate
<1>5. CASE ResetPassword
  <2>1. UNCHANGED <<jars, calls>>
    BY <1>5 DEF ResetPassword
  <2>2. CallInv'
    <3> SUFFICES ASSUME NEW d \in Calls, calls[d].kind = "refresh"
                 PROVE  /\ calls[d].pc # "key"
                        /\ calls[d].pc = "store" =>
                              calls[d].token # 0 /\ refresh'[calls[d].token].revoked
      BY <2>1 DEF CallInv
    <3> QED
      BY <1>1, <1>3 DEF SessionInv, ShapeInv, CallInv
  <2> QED
    BY <1>2, <1>3, <1>4, <2>1, <2>2 DEF SessionInv, Sound, ShapeInv, CookieInv
<1>6. ASSUME NEW c \in Calls, UpdatePasswordAndRevoke(c) PROVE SessionInv'
  <2>1. Answered(c, 0) /\ UNCHANGED jars
    BY <1>6 DEF UpdatePasswordAndRevoke
  <2>2. 0 \in 0..Len(refresh')
    BY <1>1, <1>3
  <2>3. calls' \in [Calls -> Call] /\ (\A d \in Calls : calls'[d].token \in 0..Len(refresh')) /\ CallInv'
    BY <1>1, <1>3, <2>1, <2>2, CallsAfter
  <2>4. ShapeInv' /\ CookieInv'
    BY <1>1, <1>2, <1>3, <1>4, <2>1, <2>3 DEF SessionInv, ShapeInv, CookieInv
  <2> QED
    BY <1>3, <2>3, <2>4 DEF SessionInv, Sound
<1> QED
  BY <1>5, <1>6

\* cleanupRefresh deletes a family as a whole.
LEMMA ExpiryKeeps == ASSUME SessionInv, NEW f, FamilyExpires(f) PROVE SessionInv'
<1>1. /\ refresh \in Seq(Token) /\ Len(refresh) \in Nat /\ DOMAIN refresh = 1..Len(refresh)
      /\ \A i \in DOMAIN refresh : refresh[i] \in Token
  BY DEF SessionInv, Sound
<1>2. refresh' \in [DOMAIN refresh -> Token]
  BY <1>1 DEF FamilyExpires, Token
<1>3. \A i \in DOMAIN refresh : /\ refresh'[i].family = refresh[i].family
                                /\ refresh'[i].revoked = refresh[i].revoked
                                /\ Active(refresh'[i]) => Active(refresh[i]) /\ refresh[i].family \notin {f}
  BY <1>1 DEF FamilyExpires, Token, Active
<1>4. {f} \subseteq DOMAIN refresh /\ over' = over \cup {f} /\ UNCHANGED <<registered, signingKey, jars, calls>>
  BY DEF FamilyExpires
<1>5. Sound(refresh', over')
  <2> DEFINE ms == refresh'
  <2>1. /\ ms \in [DOMAIN refresh -> Token]
        /\ \A i \in DOMAIN refresh : ms[i].family = refresh[i].family
        /\ \A i \in DOMAIN refresh : Active(ms[i]) => Active(refresh[i]) /\ refresh[i].family \notin {f}
    BY <1>2, <1>3
  <2> HIDE DEF ms
  <2>2. Sound(ms, over \cup {f})
    BY <1>4, <2>1, MarksAreSound DEF SessionInv
  <2> QED
    BY <1>4, <2>2 DEF ms
<1>6. Len(refresh') = Len(refresh)
  BY <1>1, <1>2, MarkTokens
<1>7. ShapeInv' /\ CookieInv'
  BY <1>4, <1>6 DEF SessionInv, ShapeInv, CookieInv
<1>8. CallInv'
  BY <1>1, <1>3, <1>4 DEF SessionInv, ShapeInv, CallInv
<1> QED
  BY <1>5, <1>7, <1>8 DEF SessionInv, Sound

\* Every step keeps it.
LEMMA SessionInvStep == SessionInv /\ [AuthNext]_authVars => SessionInv'
<1> SUFFICES ASSUME SessionInv, [AuthNext]_authVars PROVE SessionInv'
  OBVIOUS
<1>1. ASSUME NEW c \in Calls, NEW b \in Browsers,
             \/ BeginRegister(c, b) \/ BeginLogin(c, b) \/ BeginRefresh(c, b)
             \/ BeginLogout(c, b) \/ BeginPassword(c, b)
      PROVE  SessionInv'
  BY <1>1, BeginKeeps DEF BeginRegister, BeginLogin, BeginRefresh, BeginLogout, BeginPassword, CallKinds
<1>2. ASSUME NEW c \in Calls,
             \/ LoginKey(c) \/ RegisterUser(c) \/ CreateRefresh(c) \/ ExchangeRefresh(c)
             \/ RevokeRefreshFamily(c) \/ UpdatePasswordAndRevoke(c) \/ SetAuthCookies(c) \/ CallFails(c)
      PROVE  SessionInv'
  BY <1>2, LoginKeyKeeps, LoginKeeps, ExchangeKeeps, LogoutKeeps, RotateKeeps, AnswerKeeps
<1>3. CASE ResetPassword
  BY <1>3, RotateKeeps
<1>4. ASSUME NEW b \in Browsers, AccessExpires(b) PROVE SessionInv'
  BY <1>4, AccessKeeps
<1>5. ASSUME NEW f, FamilyExpires(f) PROVE SessionInv'
  BY <1>5, ExpiryKeeps
<1>6. CASE UNCHANGED authVars
  BY <1>6 DEF authVars, SessionInv, Sound, ShapeInv, CallInv, CookieInv
<1> QED
  BY <1>1, <1>2, <1>3, <1>4, <1>5, <1>6 DEF AuthNext

\* It holds always.
LEMMA SessionInvariant == AuthSpec => []SessionInv
  BY SessionInvInit, SessionInvStep, PTL DEF AuthSpec

\* However many tabs, retries and lost answers overlap, at most one token of a
\* family can be exchanged (ExchangeRefresh).
THEOREM OneActiveToken == AuthSpec => []OneActivePerFamily
  BY SessionInvariant, SessionInvSuffices, PTL

\* A family that has ended by logout, reuse, expiry or a change of the password
\* never has a usable token again.
THEOREM EndedFamilies == AuthSpec => []OverIsOver
  BY SessionInvariant, SessionInvSuffices, PTL

\* An exchange that commits after a change of the password would need a token that
\* the change has revoked: the key it has read is still in force.
THEOREM ExchangesAreCurrent == AuthSpec => ExchangeSignsWithCurrentKey
<1> DEFINE Signs == \A c \in Calls :
                       calls[c].kind = "refresh" /\ calls[c].pc = "store" /\ calls'[c].pc = "answer" =>
                          calls[c].key = signingKey
<1>1. SessionInv /\ [AuthNext]_authVars => [Signs]_authVars
  <2> SUFFICES ASSUME SessionInv, AuthNext, NEW c \in Calls,
                      calls[c].kind = "refresh", calls[c].pc = "store", calls'[c].pc = "answer"
               PROVE  calls[c].key = signingKey
    OBVIOUS
  <2>1. calls \in [Calls -> Call]
    BY DEF SessionInv, ShapeInv
  <2>2. ~(ResetPassword \/ \E b \in Browsers : AccessExpires(b))
    BY DEF ResetPassword, AccessExpires
  <2>3. ~\E f \in 1..MaxTokens : FamilyExpires(f)
    BY DEF FamilyExpires
  <2>4. ASSUME NEW d \in Calls, NEW b \in Browsers, NEW kind, NEW pc \in {"key", "store"},
               BeginCall(d, kind, b, pc)
        PROVE  FALSE
    BY <2>1, <2>4 DEF BeginCall
  <2>5. ASSUME NEW d \in Calls, LoginKey(d) PROVE FALSE
    BY <2>1, <2>5 DEF LoginKey, Call
  <2>6. ASSUME NEW d \in Calls, Refused(d) PROVE FALSE
    BY <2>1, <2>6 DEF Refused, NoCall
  <2>7. ASSUME NEW d \in Calls, NEW t, Answered(d, t) PROVE d = c
    BY <2>1, <2>7 DEF Answered
  <2>8. ASSUME NEW d \in Calls, RegisterUser(d) \/ CreateRefresh(d) PROVE FALSE
    BY <2>6, <2>7, <2>8 DEF RegisterUser, CreateRefresh, Storing
  <2>9. ASSUME NEW d \in Calls,
               \/ RevokeRefreshFamily(d) \/ UpdatePasswordAndRevoke(d)
               \/ SetAuthCookies(d) \/ CallFails(d)
        PROVE  FALSE
    BY <2>6, <2>7, <2>9 DEF RevokeRefreshFamily, UpdatePasswordAndRevoke, SetAuthCookies, CallFails,
                            Storing
  <2>10. ASSUME NEW d \in Calls, ExchangeRefresh(d) PROVE Active(refresh[calls[c].token])
    BY <2>6, <2>7, <2>10 DEF ExchangeRefresh
  <2>11. Active(refresh[calls[c].token])
    BY <2>2, <2>3, <2>4, <2>5, <2>8, <2>9, <2>10
    DEF AuthNext, BeginRegister, BeginLogin, BeginRefresh, BeginLogout, BeginPassword
  <2> QED
    BY <2>11 DEF SessionInv, CallInv, Active
<1> QED
  BY <1>1, SessionInvariant, PTL DEF AuthSpec, ExchangeSignsWithCurrentKey

-----------------------------------------------------------------------------
(* The composition.                                                        *)

\* A step of the composition is a step or a stutter of each part.
LEMMA ControlStep ==
  [ControlNext]_<<part, vars, opVars, gitVars, authVars>> =>
     [Next]_vars /\ [OpsNext]_opVars /\ [GitNext]_gitVars /\ [AuthNext]_authVars
  BY Zenon DEF ControlNext

\* What TLC runs as one specification implements those of the repository, the
\* operations, the commits and the sessions: every theorem about one of them is
\* one about the run.
THEOREM ControlImplements == ControlSpec => Spec /\ OpsSpec /\ GitSpec /\ AuthSpec
<1>1. ControlInit => Init /\ OpsInit /\ GitInit /\ AuthInit
  BY DEF ControlInit
<1>2. QED
  BY <1>1, ControlStep, PTL DEF ControlSpec, Spec, OpsSpec, GitSpec, AuthSpec

\* Rows, alerts, tables, trees, tokens, calls and requests keep their types and
\* bounds, whatever requests, goroutines, failures and crashes do.
THEOREM ControlTypes == ControlSpec => []ControlTypeOK
<1>1. AuthSpec => []AuthTypeOK
  BY SessionInvariant, SessionInvSuffices, PTL
<1>2. TypeOK /\ OpsTypeOK /\ GitTypeOK /\ AuthTypeOK => ControlTypeOK
  BY DEF ControlTypeOK
<1>3. QED
  BY <1>1, <1>2, ControlImplements, RepositoryTypeCorrect, OpsTypeCorrect, GitTypeCorrect, PTL

=============================================================================
