----------------------------- MODULE TokensProofs -----------------------------
(***************************************************************************)
(* Theorems about module Tokens, for any number of callers, any margin and *)
(* any lives of tokens that are longer than it.                            *)
(***************************************************************************)
EXTENDS Tokens, TLAPS

(* At first nobody holds the mutex, and nobody fetches.                    *)
LEMMA TypeInit == TokensInit => TokensTypeOK
<1> SUFFICES ASSUME TokensInit PROVE TokensTypeOK
  OBVIOUS
<1>1. slow \in BOOLEAN
  BY Zenon DEF TokensInit
<1> QED
  BY <1>1, TokenConstants DEF TokensInit, TokensTypeOK, Time

(* An answer on its way is an issued token, whose life is longer than the  *)
(* margin and not shorter than the assumed one.                            *)
LEMMA AnswerTyped ==
  ASSUME TokensTypeOK, issued # None
  PROVE  /\ issued.at \in Nat /\ issued.life \in Nat /\ clock \in Nat /\ Margin \in Nat
         /\ issued.life > Margin /\ Fallback <= issued.life /\ Fallback \in Nat
<1>1. issued \in [at : Time, life : Lives]
  BY DEF TokensTypeOK
<1>2. issued.at \in Time /\ issued.life \in Lives
  BY <1>1
<1>3. Time \subseteq Nat /\ Margin \in Nat /\ Fallback \in Nat
  BY TokenConstants DEF Time
<1> QED
  BY <1>2, <1>3, TokenConstants DEF TokensTypeOK

(* Each step of a caller keeps the mutex with the caller that fetches.     *)
LEMMA TypeByCaller ==
  ASSUME TokensTypeOK, NEW a \in Callers,
         Call(a) \/ Token(a) \/ fetchToken(a) \/ FetchFails(a) \/ Return(a)
  PROVE  TokensTypeOK'
<1> USE TokenConstants
<1>1. CASE Call(a)
  BY <1>1 DEF Call, Goto, TokensTypeOK, cache
<1>2. CASE Token(a)
  BY <1>2 DEF Token, Goto, TokensTypeOK, cache
<1>3. CASE fetchToken(a)
  <2>1. expiresAt' \in Nat /\ goodUntil' \in Nat
    <3>1. PICK life \in {issued.life, Fallback} : expiresAt' = clock + life
      BY <1>3 DEF fetchToken
    <3> QED
      BY <1>3, <3>1, AnswerTyped DEF fetchToken
  <2>2. slow' \in BOOLEAN
    BY <1>3 DEF fetchToken
  <2> QED
    BY <1>3, <2>1, <2>2 DEF fetchToken, Goto, TokensTypeOK
<1>4. CASE FetchFails(a)
  BY <1>4 DEF FetchFails, Goto, TokensTypeOK, cache
<1>5. CASE Return(a)
  BY <1>5 DEF Return, Goto, TokensTypeOK, cache
<1> QED
  BY <1>1, <1>2, <1>3, <1>4, <1>5

(* So does each step: the clock's and the PSP's leave the mutex alone.     *)
LEMMA TypeStep == TokensTypeOK /\ [TokensNext]_tvars => TokensTypeOK'
<1> SUFFICES ASSUME TokensTypeOK, [TokensNext]_tvars PROVE TokensTypeOK'
  OBVIOUS
<1>1. CASE Tick
  BY <1>1, TokenConstants DEF Tick, TokensTypeOK, Time, cache
<1>2. CASE Issue
  BY <1>2 DEF Issue, TokensTypeOK, cache
<1>3. CASE UNCHANGED tvars
  BY <1>3 DEF tvars, TokensTypeOK, cache
<1> QED
  BY <1>1, <1>2, <1>3, TypeByCaller DEF TokensNext

(* Type correctness, mutual exclusion of the fetches included.             *)
THEOREM TokensTypeCorrect == TokensSpec => []TokensTypeOK
  BY TypeInit, TypeStep, PTL DEF TokensSpec

-----------------------------------------------------------------------------

(* If the answer did not take longer than the margin, then the manager is  *)
(* at most a margin late about the end of the cached token.                *)
LateByMargin == slow \/ expiresAt <= goodUntil + Margin

(* What a fetch stores: a life that is not longer than the token's, from a *)
(* moment at most a margin after the PSP's, unless it was slow.            *)
LEMMA FetchedInTime ==
  ASSUME TokensTypeOK, NEW a \in Callers, fetchToken(a)
  PROVE  LateByMargin' /\ (slow' \/ clock < goodUntil')
<1>1. PICK life \in {issued.life, Fallback} : expiresAt' = clock + life
  BY DEF fetchToken
<1>2. /\ issued.at \in Nat /\ issued.life \in Nat /\ clock \in Nat /\ Margin \in Nat
      /\ issued.life > Margin /\ Fallback <= issued.life /\ Fallback \in Nat
  BY AnswerTyped DEF fetchToken
<1>3. goodUntil' = issued.at + issued.life /\ slow' = (clock > issued.at + Margin)
  BY DEF fetchToken
<1>4. CASE clock > issued.at + Margin
  BY <1>3, <1>4 DEF LateByMargin
<1>5. CASE clock <= issued.at + Margin
  BY <1>1, <1>2, <1>3, <1>5 DEF LateByMargin
<1> QED
  BY <1>2, <1>4, <1>5

(* Only a fetch changes what the manager and the PSP take the life to be.  *)
LEMMA LateStep == TokensTypeOK /\ LateByMargin /\ [TokensNext]_tvars => LateByMargin'
<1> SUFFICES ASSUME TokensTypeOK, LateByMargin, [TokensNext]_tvars PROVE LateByMargin'
  OBVIOUS
<1>1. CASE \E a \in Callers : fetchToken(a)
  BY <1>1, FetchedInTime
<1>2. CASE UNCHANGED cache
  BY <1>2 DEF LateByMargin, cache
<1> QED
  BY <1>1, <1>2 DEF TokensNext, Tick, Issue, Call, Token, FetchFails, Return, tvars

(* Whoever gets a token, fresh or cached, gets one that M-Pesa still takes *)
(* at that moment, unless its answer took longer than the margin.          *)
THEOREM TokensAreUsable == TokensSpec => TokenUsable
<1> DEFINE Usable == \A a \in Callers :
             pc[a] \in {"lock", "fetch"} /\ pc'[a] = "use" => slow' \/ clock < goodUntil'
<1>1. TokensTypeOK /\ LateByMargin /\ [TokensNext]_tvars => [Usable]_tvars
  <2> SUFFICES ASSUME TokensTypeOK, LateByMargin, TokensNext, NEW a \in Callers,
                      pc[a] \in {"lock", "fetch"}, pc'[a] = "use"
               PROVE  slow' \/ clock < goodUntil'
    OBVIOUS
  <2>1. CASE fetchToken(a)
    BY <2>1, FetchedInTime
  <2>2. CASE Token(a)
    <3>1. clock < expiresAt - Margin /\ UNCHANGED cache
      BY <2>2 DEF Token, Goto, Cached, TokensTypeOK
    <3>2. clock \in Nat /\ expiresAt \in Nat /\ goodUntil \in Nat /\ Margin \in Nat
      BY TokenConstants DEF TokensTypeOK, Time
    <3> QED
      BY <3>1, <3>2 DEF LateByMargin, cache
  <2>3. fetchToken(a) \/ Token(a)
    BY DEF TokensNext, Tick, Issue, Call, Token, fetchToken, FetchFails, Return, Goto,
           TokensTypeOK
  <2> QED
    BY <2>1, <2>2, <2>3
<1>2. TokensInit => LateByMargin
  BY TokenConstants DEF TokensInit, LateByMargin
<1>3. TokenUsable <=> [][Usable]_tvars
  BY DEF TokenUsable
<1> QED
  BY <1>1, <1>2, <1>3, TokensTypeCorrect, LateStep, PTL DEF TokensSpec

=============================================================================
