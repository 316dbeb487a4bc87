-------------------------------- MODULE Tokens --------------------------------
(***************************************************************************)
(* The TokenManager of the M-Pesa connector: one access token, cached      *)
(* under a mutex, renewed a margin before it expires. Whoever collects,    *)
(* queries or refunds asks it first.                                       *)
(*                                                                         *)
(* The mutex is held while the PSP is asked. The token's life counts from  *)
(* when the PSP issues it, and as the manager counts it from when the      *)
(* answer has been read.                                                   *)
(***************************************************************************)
EXTENDS Integers

CONSTANTS
  Callers,     \* goroutines that need a token
  Margin,      \* the token is renewed that long before it expires: a minute
  Lives,       \* how long M-Pesa's tokens may live: an hour
  Fallback,    \* the life assumed if expires_in is no number: 3599 seconds
  MaxClock,    \* bound: the clock
  None

ASSUME TokenConstants ==
  /\ {Margin, Fallback, MaxClock} \subseteq Nat
  /\ Lives \subseteq Nat
  /\ \A life \in Lives : life > Margin /\ life >= Fallback
  /\ None \notin Callers

VARIABLES
  clock,
  pc,         \* where each caller is: it wants the token, fetches or uses it
  holder,     \* the caller that holds the mutex across steps
  issued,     \* the answer on its way: when it was issued, its life; or None
  expiresAt,  \* when the manager takes the cached token to expire
  goodUntil,  \* when M-Pesa takes it to expire
  slow        \* did the answer take longer than the margin?

cache == <<expiresAt, goodUntil, slow>>
tvars == <<clock, pc, holder, issued, cache>>

Time == 0..MaxClock

(* The mutex is held exactly by the one caller that is fetching, so that   *)
(* an answer on its way has somebody waiting for it.                       *)
TokensTypeOK ==
  /\ clock \in Time
  /\ pc \in [Callers -> {"idle", "lock", "fetch", "use"}]
  /\ holder \in Callers \cup {None}
  /\ \A a \in Callers : pc[a] = "fetch" <=> holder = a
  /\ issued \in [at : Time, life : Lives] \cup {None}
  /\ issued # None => holder # None
  /\ expiresAt \in Nat /\ goodUntil \in Nat /\ slow \in BOOLEAN

TokensInit ==
  /\ clock = 0
  /\ pc = [a \in Callers |-> "idle"]
  /\ holder = None /\ issued = None
  /\ expiresAt = 0 /\ goodUntil = 0 /\ slow = FALSE

Tick ==
  /\ clock < MaxClock
  /\ clock' = clock + 1
  /\ UNCHANGED <<pc, holder, issued, cache>>

Goto(a, step) == pc' = [pc EXCEPT ![a] = step]

(* InitiateCollection, GetStatus or Refund begins ...                      *)
Call(a) ==
  /\ pc[a] = "idle"
  /\ Goto(a, "lock")
  /\ UNCHANGED <<clock, holder, issued, cache>>

(* ... and ends.                                                           *)
Return(a) ==
  /\ pc[a] = "use"
  /\ Goto(a, "idle")
  /\ UNCHANGED <<clock, holder, issued, cache>>

(* Variant: the cached token is used until the manager takes it to expire. *)
CachedToTheEnd == clock < expiresAt

Cached == clock < expiresAt - Margin

(* Token gets the mutex; with a good token it gives it back at once.       *)
Token(a) ==
  /\ pc[a] = "lock"
  /\ holder = None
  /\ IF Cached
       THEN Goto(a, "use") /\ UNCHANGED holder
       ELSE Goto(a, "fetch") /\ holder' = a
  /\ UNCHANGED <<clock, issued, cache>>

Issue ==
  /\ holder # None /\ issued = None
  /\ \E life \in Lives : issued' = [at |-> clock, life |-> life]
  /\ UNCHANGED <<clock, pc, holder, cache>>

(* The answer has been read: the token is stored and the mutex released.   *)
fetchToken(a) ==
  /\ pc[a] = "fetch"
  /\ issued # None
  /\ \E life \in {issued.life, Fallback} : expiresAt' = clock + life
  /\ goodUntil' = issued.at + issued.life
  /\ slow' = (clock > issued.at + Margin)
  /\ issued' = None
  /\ holder' = None
  /\ Goto(a, "use")
  /\ UNCHANGED clock

(* Variant: an error path that returns with the mutex still locked.        *)
FetchFailsLocked(a) ==
  /\ pc[a] = "fetch"
  /\ issued' = None
  /\ Goto(a, "idle")
  /\ UNCHANGED <<clock, holder, cache>>

(* No answer, one other than 200, or no JSON: the cache stays as it is.    *)
(* That a 200 in JSON carries a token is assumed of M-Pesa; the code does  *)
(* not look.                                                               *)
FetchFails(a) ==
  /\ pc[a] = "fetch"
  /\ issued' = None
  /\ holder' = None
  /\ Goto(a, "idle")
  /\ UNCHANGED <<clock, cache>>

TokensNext ==
  \/ Tick \/ Issue
  \/ \E a \in Callers :
       Call(a) \/ Token(a) \/ fetchToken(a) \/ FetchFails(a) \/ Return(a)

TokensSpec == TokensInit /\ [][TokensNext]_tvars

-----------------------------------------------------------------------------
(* Properties                                                              *)

(* A token that is handed out, fresh or cached and perhaps to a caller     *)
(* that waited for another's fetch, is one M-Pesa still takes, unless that *)
(* fetch took longer than the margin.                                      *)
TokenUsable ==
  [][\A a \in Callers :
       pc[a] \in {"lock", "fetch"} /\ pc'[a] = "use" =>
         slow' \/ clock < goodUntil']_tvars

=============================================================================
