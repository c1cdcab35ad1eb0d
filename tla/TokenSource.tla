---------------------------- MODULE TokenSource -----------------------------
(***************************************************************************)
(* The cache of installation tokens (TokenSource in                        *)
(* src/go/internal/ghapp/auth.go).                                         *)
(*                                                                         *)
(* Get looks under a lock for a token with more than the leeway to live,   *)
(* then for a flight in progress, and otherwise registers a flight and     *)
(* starts a goroutine that fetches a token under the context of the caller *)
(* that started it.  The goroutine stores the token and removes the flight *)
(* under the lock and then closes the flight's channel.  Every caller of   *)
(* the flight waits for that channel or for its own context.               *)
(*                                                                         *)
(* A member of Calls is one call of Get, and names the flight it leads and *)
(* the token that flight fetches.                                          *)
(***************************************************************************)
EXTENDS Integers, FiniteSets

CONSTANTS
    Calls,
    InstallationOf,  \* the installation each call asks for
    None             \* no token, no flight

ASSUME TokenAssumption == None \notin Calls /\ DOMAIN InstallationOf = Calls

VARIABLES
    call,     \* where each call of Get is
    flightOf, \* the flight it waits for
    result,   \* the token it returned, None for an error
    ended,    \* calls whose context is done
    fetch,    \* the goroutine of each flight
    life,     \* what is left of each token's life
    tokens,   \* the cached token of each installation
    flights   \* the flight in progress of each installation

tokenVars == <<call, flightOf, result, ended, fetch, life, tokens, flights>>

Installations == {InstallationOf[c] : c \in Calls}
Known == [Installations -> Calls \cup {None}]

(* A flight is open until its goroutine has removed it.                    *)
InProgress == {"fetching", "got", "failed"}

TokenTypeOK ==
    /\ call \in [Calls -> {"new", "waiting", "returned"}]
    /\ flightOf \in [Calls -> Calls \cup {None}]
    /\ result \in [Calls -> Calls \cup {None}]
    /\ ended \subseteq Calls
    /\ fetch \in [Calls -> {"none", "stored", "empty", "closed", "closedEmpty"} \cup InProgress]
    /\ life \in [Calls -> {"none", "fresh", "expiring"}]
    /\ tokens \in Known
    /\ flights \in Known

TokenInit ==
    /\ call = [c \in Calls |-> "new"]
    /\ flightOf = [c \in Calls |-> None]
    /\ result = [c \in Calls |-> None]
    /\ ended = {}
    /\ fetch = [c \in Calls |-> "none"]
    /\ life = [c \in Calls |-> "none"]
    /\ tokens = [i \in Installations |-> None]
    /\ flights = [i \in Installations |-> None]

(* The cached token of an installation, if it is not within the leeway.    *)
Cached(i) == {t \in Calls : tokens[i] = t /\ life[t] = "fresh"}

Return(c, t) ==
    /\ call' = [call EXCEPT ![c] = "returned"]
    /\ result' = [result EXCEPT ![c] = t]

-----------------------------------------------------------------------------
(* Mutated forms of the operations below.                                  *)

(* The flight is removed before the token is stored, in two critical       *)
(* sections.                                                               *)
RemoveThenStore(l) ==
    /\ \/ /\ fetch[l] = "got"
          /\ flights[InstallationOf[l]] = l
          /\ flights' = [flights EXCEPT ![InstallationOf[l]] = None]
          /\ UNCHANGED <<fetch, tokens>>
       \/ /\ fetch[l] = "got"
          /\ flights[InstallationOf[l]] # l
          /\ fetch' = [fetch EXCEPT ![l] = "stored"]
          /\ tokens' = [tokens EXCEPT ![InstallationOf[l]] = l]
          /\ UNCHANGED flights
    /\ UNCHANGED <<call, flightOf, result, ended, life>>

(* A failed fetch leaves its flight registered.                            *)
FailedStays(l) ==
    /\ fetch[l] = "failed"
    /\ fetch' = [fetch EXCEPT ![l] = "empty"]
    /\ UNCHANGED <<call, flightOf, result, ended, life, tokens, flights>>

(* The fetch is given a context of its own that nothing ends.              *)
FailsAlive(l) ==
    /\ fetch[l] = "fetching"
    /\ l \notin ended
    /\ fetch' = [fetch EXCEPT ![l] = "failed"]
    /\ UNCHANGED <<call, flightOf, result, ended, life, tokens, flights>>

-----------------------------------------------------------------------------
(* Get: the locked section, with its three outcomes.                       *)

Hit(c) ==
    /\ call[c] = "new"
    /\ \E t \in Cached(InstallationOf[c]) : Return(c, t)
    /\ UNCHANGED <<flightOf, ended, fetch, life, tokens, flights>>

Join(c) ==
    LET l == flights[InstallationOf[c]] IN
    /\ call[c] = "new"
    /\ Cached(InstallationOf[c]) = {}
    /\ l # None
    /\ call' = [call EXCEPT ![c] = "waiting"]
    /\ flightOf' = [flightOf EXCEPT ![c] = l]
    /\ UNCHANGED <<result, ended, fetch, life, tokens, flights>>

Lead(c) ==
    LET i == InstallationOf[c] IN
    /\ call[c] = "new"
    /\ Cached(i) = {}
    /\ flights[i] = None
    /\ call' = [call EXCEPT ![c] = "waiting"]
    /\ flightOf' = [flightOf EXCEPT ![c] = c]
    /\ fetch' = [fetch EXCEPT ![c] = "fetching"]
    /\ flights' = [flights EXCEPT ![i] = c]
    /\ UNCHANGED <<result, ended, life, tokens>>

(* Get: the wait, for the flight or for the caller's own context.          *)

ReturnFlight(c) ==
    /\ call[c] = "waiting"
    /\ \/ fetch[flightOf[c]] = "closed" /\ Return(c, flightOf[c])
       \/ fetch[flightOf[c]] = "closedEmpty" /\ Return(c, None)
    /\ UNCHANGED <<flightOf, ended, fetch, life, tokens, flights>>

ReturnCancelled(c) ==
    /\ call[c] = "waiting"
    /\ c \in ended
    /\ Return(c, None)
    /\ UNCHANGED <<flightOf, ended, fetch, life, tokens, flights>>

-----------------------------------------------------------------------------
(* The goroutine of the flight that call l leads.                          *)

(* FetchInstallationToken under the leader's context: a token with a full  *)
(* life, or one that is within the leeway already (an answer without an    *)
(* expiry decodes to one).                                                 *)
FetchOk(l) ==
    /\ fetch[l] = "fetching"
    /\ l \notin ended
    /\ fetch' = [fetch EXCEPT ![l] = "got"]
    /\ \E x \in {"fresh", "expiring"} : life' = [life EXCEPT ![l] = x]
    /\ UNCHANGED <<call, flightOf, result, ended, tokens, flights>>

FetchFails(l) ==
    /\ fetch[l] = "fetching"
    /\ fetch' = [fetch EXCEPT ![l] = "failed"]
    /\ UNCHANGED <<call, flightOf, result, ended, life, tokens, flights>>

(* The second locked section.                                              *)
Store(l) ==
    /\ fetch[l] = "got"
    /\ fetch' = [fetch EXCEPT ![l] = "stored"]
    /\ tokens' = [tokens EXCEPT ![InstallationOf[l]] = l]
    /\ flights' = [flights EXCEPT ![InstallationOf[l]] = None]
    /\ UNCHANGED <<call, flightOf, result, ended, life>>

StoreNothing(l) ==
    /\ fetch[l] = "failed"
    /\ fetch' = [fetch EXCEPT ![l] = "empty"]
    /\ flights' = [flights EXCEPT ![InstallationOf[l]] = None]
    /\ UNCHANGED <<call, flightOf, result, ended, life, tokens>>

CloseDone(l) ==
    /\ \/ fetch[l] = "stored" /\ fetch' = [fetch EXCEPT ![l] = "closed"]
       \/ fetch[l] = "empty" /\ fetch' = [fetch EXCEPT ![l] = "closedEmpty"]
    /\ UNCHANGED <<call, flightOf, result, ended, life, tokens, flights>>

-----------------------------------------------------------------------------
(* The callers and the clock.                                              *)

(* A scan's context ends with its timeout, with the pool's base context or *)
(* when the scan returns.                                                  *)
ContextEnds(c) ==
    /\ call[c] # "new"
    /\ c \notin ended
    /\ ended' = ended \cup {c}
    /\ UNCHANGED <<call, flightOf, result, fetch, life, tokens, flights>>

(* A token comes within the leeway of its expiry.                          *)
Age(t) ==
    /\ life[t] = "fresh"
    /\ life' = [life EXCEPT ![t] = "expiring"]
    /\ UNCHANGED <<call, flightOf, result, ended, fetch, tokens, flights>>

TokenRest == (\A c \in Calls : call[c] = "returned") /\ UNCHANGED tokenVars

TokenNext ==
    \/ \E c \in Calls :
        \/ Hit(c) \/ Join(c) \/ Lead(c)
        \/ ReturnFlight(c) \/ ReturnCancelled(c)
        \/ FetchOk(c) \/ FetchFails(c) \/ Store(c) \/ StoreNothing(c) \/ CloseDone(c)
        \/ ContextEnds(c) \/ Age(c)
    \/ TokenRest

TokenSpec == TokenInit /\ [][TokenNext]_tokenVars

(* Every context ends, since each has a timeout; a fetch fails once its    *)
(* context has ended and need not end before; goroutines are scheduled.    *)
TokenFairness ==
    \A c \in Calls :
        /\ WF_tokenVars(ContextEnds(c))
        /\ WF_tokenVars(c \in ended /\ FetchFails(c))
        /\ WF_tokenVars(Store(c) \/ StoreNothing(c) \/ CloseDone(c))
        /\ WF_tokenVars(ReturnFlight(c))

TokenFairSpec == TokenSpec /\ TokenFairness

-----------------------------------------------------------------------------
(* What Get promises.                                                      *)

(* "One network refresh per installation regardless of caller count": two  *)
(* flights of one installation are never in progress together.             *)
SingleFlight ==
    \A l, k \in Calls :
        /\ fetch[l] \in InProgress
        /\ fetch[k] \in InProgress
        /\ InstallationOf[l] = InstallationOf[k]
        => l = k

(* The flight map holds exactly the flights in progress, so neither a      *)
(* failed fetch nor a cancelled leader blocks the installation.            *)
FlightsMatch ==
    \A i \in Installations, l \in Calls :
        flights[i] = l <=> InstallationOf[l] = i /\ fetch[l] \in InProgress

(* A token is only ever used for the installation it was fetched for, and  *)
(* only once it has been stored: no caller gets the token of another       *)
(* installation or of a flight still in progress.                          *)
OwnTokens ==
    \A c \in Calls : result[c] # None =>
        /\ InstallationOf[result[c]] = InstallationOf[c]
        /\ fetch[result[c]] \in {"stored", "closed"}

(* No refresh is wasted: a stored token is replaced only when it is within *)
(* the leeway, since a flight starts only without a fresh token and no     *)
(* other flight can store one in the meantime.                             *)
NoFreshTokenReplaced ==
    [][\A i \in Installations :
          tokens'[i] # tokens[i] => Cached(i) = {}]_tokenVars

(* The inductive invariant.                                                *)
CacheMatches ==
    /\ \A i \in Installations, t \in Calls :
          tokens[i] = t => InstallationOf[t] = i /\ fetch[t] \in {"stored", "closed"}
    /\ \A l \in Calls : fetch[l] \in InProgress => Cached(InstallationOf[l]) = {}

FlightTargets ==
    /\ \A c \in Calls :
          /\ flightOf[c] # None =>
               /\ InstallationOf[flightOf[c]] = InstallationOf[c]
               /\ fetch[flightOf[c]] # "none"
          /\ call[c] = "waiting" => flightOf[c] # None
          /\ call[c] = "new" => fetch[c] = "none"
          /\ fetch[c] = "none" => life[c] = "none"

TInv ==
    /\ TokenTypeOK
    /\ FlightsMatch
    /\ OwnTokens
    /\ CacheMatches
    /\ FlightTargets

(* Every flight ends, since the fetch ends with the leader's context: a    *)
(* fetch that hangs does not block its installation for good.              *)
FlightsEnd == \A l \in Calls : fetch[l] = "fetching" ~> fetch[l] \in {"closed", "closedEmpty"}
=============================================================================
