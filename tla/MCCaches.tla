------------------------------ MODULE MCCaches ------------------------------
(***************************************************************************)
(* The two caches of the Web processes and the daily quota, which share no *)
(* data, side by side: `part' says what a behaviour is about, and the      *)
(* variables of the others keep their first values.                        *)
(*                                                                         *)
(*   auth     two processes with one request thread each and Redis         *)
(*   quota    the same threads: three calls over two days (midnight) or on *)
(*            one day with an outage (outage), two calls with both (both)  *)
(*   market   a process and its pool of refreshes; other processes are the *)
(*            action Elsewhere.  One thread and one refresh for a long     *)
(*            time (ages), two threads that ask for the same key (calls)   *)
(*            or find it stale (race), one thread and two refreshes        *)
(*            (refreshes)                                                  *)
(***************************************************************************)
EXTENDS AuthCache, MarketCache, DailyQuota

CONSTANTS p1, p2, q1, q2, server, t1, t2, r1, r2

VARIABLE part

Processes == {p1, p2}
TwoRequests == {q1, q2}
Homes == [q \in TwoRequests |-> IF q = q1 THEN p1 ELSE p2]
TwoTokens == 1..2
OneRight == 0..1
OneServer == [t \in {t1, t2} |-> server]
OnePool == [r \in {r1, r2} |-> server]

\* Who takes part in a part of the market's cache, and how long it lasts.
Extent ==
    [ages      |-> [callers |-> {t1}, refreshes |-> {r1}, last |-> MaxNow],
     calls     |-> [callers |-> {t1, t2}, refreshes |-> {}, last |-> 1],
     race      |-> [callers |-> {t1, t2}, refreshes |-> {r1}, last |-> 0],
     refreshes |-> [callers |-> {t1}, refreshes |-> {r1, r2}, last |-> 1]]

Within(e) ==
    /\ now <= e.last
    /\ \A t \in Callers \ e.callers : step[t] = "idle"
    /\ \A r \in Refreshes \ e.refreshes : task[r] = "none"

\* The last day of a part of the quota, and how many calls and outages it has.
Season ==
    [midnight |-> [day |-> 1, calls |-> 3, outages |-> 0],
     outage   |-> [day |-> 0, calls |-> 3, outages |-> 1],
     both     |-> [day |-> 1, calls |-> 2, outages |-> 1]]

During(e) == today <= e.day /\ calls <= e.calls /\ outages <= e.outages

CachesInit ==
    /\ part \in {"auth"} \cup DOMAIN Season \cup DOMAIN Extent
    /\ Init /\ (part # "auth" => changer = p1)
    /\ QuotaInit /\ (part \notin DOMAIN Season => required)
    /\ MarketInit
CachesNext ==
    /\ UNCHANGED part
    /\ \/ part = "auth" /\ Next /\ UNCHANGED <<quotaVars, marketVars>>
       \/ part \in DOMAIN Season /\ QuotaNext /\ During(Season[part])' /\ UNCHANGED <<vars, marketVars>>
       \/ part \in DOMAIN Extent /\ MarketNext /\ Within(Extent[part])' /\ UNCHANGED <<vars, quotaVars>>
CachesSpec == CachesInit /\ [][CachesNext]_<<part, vars, quotaVars, marketVars>>
=============================================================================
