------------------------- MODULE SubscriptionProofs -------------------------
(***************************************************************************)
(* Theorems about the subscription rows, for any number of rows, plans,    *)
(* durations, compensations and any waiting time for the write lock.       *)
(***************************************************************************)
EXTENDS Subscription, TLAPS, WellFoundedInduction

\* q runs out before r begins, and r is still waiting for that.
Follows(t, q, r) ==
    t[q].expire <= t[r].start /\ t[r].status = "scheduled"

\* Live rows last, and of any two one follows the other.
Sound(t) ==
    /\ \A r \in Live(t) : t[r].start < t[r].expire
    /\ \A q, r \in Live(t) : q = r \/ Follows(t, q, r) \/ Follows(t, r, q)

\* The queue alone.
QueueSound(t) ==
    /\ \A r \in Scheduled(t) : t[r].start < t[r].expire
    /\ \A q, r \in Scheduled(t) : q = r \/ Follows(t, q, r) \/ Follows(t, r, q)

Paid(t) == \A r \in Live(t) : Length(t, r) = bought[r]

\* The inductive invariant.  AtMostOneActive and PeriodsDisjoint are not inductive
\* by themselves: a promotion keeps them only because the queue is behind the
\* active row, and a rebase only because queued rows do not overlap.
IInv == TypeOK /\ Sound(sub) /\ Paid(sub)

\* The live rows are those with the two statuses (SELECT ... WHERE status).
LEMMA LiveRows ==
    ASSUME NEW t, NEW r \in Row
    PROVE  r \in Live(t) <=> t[r].status \in {"active", "scheduled"}
  BY DEF Live, Scheduled, With

\* One row through the two UPDATEs of the normalisation.
LEMMA OneRow ==
    ASSUME NEW row \in SubRow, NEW at \in Time
    PROVE  /\ Queued(row, at) \in SubRow
           /\ Expired(row, at) \in SubRow
  BY DEF Queued, Expired, SubRow, Status

\* Normalising keeps the columns of a row except the status, and never revives it.
LEMMA NormalizedRow ==
    ASSUME NEW t \in [Row -> SubRow], NEW at \in Time, NEW r \in Row
    PROVE  /\ Normalize(t, at) \in [Row -> SubRow]
           /\ Normalize(t, at)[r].start = t[r].start
           /\ Normalize(t, at)[r].expire = t[r].expire
           /\ Normalize(t, at)[r].plan = t[r].plan
           /\ r \in Live(Normalize(t, at)) => r \in Live(t) /\ at <= t[r].expire
           /\ r \in Live(Normalize(t, at)) /\ t[r].status = "scheduled"
              => Normalize(t, at)[r].status = "scheduled"
           /\ Normalize(t, at)[r].status = "active" => t[r].start <= at
           /\ Normalize(t, at)[r].status = "absent" => t[r].status = "absent"
  <1> DEFINE n == Normalize(t, at)
  <1>1. n \in [Row -> SubRow]
    BY OneRow DEF Normalize
  <1>2. /\ n[r] = Expired(Queued(t[r], at), at)
        /\ t[r] \in SubRow
    BY DEF Normalize
  <1>3. /\ n[r].start = t[r].start
        /\ n[r].expire = t[r].expire
        /\ n[r].plan = t[r].plan
    BY <1>2 DEF Expired, Queued, SubRow
  <1>4. n[r].status \in {"active", "scheduled"}
        => /\ t[r].status \in {"active", "scheduled"}
           /\ ~(t[r].expire < at)
           /\ t[r].status = "scheduled" => n[r].status = "scheduled"
           /\ n[r].status = "active" => ~(t[r].start > at)
    BY <1>2 DEF Expired, Queued, SubRow
  <1>5. t[r].start \in Int /\ t[r].expire \in Int /\ at \in Int
    BY <1>2, HorizonAssumption DEF SubRow, Time
  <1>6. n[r].status = "absent" => t[r].status = "absent"
    BY <1>2 DEF Expired, Queued, SubRow
  <1> HIDE DEF n
  <1> QED BY <1>1, <1>3, <1>4, <1>5, <1>6, LiveRows DEF n

\* The refresh's first UPDATE keeps the columns of a row and leaves live rows alone.
LEMMA ExpiredRow ==
    ASSUME NEW t \in [Row -> SubRow], NEW at \in Time, NEW r \in Row
    PROVE  /\ Expire(t, at) \in [Row -> SubRow]
           /\ Expire(t, at)[r].start = t[r].start
           /\ Expire(t, at)[r].expire = t[r].expire
           /\ r \in Live(Expire(t, at)) => r \in Live(t) /\ at <= t[r].expire
           /\ r \in Live(Expire(t, at)) => Expire(t, at)[r] = t[r]
  <1> DEFINE n == Expire(t, at)
  <1>1. n \in [Row -> SubRow]
    BY OneRow DEF Expire
  <1>2. n[r] = Expired(t[r], at) /\ t[r] \in SubRow
    BY DEF Expire
  <1>3. /\ n[r].start = t[r].start
        /\ n[r].expire = t[r].expire
    BY <1>2 DEF Expired, SubRow
  <1>4. n[r].status \in {"active", "scheduled"}
        => n[r] = t[r] /\ ~(t[r].expire < at)
    BY <1>2 DEF Expired, SubRow
  <1>5. t[r].expire \in Int /\ at \in Int
    BY <1>2, HorizonAssumption DEF SubRow, Time
  <1> HIDE DEF n
  <1> QED BY <1>1, <1>3, <1>4, <1>5, LiveRows DEF n

\* Normalising keeps the table sound.
LEMMA NormalizeSound ==
    ASSUME NEW t \in [Row -> SubRow], NEW at \in Time, Sound(t)
    PROVE  Sound(Normalize(t, at))
  <1> DEFINE n == Normalize(t, at)
  <1>1. \A r \in Live(n) : r \in Row
    BY DEF Live, Scheduled, With
  <1>2. \A r \in Live(n) : n[r].start < n[r].expire
    BY <1>1, NormalizedRow DEF Sound
  <1>3. \A q, r \in Live(n) : q = r \/ Follows(n, q, r) \/ Follows(n, r, q)
    BY <1>1, NormalizedRow DEF Sound, Follows
  <1> QED BY <1>2, <1>3 DEF Sound

\* Expiring keeps the table sound.
LEMMA ExpireSound ==
    ASSUME NEW t \in [Row -> SubRow], NEW at \in Time, Sound(t)
    PROVE  Sound(Expire(t, at))
  <1> DEFINE n == Expire(t, at)
  <1>1. \A r \in Live(n) : r \in Row
    BY DEF Live, Scheduled, With
  <1>2. \A r \in Live(n) : n[r].start < n[r].expire
    BY <1>1, ExpiredRow DEF Sound
  <1>3. \A q, r \in Live(n) : q = r \/ Follows(n, q, r) \/ Follows(n, r, q)
    BY <1>1, ExpiredRow DEF Sound, Follows
  <1> QED BY <1>2, <1>3 DEF Sound

-----------------------------------------------------------------------------
(* What the branches of apply_subscription_action may rely on.             *)

Table(t) == t \in [Row -> SubRow] /\ Sound(t) /\ Paid(t)

\* A live row is a row.
LEMMA LiveIsRow == ASSUME NEW t, NEW r \in Live(t) PROVE r \in Row
  BY DEF Live, Scheduled, With

\* The instants of a table are numbers within the range of a datetime.
LEMMA Instants ==
    ASSUME NEW t \in [Row -> SubRow]
    PROVE  /\ Horizon \in Int
           /\ \A r \in Row : /\ t[r] \in SubRow
                             /\ t[r].start \in Int /\ 0 <= t[r].start
                             /\ t[r].expire \in Int /\ 0 <= t[r].expire
                             /\ t[r].start <= Horizon /\ t[r].expire <= Horizon
  <1>1. Horizon \in Int
    BY HorizonAssumption
  <1>2. ASSUME NEW r \in Row
        PROVE  t[r] \in SubRow /\ t[r].start \in 0..Horizon /\ t[r].expire \in 0..Horizon
    <2>1. t[r] \in SubRow
      OBVIOUS
    <2> QED BY <2>1 DEF SubRow, Time
  <1> QED BY <1>1, <1>2

\* The three ways in which a row is updated, and what they leave alone.
Moved(row, from, to) == [row EXCEPT !.start = from, !.expire = to]
Grown(row, to) == [row EXCEPT !.expire = to]
Marked(row, st) == [row EXCEPT !.status = st]

\* A queued row that moves back keeps its domain, its status and its length.
LEMMA MovedRow ==
    ASSUME NEW row \in SubRow, NEW from \in Time, NEW to \in Time
    PROVE  /\ Moved(row, from, to) \in SubRow
           /\ Moved(row, from, to).status = row.status
           /\ Moved(row, from, to).start = from
           /\ Moved(row, from, to).expire = to
  BY DEF Moved, SubRow

\* A row that grows keeps its domain, its status and its start.
LEMMA GrownRow ==
    ASSUME NEW row \in SubRow, NEW to \in Time
    PROVE  /\ Grown(row, to) \in SubRow
           /\ Grown(row, to).status = row.status
           /\ Grown(row, to).start = row.start
           /\ Grown(row, to).expire = to
  BY DEF Grown, SubRow

\* A row that only changes its status keeps its period.
LEMMA MarkedRow ==
    ASSUME NEW row \in SubRow, NEW st \in Status
    PROVE  /\ Marked(row, st) \in SubRow
           /\ Marked(row, st).status = st
           /\ Marked(row, st).start = row.start
           /\ Marked(row, st).expire = row.expire
  BY DEF Marked, SubRow

\* After the normalisation every live row is still running or to come, and an
\* active one is current.
LEMMA Prepared ==
    ASSUME IInv, NEW t, t = Normalize(sub, now)
    PROVE  /\ Table(t)
           /\ \A r \in Live(t) : now <= t[r].expire
           /\ With(t, "active") = Candidates(t, now)
           /\ \A r \in Row : t[r].status = "absent" => sub[r].status = "absent"
  <1>1. sub \in [Row -> SubRow] /\ now \in Time /\ Sound(sub) /\ Paid(sub)
    BY DEF IInv, TypeOK
  <1>2. t \in [Row -> SubRow]
    <2>1. CASE Row = {}
      BY <2>1, OneRow, <1>1 DEF Normalize
    <2>2. CASE Row # {}
      BY <2>2, <1>1, NormalizedRow
    <2> QED BY <2>1, <2>2
  <1>3. Sound(t)
    BY <1>1, NormalizeSound
  <1>4. Paid(t)
    BY <1>1, NormalizedRow, LiveIsRow DEF Paid, Length
  <1>5. \A r \in Live(t) : now <= t[r].expire
    BY <1>1, NormalizedRow, LiveIsRow
  <1>6. With(t, "active") = Candidates(t, now)
    BY <1>1, <1>5, NormalizedRow DEF Candidates, Covers, With, Live
  <1>7. \A r \in Row : t[r].status = "absent" => sub[r].status = "absent"
    BY <1>1, NormalizedRow
  <1> QED BY <1>2, <1>3, <1>4, <1>5, <1>6, <1>7 DEF Table

\* There is one active row at most: the current one.
LEMMA OneActive ==
    ASSUME NEW t, Table(t), NEW q \in With(t, "active"), NEW r \in With(t, "active")
    PROVE  q = r
  BY DEF Table, Sound, Follows, Live, With

\* The days an action gives.
LEMMA DaysPositive ==
    ASSUME NEW p \in Plan, NEW extra \in ExtraDays
    PROVE  Days(p, extra) \in Nat /\ Days(p, extra) > 0
  <1>1. Duration[p] \in Nat \ {0} /\ extra \in Nat
    BY DurationAssumption, ExtraAssumption
  <1> QED BY <1>1 DEF Days

-----------------------------------------------------------------------------
(* Each action keeps the invariant.                                        *)

\* The days recorded for a new row are a number.
LEMMA Sold ==
    ASSUME IInv, NEW r \in Row, NEW days \in Nat, Sell(r, days)
    PROVE  /\ bought' \in [Row -> Nat]
           /\ bought'[r] = days
           /\ \A q \in Row \ {r} : bought'[q] = bought[q]
  BY DEF Sell, IInv, TypeOK

\* open keeps the invariant: the new row is the only live one.
LEMMA OpenStep ==
    ASSUME IInv, NEW p \in Plan, NEW extra \in ExtraDays, Open(p, extra)
    PROVE  IInv'
  <1> DEFINE t == Normalize(sub, now)
             d == Days(p, extra)
  <1>1. /\ Table(t)
        /\ With(t, "active") = Candidates(t, now)
    BY Prepared
  <1>2. d \in Nat /\ d > 0
    BY DaysPositive
  <1>3. now \in Time /\ now \in Int
    BY HorizonAssumption DEF IInv, TypeOK, Time
  <1>4. Live(t) = {} /\ now + d <= Horizon
    BY <1>1 DEF Open, Live
  <1>5. PICK r \in Row : /\ sub' = [t EXCEPT ![r] = NewRow("active", p, now, d)]
                         /\ Sell(r, d)
    BY DEF Open
  <1> HIDE DEF t, d
  <1>6. NewRow("active", p, now, d) \in SubRow
    BY <1>2, <1>3, <1>4, HorizonAssumption DEF NewRow, SubRow, Status, Time
  <1>7. /\ sub' \in [Row -> SubRow]
        /\ sub'[r] = NewRow("active", p, now, d)
        /\ \A q \in Row \ {r} : sub'[q] = t[q]
    BY <1>1, <1>5, <1>6 DEF Table
  <1>8. Live(sub') \subseteq {r}
    BY <1>7, <1>4, LiveRows, LiveIsRow
  <1>9. Sound(sub')
    BY <1>2, <1>3, <1>7, <1>8 DEF Sound, NewRow
  <1>10. bought' \in [Row -> Nat] /\ bought'[r] = d
    BY <1>2, <1>5 DEF Sell, IInv, TypeOK
  <1>11. Paid(sub)'
    BY <1>2, <1>3, <1>7, <1>8, <1>10 DEF Paid, Length, NewRow
  <1> QED BY <1>7, <1>9, <1>10, <1>11 DEF IInv, TypeOK, Open

\* What renew leaves: the current row ends later, every queued row is moved back as
\* a whole, and nothing else is live.
LEMMA RenewedTable ==
    ASSUME IInv, NEW p \in Plan, NEW extra \in ExtraDays, Renew(p, extra),
           NEW t, t = Normalize(sub, now), NEW d, d = Days(p, extra)
    PROVE  \E c \in Row :
             /\ t[c].status = "active"
             /\ Live(t) = Scheduled(t) \cup {c} /\ Live(sub') = Live(t)
             /\ sub' \in [Row -> SubRow]
             /\ sub'[c].status = "active"
             /\ sub'[c].start = t[c].start
             /\ sub'[c].expire = t[c].expire + d
             /\ \A r \in Scheduled(t) : /\ r \in Row /\ r # c
                                        /\ sub'[r].status = "scheduled"
                                        /\ sub'[r].start = t[r].start + d
                                        /\ sub'[r].expire = t[r].expire + d
             /\ Sell(c, bought[c] + d)
  <1>1. /\ Table(t)
        /\ With(t, "active") = Candidates(t, now)
    BY Prepared
  <1>2. d \in Nat /\ d > 0
    BY DaysPositive
  <1>3. PICK c \in Row :
          /\ IsCurrent(t, c, now)
          /\ \A r \in Scheduled(t) \cup {c} : t[r].expire + d <= Horizon
          /\ sub' = [r \in Row |->
               IF r = c THEN [t[r] EXCEPT !.expire = @ + d]
               ELSE IF r \in Scheduled(t)
                    THEN [t[r] EXCEPT !.start = @ + d, !.expire = @ + d]
                    ELSE t[r]]
          /\ Sell(c, bought[c] + d)
    BY DEF Renew
  <1>4. t \in [Row -> SubRow] /\ Sound(t)
    BY <1>1 DEF Table
  <1>n. /\ Horizon \in Int
        /\ \A r \in Row : /\ t[r] \in SubRow
                          /\ t[r].start \in Int /\ 0 <= t[r].start
                          /\ t[r].expire \in Int /\ 0 <= t[r].expire
    BY <1>4, Instants
  <1>5. t[c].status = "active"
    BY <1>1, <1>3 DEF IsCurrent, With
  <1>7. /\ sub'[c].status = "active"
        /\ sub'[c].start = t[c].start
        /\ sub'[c].expire = t[c].expire + d
        /\ sub'[c] \in SubRow
    <2>1. t[c].expire + d <= Horizon
      BY <1>3
    <2>2. t[c].expire + d \in Time /\ t[c] \in SubRow
      BY <2>1, <1>2, <1>n DEF Time
    <2>3. sub'[c] = Grown(t[c], t[c].expire + d)
      BY <1>3 DEF Grown
    <2> QED BY <2>2, <2>3, <1>5, GrownRow
  <1>8. ASSUME NEW r \in Scheduled(t)
        PROVE  /\ r \in Row /\ r # c
               /\ sub'[r].status = "scheduled"
               /\ sub'[r].start = t[r].start + d
               /\ sub'[r].expire = t[r].expire + d
               /\ sub'[r] \in SubRow
    <2>1. r \in Row /\ t[r].status = "scheduled" /\ r # c
      BY <1>5 DEF Scheduled, With
    <2>2. t[r].expire + d \in Time /\ t[r].start + d \in Time
      <3>1. r \in Live(t)
        BY DEF Live
      <3>2. t[r].start < t[r].expire /\ t[r].expire + d <= Horizon
        <4>1. t[r].expire + d <= Horizon
          BY <1>3
        <4> QED BY <4>1, <3>1, <1>4 DEF Sound
      <3> QED BY <3>2, <2>1, <1>2, <1>n DEF Time
    <2>3. sub'[r] = Moved(t[r], t[r].start + d, t[r].expire + d)
      BY <1>3, <2>1 DEF Moved
    <2>4. t[r] \in SubRow
      BY <2>1, <1>n
    <2> QED BY <2>1, <2>2, <2>3, <2>4, MovedRow
  <1>9. \A r \in Row : r # c /\ r \notin Scheduled(t) => sub'[r] = t[r]
    BY <1>3
  <1>10. sub' \in [Row -> SubRow]
    <2>1. \A r \in Row : sub'[r] \in SubRow
      BY <1>4, <1>7, <1>8, <1>9
    <2> QED BY <2>1, <1>3
  <1>11. Live(t) = Scheduled(t) \cup {c}
    <2>1. c \in With(t, "active")
      BY <1>5 DEF With
    <2>2. \A r \in With(t, "active") : r = c
      BY <2>1, <1>1, OneActive
    <2> QED BY <2>1, <2>2 DEF Live
  <1>12. Live(sub') = Live(t)
    <2>1. ASSUME NEW r \in Row PROVE r \in Live(sub') <=> r \in Live(t)
      <3>1. CASE r \in Scheduled(t) \cup {c}
        BY <3>1, <1>7, <1>8, <1>11, LiveRows
      <3>2. CASE r \notin Scheduled(t) \cup {c}
        BY <3>2, <1>9, LiveRows
      <3> QED BY <3>1, <3>2
    <2> QED BY <2>1, LiveIsRow
  <1> QED BY <1>3, <1>5, <1>7, <1>8, <1>10, <1>11, <1>12

\* renew keeps the invariant: the queue moves back as far as the current row grows.
LEMMA RenewStep ==
    ASSUME IInv, NEW p \in Plan, NEW extra \in ExtraDays, Renew(p, extra)
    PROVE  IInv'
  <1> DEFINE t == Normalize(sub, now)
             d == Days(p, extra)
  <1>1. Table(t)
    BY Prepared
  <1>2. d \in Nat /\ d > 0
    BY DaysPositive
  <1>3. PICK c \in Row :
             /\ t[c].status = "active"
             /\ Live(t) = Scheduled(t) \cup {c} /\ Live(sub') = Live(t)
             /\ sub' \in [Row -> SubRow]
             /\ sub'[c].status = "active"
             /\ sub'[c].start = t[c].start
             /\ sub'[c].expire = t[c].expire + d
             /\ \A r \in Scheduled(t) : /\ r \in Row /\ r # c
                                        /\ sub'[r].status = "scheduled"
                                        /\ sub'[r].start = t[r].start + d
                                        /\ sub'[r].expire = t[r].expire + d
             /\ Sell(c, bought[c] + d)
    BY RenewedTable
  <1> HIDE DEF t, d
  <1>4. t \in [Row -> SubRow] /\ Sound(t) /\ Paid(t)
    BY <1>1 DEF Table
  <1>n. \A r \in Row : t[r].start \in Int /\ t[r].expire \in Int
    BY <1>4, Instants
  <1>5. \A r \in Live(sub') : r \in Row /\ r \in Live(t) /\ (r = c \/ r \in Scheduled(t))
    BY <1>3
  <1>6. \A r \in Live(sub') : sub'[r].start < sub'[r].expire
    <2> SUFFICES ASSUME NEW r \in Live(sub') PROVE sub'[r].start < sub'[r].expire
      OBVIOUS
    <2>1. t[r].start < t[r].expire
      BY <1>4, <1>5 DEF Sound
    <2> QED BY <2>1, <1>2, <1>3, <1>5, <1>n
  <1>7. \A q, r \in Live(sub') : q = r \/ Follows(sub', q, r) \/ Follows(sub', r, q)
    <2> SUFFICES ASSUME NEW q \in Live(sub'), NEW r \in Live(sub'), q # r
                 PROVE  Follows(sub', q, r) \/ Follows(sub', r, q)
      OBVIOUS
    <2>1. Follows(t, q, r) \/ Follows(t, r, q)
      BY <1>4, <1>5 DEF Sound
    <2>2. CASE q = c
      BY <2>1, <2>2, <1>2, <1>3, <1>5, <1>n DEF Follows
    <2>3. CASE r = c
      BY <2>1, <2>3, <1>2, <1>3, <1>5, <1>n DEF Follows
    <2>4. CASE q # c /\ r # c
      BY <2>1, <2>4, <1>2, <1>3, <1>5, <1>n DEF Follows
    <2> QED BY <2>2, <2>3, <2>4
  <1>8. /\ bought' \in [Row -> Nat]
        /\ bought'[c] = bought[c] + d
        /\ \A r \in Row \ {c} : bought'[r] = bought[r]
    <2>1. bought[c] + d \in Nat
      BY <1>2 DEF IInv, TypeOK
    <2> QED BY <2>1, <1>3, Sold
  <1>9. Paid(sub)'
    <2> SUFFICES ASSUME NEW r \in Live(sub') PROVE Length(sub', r) = bought'[r]
      BY DEF Paid
    <2>1. Length(t, r) = bought[r]
      BY <1>4, <1>5 DEF Paid
    <2>2. CASE r = c
      BY <2>1, <2>2, <1>2, <1>3, <1>5, <1>8, <1>n DEF Length
    <2>3. CASE r # c
      BY <2>1, <2>3, <1>2, <1>3, <1>5, <1>8, <1>n DEF Length
    <2> QED BY <2>2, <2>3
  <1> QED BY <1>3, <1>6, <1>7, <1>8, <1>9 DEF IInv, TypeOK, Sound, Renew

\* Of two queued rows, the one that starts first comes first in the SELECT.
LEMMA QueueOrder ==
    ASSUME NEW t, t \in [Row -> SubRow], QueueSound(t),
           NEW q \in Scheduled(t), NEW r \in Scheduled(t), q # r
    PROVE  /\ t[q].start # t[r].start
           /\ t[q].start < t[r].start <=> q \in Before(t, r)
  <1>1. q \in Row /\ r \in Row
    BY DEF Scheduled, With
  <1>2. /\ t[q].start < t[q].expire /\ t[r].start < t[r].expire
        /\ t[q].expire <= t[r].start \/ t[r].expire <= t[q].start
    BY DEF QueueSound, Follows
  <1>3. t[q].start # t[r].start
    BY <1>1, <1>2, Instants
  <1> QED BY <1>3 DEF Before, Earlier

\* A set of instants that is not empty has a least element.
LEMMA LeastNumber ==
    ASSUME NEW T \in SUBSET Nat, T # {}
    PROVE  \E n \in T : \A m \in T : n <= m
  <1>1. PICK n \in T : \A m \in T : ~ (<<m, n>> \in OpToRel(<, Nat))
    BY NatLessThanWellFounded, WFMin
  <1>2. \A m \in T : ~(m < n)
    BY <1>1 DEF OpToRel
  <1> QED BY <1>2

\* Rebased rows follow one another.  A queued row that violated this would have a
\* predecessor that ends later than it does, and the first such row has none.
LEMMA RebasedInOrder ==
    ASSUME NEW t, t \in [Row -> SubRow], QueueSound(t), NEW end \in Time,
           NEW from \in [Scheduled(t) -> end..Horizon], Chain(t, from, end),
           NEW q \in Scheduled(t), NEW r \in Scheduled(t), t[q].start < t[r].start
    PROVE  from[q] + Length(t, q) <= from[r]
  <1> DEFINE Late(x) == \E y \in Scheduled(t) :
                           t[y].start < t[x].start /\ ~(from[y] + Length(t, y) <= from[x])
             T == {t[x].start : x \in {z \in Scheduled(t) : Late(z)}}
  <1>1. /\ \A x \in Scheduled(t) : x \in Row
        /\ Horizon \in Int
    BY HorizonAssumption DEF Scheduled, With
  <1>2. \A x \in Scheduled(t) : /\ t[x].start \in Int /\ 0 <= t[x].start
                                /\ Length(t, x) \in Int /\ 0 <= Length(t, x)
                                /\ from[x] \in Int
    <2> SUFFICES ASSUME NEW x \in Scheduled(t)
                 PROVE  /\ t[x].start \in Int /\ 0 <= t[x].start
                        /\ Length(t, x) \in Int /\ 0 <= Length(t, x)
                        /\ from[x] \in Int
      OBVIOUS
    <2>1. t[x].start \in Int /\ 0 <= t[x].start /\ t[x].expire \in Int
      BY <1>1, Instants
    <2>2. t[x].start < t[x].expire
      BY DEF QueueSound
    <2>3. end \in Int
      BY <1>1 DEF Time
    <2>4. from[x] \in end..Horizon
      OBVIOUS
    <2> QED BY <2>1, <2>2, <2>3, <2>4, <1>1 DEF Length
  <1>3. SUFFICES ASSUME Late(r) PROVE FALSE
    OBVIOUS
  <1>4. T \in SUBSET Nat /\ T # {}
    BY <1>2, <1>3
  <1>5. PICK n \in T : \A m \in T : n <= m
    BY <1>4, LeastNumber
  <1>6. PICK x \in Scheduled(t) : Late(x) /\ t[x].start = n
    BY <1>5
  <1>7. PICK y \in Scheduled(t) :
           t[y].start < t[x].start /\ ~(from[y] + Length(t, y) <= from[x])
    BY <1>6
  <1>8. y \in Before(t, x)
    BY <1>2, <1>7, QueueOrder
  <1>9. PICK p \in Before(t, x) :
          /\ \A o \in Before(t, x) : o = p \/ Earlier(t, o, p)
          /\ from[x] = from[p] + Length(t, p)
    BY <1>8 DEF Chain
  <1>10. p \in Scheduled(t)
    BY <1>9 DEF Before
  <1>11. y # p
    BY <1>2, <1>7, <1>9, <1>10
  <1>12. t[y].start < t[p].start
    <2>1. Earlier(t, y, p) /\ y \in Scheduled(t)
      BY <1>7, <1>8, <1>9, <1>11
    <2>2. y \in Before(t, p)
      BY <2>1 DEF Before
    <2> QED BY <2>2, <1>10, <1>11, QueueOrder
  <1>13. t[p].start < t[x].start
    <2>1. p # x
      <3>1. Earlier(t, p, x)
        BY <1>9 DEF Before
      <3>2. t[p].start \in Int
        BY <1>2, <1>10
      <3>3. p \in Nat
        BY <1>1, <1>10, RowAssumption
      <3> QED BY <3>1, <3>2, <3>3 DEF Earlier
    <2>2. p \in Before(t, x)
      BY <1>9
    <2> QED BY <2>1, <2>2, <1>10, QueueOrder
  <1>14. ~Late(p)
    <2> SUFFICES ASSUME Late(p) PROVE FALSE
      OBVIOUS
    <2>1. t[p].start \in T
      BY <1>10
    <2>2. n <= t[p].start
      BY <2>1, <1>5
    <2>3. t[p].start < n /\ n \in Int /\ t[p].start \in Int
      BY <1>2, <1>6, <1>10, <1>13
    <2> QED BY <2>2, <2>3
  <1>15. from[y] + Length(t, y) <= from[p]
    BY <1>12, <1>14
  <1> QED BY <1>2, <1>7, <1>9, <1>10, <1>15

\* The table in the middle of switch_now: the old row is replaced, the new one is
\* active, and the rest of the queue is behind the old one.
LEMMA SwitchedTable ==
    ASSUME IInv, NEW p \in Plan, NEW d \in Nat, d > 0, now + d <= Horizon,
           NEW t, t = Normalize(sub, now), NEW c \in Row, NEW r \in Row,
           IsCurrent(t, c, now), IsNew(t, r), NEW s, s = Switched(t, c, r, p, d)
    PROVE  /\ s \in [Row -> SubRow]
           /\ s[r] = NewRow("active", p, now, d)
           /\ Live(s) = Scheduled(s) \cup {r}
           /\ r \notin Scheduled(s)
           /\ \A q \in Scheduled(s) : q \in Scheduled(t) /\ s[q] = t[q]
           /\ QueueSound(s)
           /\ \A q \in Scheduled(s) : Length(s, q) = bought[q]
           /\ \A q \in Row : s[q].status = "expired" => s[q] = t[q]
  <1>1. Table(t) /\ With(t, "active") = Candidates(t, now)
    BY Prepared
  <1>2. t \in [Row -> SubRow]
    BY <1>1 DEF Table
  <1>3. c \in With(t, "active") /\ t[c].status = "active" /\ t[r].status = "absent" /\ c # r
    BY <1>1 DEF IsCurrent, IsNew, With
  <1>4. now \in Time /\ now \in Int /\ Horizon \in Int
    BY HorizonAssumption DEF IInv, TypeOK, Time
  <1>5. NewRow("active", p, now, d) \in SubRow
    BY <1>4 DEF NewRow, SubRow, Status, Time
  <1>6. /\ s = [q \in Row |-> IF q = r THEN NewRow("active", p, now, d)
                            ELSE IF q = c THEN Grown(Marked(t[c], "replaced"), now)
                            ELSE t[q]]
    BY <1>2, <1>3 DEF Switched, Grown, Marked
  <1>7. /\ Grown(Marked(t[c], "replaced"), now) \in SubRow
        /\ Grown(Marked(t[c], "replaced"), now).status = "replaced"
    BY <1>2, <1>4, MarkedRow, GrownRow DEF Status
  <1>8. \A q \in Row : s[q] \in SubRow
    BY <1>2, <1>5, <1>6, <1>7
  <1>9. s \in [Row -> SubRow]
    BY <1>6, <1>8
  <1>10. s[r] = NewRow("active", p, now, d) /\ s[r].status = "active"
    BY <1>6 DEF NewRow
  <1>11. s[c].status = "replaced"
    BY <1>3, <1>6, <1>7
  <1>12. \A q \in Row : q # r /\ q # c => s[q] = t[q]
    BY <1>6
  <1>13. \A q \in With(s, "active") : q = r
    <2> SUFFICES ASSUME NEW q \in With(s, "active"), q # r PROVE FALSE
      OBVIOUS
    <2>1. q \in Row /\ q # c /\ s[q] = t[q] /\ t[q].status = "active"
      BY <1>11, <1>12 DEF With
    <2> QED BY <2>1, <1>1, <1>3, OneActive DEF With
  <1>14. \A q \in Scheduled(s) : q \in Row /\ q # r /\ q # c /\ s[q] = t[q]
    BY <1>10, <1>11, <1>12 DEF Scheduled, With
  <1>15. \A q \in Scheduled(s) : q \in Scheduled(t)
    BY <1>14 DEF Scheduled, With
  <1>16. r \in With(s, "active")
    BY <1>10 DEF With
  <1>17. Live(s) = Scheduled(s) \cup {r}
    BY <1>13, <1>16 DEF Live
  <1>18. QueueSound(s)
    BY <1>1, <1>14, <1>15 DEF Table, Sound, Live, QueueSound, Follows
  <1>19. \A q \in Scheduled(s) : Length(s, q) = bought[q]
    BY <1>1, <1>14, <1>15 DEF Table, Paid, Live, Length
  <1>20. \A q \in Row : s[q].status = "expired" => s[q] = t[q]
    BY <1>10, <1>11, <1>12
  <1> QED BY <1>9, <1>10, <1>14, <1>15, <1>17, <1>18, <1>19, <1>20

\* What switch_now leaves, whether it cancels or rebases the queue: the new row is
\* active, and what is still live is behind it, each row where another one ends.
LEMMA SwitchedTo ==
    ASSUME IInv, NEW p \in Plan, NEW extra \in ExtraDays, SwitchNow(p, extra),
           NEW d, d = Days(p, extra)
    PROVE  \E r \in Row :
             /\ sub' \in [Row -> SubRow]
             /\ now + d <= Horizon
             /\ sub'[r].status = "active" /\ sub'[r].start = now /\ sub'[r].expire = now + d
             /\ \A q \in Live(sub') \ {r} : /\ sub'[q].status = "scheduled"
                                            /\ sub'[q].start < sub'[q].expire
                                            /\ now + d <= sub'[q].start
                                            /\ Length(sub', q) = bought[q]
             /\ \A o, q \in Live(sub') \ {r} :
                   o = q \/ sub'[o].expire <= sub'[q].start \/ sub'[q].expire <= sub'[o].start
             /\ \A q \in Live(sub') \ {r} : \E o \in Live(sub') : sub'[o].expire = sub'[q].start
             /\ Sell(r, d)
  <1> DEFINE t == Normalize(sub, now)
             end == now + d
  <1>1. d \in Nat /\ d > 0
    BY DaysPositive
  <1>2. PICK c \in Row, r \in Row :
          /\ IsCurrent(t, c, now) /\ IsNew(t, r) /\ now + d <= Horizon
          /\ CancelQueue(Switched(t, c, r, p, d)) \/ RebaseQueue(Switched(t, c, r, p, d), end)
          /\ Sell(r, d)
    BY DEF SwitchNow
  <1> DEFINE s == Switched(t, c, r, p, d)
  <1>3. /\ s \in [Row -> SubRow]
        /\ s[r] = NewRow("active", p, now, d)
        /\ Live(s) = Scheduled(s) \cup {r}
        /\ r \notin Scheduled(s)
        /\ QueueSound(s)
        /\ \A q \in Scheduled(s) : Length(s, q) = bought[q]
    BY <1>1, <1>2, SwitchedTable
  <1>4. CancelQueue(s) \/ RebaseQueue(s, end)
    BY <1>2
  <1> HIDE DEF s, t
  <1>5. now \in Int /\ 0 <= now /\ Horizon \in Int /\ end \in Time /\ end \in Int
    BY <1>1, <1>2, HorizonAssumption DEF IInv, TypeOK, Time
  <1>6. s[r].status = "active" /\ s[r].start = now /\ s[r].expire = end
    BY <1>3 DEF NewRow
  <1> HIDE DEF end
  <1>8. \A q \in Scheduled(s) : q \in Row /\ q # r /\ s[q].status = "scheduled"
    BY <1>3 DEF Scheduled, With
  <1>9. /\ sub' \in [Row -> SubRow]
        /\ sub'[r] = s[r]
        /\ Live(sub') \subseteq Scheduled(s) \cup {r}
        /\ \A q \in Live(sub') \ {r} : /\ sub'[q].status = "scheduled"
                                       /\ sub'[q].start < sub'[q].expire
                                       /\ end <= sub'[q].start
                                       /\ Length(sub', q) = bought[q]
        /\ \A o, q \in Live(sub') \ {r} :
              o = q \/ sub'[o].expire <= sub'[q].start \/ sub'[q].expire <= sub'[o].start
        /\ \A q \in Live(sub') \ {r} : \E o \in Live(sub') : sub'[o].expire = sub'[q].start
    <2>1. CASE CancelQueue(s)
      <3>1. \A q \in Scheduled(s) : /\ sub'[q] = Marked(s[q], "cancelled")
                                    /\ s[q] \in SubRow
        BY <2>1, <1>3, <1>8 DEF CancelQueue, Marked
      <3>2. \A q \in Row : q \notin Scheduled(s) => sub'[q] = s[q] /\ sub'[q] \in SubRow
        BY <2>1, <1>3 DEF CancelQueue
      <3>3. \A q \in Scheduled(s) : sub'[q] \in SubRow /\ sub'[q].status = "cancelled"
        BY <3>1, MarkedRow DEF Status
      <3>4. sub' \in [Row -> SubRow]
        <4>1. \A q \in Row : sub'[q] \in SubRow
          BY <3>2, <3>3
        <4> QED BY <4>1, <2>1 DEF CancelQueue
      <3>5. Live(sub') \subseteq {r}
        <4> SUFFICES ASSUME NEW q \in Live(sub'), q # r PROVE FALSE
          OBVIOUS
        <4>1. q \in Row /\ sub'[q].status \in {"active", "scheduled"}
          BY LiveIsRow, LiveRows
        <4>2. q \notin Scheduled(s)
          BY <4>1, <3>3
        <4>3. q \in Live(s)
          BY <4>1, <4>2, <3>2, LiveRows
        <4> QED BY <4>2, <4>3, <1>3
      <3> QED BY <3>2, <3>4, <3>5, <1>3
    <2>2. CASE RebaseQueue(s, end)
      <3>1. PICK from \in [Scheduled(s) -> end..Horizon] :
              /\ Chain(s, from, end)
              /\ \A q \in Scheduled(s) : from[q] + Length(s, q) <= Horizon
              /\ sub' = [q \in Row |->
                   IF q \in Scheduled(s)
                   THEN [s[q] EXCEPT !.start = from[q], !.expire = from[q] + Length(s, q)]
                   ELSE s[q]]
        BY <2>2 DEF RebaseQueue
      <3>2. \A q \in Scheduled(s) :
               sub'[q] = Moved(s[q], from[q], from[q] + Length(s, q))
        BY <3>1, <1>8 DEF Moved
      <3>3. \A q \in Scheduled(s) : from[q] + Length(s, q) <= Horizon
        BY <3>1
      <3>4. ASSUME NEW q \in Scheduled(s)
            PROVE  /\ from[q] \in Int /\ end <= from[q]
                   /\ Length(s, q) \in Int /\ 0 < Length(s, q)
                   /\ from[q] \in Time /\ from[q] + Length(s, q) \in Time
                   /\ s[q] \in SubRow
        <4>1. /\ s[q].start \in Int /\ s[q].expire \in Int
              /\ s[q].start < s[q].expire /\ s[q] \in SubRow
          BY <1>3, <1>8, Instants DEF QueueSound
        <4>2. from[q] \in end..Horizon
          OBVIOUS
        <4> QED BY <4>1, <4>2, <3>3, <1>5 DEF Length, Time
      <3>5. \A q \in Scheduled(s) : /\ sub'[q] \in SubRow
                                    /\ sub'[q].status = "scheduled"
                                    /\ sub'[q].start = from[q]
                                    /\ sub'[q].expire = from[q] + Length(s, q)
        BY <3>2, <3>4, <1>8, MovedRow
      <3>6. \A q \in Row : q \notin Scheduled(s) => sub'[q] = s[q] /\ sub'[q] \in SubRow
        BY <3>1, <1>3
      <3>7. sub' \in [Row -> SubRow]
        <4>1. \A q \in Row : sub'[q] \in SubRow
          BY <3>5, <3>6
        <4> QED BY <4>1, <3>1
      <3>8. Live(sub') \subseteq Scheduled(s) \cup {r}
        <4> SUFFICES ASSUME NEW q \in Live(sub'), q \notin Scheduled(s) PROVE q = r
          OBVIOUS
        <4>1. q \in Row /\ sub'[q].status \in {"active", "scheduled"}
          BY LiveIsRow, LiveRows
        <4>2. q \in Live(s)
          BY <4>1, <3>6, LiveRows
        <4> QED BY <4>2, <1>3
      <3>9. ASSUME NEW q \in Scheduled(s)
            PROVE  /\ sub'[q].start < sub'[q].expire
                   /\ end <= sub'[q].start
                   /\ Length(sub', q) = bought[q]
        BY <3>4, <3>5, <1>3 DEF Length
      <3>10. ASSUME NEW o \in Scheduled(s), NEW q \in Scheduled(s), o # q
             PROVE  \/ sub'[o].expire <= sub'[q].start
                    \/ sub'[q].expire <= sub'[o].start
        <4>1. s[o].start \in Int /\ s[q].start \in Int /\ s[o].start # s[q].start
          BY <3>10, <1>3, <1>8, Instants, QueueOrder
        <4>c. Chain(s, from, end)
          BY <3>1
        <4>2. CASE s[o].start < s[q].start
          BY <4>2, <4>c, <1>3, <1>5, <3>5, RebasedInOrder
        <4>3. CASE s[q].start < s[o].start
          BY <4>3, <4>c, <1>3, <1>5, <3>5, RebasedInOrder
        <4> QED BY <4>1, <4>2, <4>3
      \* The predecessor in the chain, or the new row for the first of the queue.
      <3>11. ASSUME NEW q \in Scheduled(s)
             PROVE  \E o \in Live(sub') : sub'[o].expire = sub'[q].start
        <4>1. Scheduled(s) \cup {r} \subseteq Live(sub')
          BY <3>5, <3>6, <1>3, <1>6, <1>8, LiveRows
        <4>2. CASE from[q] = end
          BY <4>1, <4>2, <3>5, <3>6, <1>3, <1>6
        <4>3. CASE \E o \in Before(s, q) : from[q] = from[o] + Length(s, o)
          BY <4>1, <4>3, <3>5 DEF Before
        <4> QED BY <4>2, <4>3, <3>1 DEF Chain
      <3> QED BY <3>5, <3>6, <3>7, <3>8, <3>9, <3>10, <3>11, <1>3
    <2> QED BY <2>1, <2>2, <1>4
  <1> QED BY <1>2, <1>6, <1>9 DEF end

\* switch_now keeps the invariant, whether it cancels or rebases the queue.
LEMMA SwitchNowStep ==
    ASSUME IInv, NEW p \in Plan, NEW extra \in ExtraDays, SwitchNow(p, extra)
    PROVE  IInv'
  <1> DEFINE d == Days(p, extra)
  <1>1. d \in Nat /\ d > 0
    BY DaysPositive
  <1>2. PICK r \in Row :
             /\ sub' \in [Row -> SubRow]
             /\ now + d <= Horizon
             /\ sub'[r].status = "active" /\ sub'[r].start = now /\ sub'[r].expire = now + d
             /\ \A q \in Live(sub') \ {r} : /\ sub'[q].status = "scheduled"
                                            /\ sub'[q].start < sub'[q].expire
                                            /\ now + d <= sub'[q].start
                                            /\ Length(sub', q) = bought[q]
             /\ \A o, q \in Live(sub') \ {r} :
                   o = q \/ sub'[o].expire <= sub'[q].start \/ sub'[q].expire <= sub'[o].start
             /\ Sell(r, d)
    BY SwitchedTo
  <1> HIDE DEF d
  <1>3. now \in Int /\ now < now + d
    BY <1>1, HorizonAssumption DEF IInv, TypeOK, Time
  <1>4. /\ bought' \in [Row -> Nat]
        /\ bought'[r] = d
        /\ \A q \in Row \ {r} : bought'[q] = bought[q]
    BY <1>1, <1>2, Sold
  <1>5. Sound(sub')
    <2>1. \A q \in Live(sub') : sub'[q].start < sub'[q].expire
      BY <1>2, <1>3
    <2>2. ASSUME NEW o \in Live(sub'), NEW q \in Live(sub'), o # q
          PROVE  Follows(sub', o, q) \/ Follows(sub', q, o)
      <3>1. CASE o = r
        BY <3>1, <2>2, <1>2 DEF Follows
      <3>2. CASE q = r
        BY <3>2, <2>2, <1>2 DEF Follows
      <3>3. CASE o # r /\ q # r
        BY <3>3, <2>2, <1>2 DEF Follows
      <3> QED BY <3>1, <3>2, <3>3
    <2> QED BY <2>1, <2>2 DEF Sound
  <1>6. Paid(sub)'
    <2>1. Length(sub', r) = d
      BY <1>1, <1>2, <1>3 DEF Length
    <2>2. \A q \in Live(sub') : Length(sub', q) = bought'[q]
      BY <2>1, <1>2, <1>4, LiveIsRow
    <2> QED BY <2>2 DEF Paid
  <1> QED BY <1>2, <1>4, <1>5, <1>6 DEF IInv, TypeOK, SwitchNow

\* What switch_scheduled leaves: one more queued row, which starts at the instant from
\* at which the last of the live rows ends.
LEMMA QueuedBehind ==
    ASSUME IInv, NEW p \in Plan, NEW extra \in ExtraDays, SwitchScheduled(p, extra),
           NEW t, t = Normalize(sub, now), NEW d, d = Days(p, extra)
    PROVE  \E r \in Row, from \in Time :
             /\ sub' \in [Row -> SubRow]
             /\ t[r].status = "absent"
             /\ sub'[r].status = "scheduled" /\ sub'[r].start = from /\ sub'[r].expire = from + d
             /\ \A q \in Row \ {r} : sub'[q] = t[q]
             /\ now <= from
             /\ \A q \in Live(t) : t[q].expire <= from
             /\ \E q \in Live(t) : t[q].expire = from
             /\ Sell(r, d)
  <1> DEFINE current == {c \in Row : IsCurrent(t, c, now)}
             ends == {now} \cup {t[r].expire : r \in current \cup Scheduled(t)}
  <1>1. /\ Table(t) /\ With(t, "active") = Candidates(t, now)
        /\ \A r \in Live(t) : now <= t[r].expire
    BY Prepared
  <1>2. d \in Nat /\ d > 0
    BY DaysPositive
  <1>3. PICK from \in ends, r \in Row :
          /\ \A e \in ends : e <= from
          /\ IsNew(t, r)
          /\ from + d <= Horizon
          /\ sub' = [t EXCEPT ![r] = NewRow("scheduled", p, from, d)]
          /\ Sell(r, d)
    BY DEF SwitchScheduled
  <1>4. t \in [Row -> SubRow]
    BY <1>1 DEF Table
  \* There is one candidate at most, so the active row, if any, is the current one.
  <1>5. With(t, "active") = current
    <2>1. ASSUME NEW c \in With(t, "active") PROVE c \in current
      <3>1. \A q \in Candidates(t, now) : q = c
        BY <1>1, OneActive
      <3> QED BY <3>1, <1>1 DEF IsCurrent, With
    <2> QED BY <2>1, <1>1 DEF IsCurrent
  <1>6. current \cup Scheduled(t) = Live(t)
    BY <1>5 DEF Live
  <1>7. \A q \in Live(t) : t[q].expire <= from
    BY <1>3, <1>6
  <1>8. from \in Time /\ from \in Int /\ now \in Int /\ Horizon \in Int
    <2>1. now \in Time
      BY DEF IInv, TypeOK
    <2>2. \A q \in Live(t) : t[q].expire \in Time
      BY <1>4, Instants, LiveIsRow DEF Time
    <2> QED BY <2>1, <2>2, <1>6, HorizonAssumption DEF Time
  <1>9. \E q \in Live(t) : t[q].expire = from
    <2>1. CASE from = now
      <3>1. PICK q \in Live(t) : TRUE
        BY <1>6 DEF SwitchScheduled
      <3>2. t[q].expire \in Int
        BY <1>4, Instants, LiveIsRow
      <3> QED BY <2>1, <3>1, <3>2, <1>1, <1>7, <1>8
    <2>2. CASE from # now
      BY <2>2, <1>6
    <2> QED BY <2>1, <2>2
  <1>10. /\ t[r].status = "absent" /\ from + d <= Horizon /\ now <= from
         /\ sub' = [t EXCEPT ![r] = NewRow("scheduled", p, from, d)]
         /\ Sell(r, d)
    BY <1>3 DEF IsNew
  <1> HIDE DEF ends, current
  <1>11. NewRow("scheduled", p, from, d) \in SubRow
    BY <1>2, <1>8, <1>10 DEF NewRow, SubRow, Status, Time
  <1>12. /\ sub' \in [Row -> SubRow]
         /\ sub'[r].status = "scheduled" /\ sub'[r].start = from /\ sub'[r].expire = from + d
         /\ \A q \in Row \ {r} : sub'[q] = t[q]
    BY <1>4, <1>10, <1>11 DEF NewRow
  <1> QED BY <1>7, <1>8, <1>9, <1>10, <1>12

\* A table that gains one queued row behind every live row stays sound.
LEMMA SwitchScheduledStep ==
    ASSUME IInv, NEW p \in Plan, NEW extra \in ExtraDays, SwitchScheduled(p, extra)
    PROVE  IInv'
  <1> DEFINE t == Normalize(sub, now)
             d == Days(p, extra)
  <1>1. Table(t)
    BY Prepared
  <1>2. d \in Nat /\ d > 0
    BY DaysPositive
  <1>3. PICK r \in Row, from \in Time :
             /\ sub' \in [Row -> SubRow]
             /\ sub'[r].status = "scheduled" /\ sub'[r].start = from /\ sub'[r].expire = from + d
             /\ \A q \in Row \ {r} : sub'[q] = t[q]
             /\ \A q \in Live(t) : t[q].expire <= from
             /\ Sell(r, d)
    BY QueuedBehind
  <1> HIDE DEF t, d
  <1>4. t \in [Row -> SubRow] /\ Sound(t) /\ Paid(t)
    BY <1>1 DEF Table
  <1>5. from \in Int
    BY HorizonAssumption DEF Time
  <1>6. \A q \in Live(sub') : q \in Row /\ (q # r => q \in Live(t) /\ sub'[q] = t[q])
    BY <1>3, LiveRows, LiveIsRow
  <1>7. \A q \in Live(sub') : sub'[q].start < sub'[q].expire
    BY <1>2, <1>3, <1>4, <1>5, <1>6 DEF Sound
  <1>8. \A o, q \in Live(sub') : o = q \/ Follows(sub', o, q) \/ Follows(sub', q, o)
    <2> SUFFICES ASSUME NEW o \in Live(sub'), NEW q \in Live(sub'), o # q
                 PROVE  Follows(sub', o, q) \/ Follows(sub', q, o)
      OBVIOUS
    <2>1. CASE o = r \/ q = r
      BY <2>1, <1>3, <1>6 DEF Follows
    <2>2. CASE o # r /\ q # r
      BY <2>2, <1>4, <1>6 DEF Follows, Sound
    <2> QED BY <2>1, <2>2
  <1>9. /\ bought' \in [Row -> Nat]
        /\ bought'[r] = d
        /\ \A q \in Row \ {r} : bought'[q] = bought[q]
    BY <1>2, <1>3, Sold
  <1>10. Paid(sub)'
    <2>1. Length(sub', r) = d
      BY <1>2, <1>3, <1>5 DEF Length
    <2>2. \A q \in Live(sub') : q # r => Length(sub', q) = bought'[q]
      BY <1>4, <1>6, <1>9 DEF Paid, Length
    <2> QED BY <2>1, <2>2, <1>9 DEF Paid
  <1> QED BY <1>3, <1>7, <1>8, <1>9, <1>10 DEF IInv, TypeOK, Sound, SwitchScheduled

\* A table whose live rows are live rows of a sound one, unchanged, is sound.
LEMMA FewerLive ==
    ASSUME NEW t, Sound(t), Paid(t), NEW s,
           \A q \in Live(s) : q \in Live(t) /\ s[q] = t[q]
    PROVE  Sound(s) /\ \A q \in Live(s) : Length(s, q) = bought[q]
  <1>1. \A q \in Live(s) : s[q].start < s[q].expire
    BY DEF Sound
  <1>2. \A o, q \in Live(s) : o = q \/ Follows(s, o, q) \/ Follows(s, q, o)
    <2>1. \A o, q \in Live(s) : o = q \/ Follows(t, o, q) \/ Follows(t, q, o)
      BY DEF Sound
    <2> QED BY <2>1 DEF Follows
  <1>3. \A q \in Live(s) : Length(s, q) = bought[q]
    BY DEF Paid, Length
  <1> QED BY <1>1, <1>2, <1>3 DEF Sound

\* Cancelling a queued row leaves the other live rows as they are.
LEMMA CancelScheduledStep ==
    ASSUME IInv, NEW r \in Row, CancelScheduled(r)
    PROVE  IInv'
  <1>1. /\ sub \in [Row -> SubRow] /\ Sound(sub) /\ Paid(sub)
        /\ sub' = [sub EXCEPT ![r] = Marked(sub[r], "cancelled")]
        /\ UNCHANGED <<now, reader, bought, demoted>> /\ revoked' \subseteq Row
    BY DEF IInv, TypeOK, CancelScheduled, Marked
  <1>2. Marked(sub[r], "cancelled") \in SubRow /\ Marked(sub[r], "cancelled").status = "cancelled"
    BY <1>1, MarkedRow DEF Status
  <1>3. /\ sub' \in [Row -> SubRow]
        /\ sub'[r].status = "cancelled"
        /\ \A q \in Row \ {r} : sub'[q] = sub[q]
    BY <1>1, <1>2
  <1>4. \A q \in Live(sub') : q \in Live(sub) /\ sub'[q] = sub[q]
    <2> SUFFICES ASSUME NEW q \in Live(sub') PROVE q \in Live(sub) /\ sub'[q] = sub[q]
      OBVIOUS
    <2>1. q \in Row /\ sub'[q].status \in {"active", "scheduled"}
      BY LiveIsRow, LiveRows
    <2>2. q # r
      BY <2>1, <1>3
    <2> QED BY <2>1, <2>2, <1>3, LiveRows
  <1>5. Sound(sub') /\ \A q \in Live(sub') : Length(sub', q) = bought[q]
    <2>1. Sound(sub) /\ Paid(sub)
      BY <1>1
    <2> QED BY <2>1, <1>4, FewerLive, Zenon
  <1>6. Paid(sub)'
    BY <1>1, <1>5 DEF Paid
  <1> QED BY <1>1, <1>3, <1>5, <1>6 DEF IInv, TypeOK

\* The rows of the refresh's first statement.
LEMMA ExpiredTable ==
    ASSUME IInv, NEW at \in Time, NEW t, t = Expire(sub, at)
    PROVE  /\ Table(t)
           /\ \A r \in Live(t) : at <= t[r].expire
  <1>1. sub \in [Row -> SubRow] /\ Sound(sub) /\ Paid(sub)
    BY DEF IInv, TypeOK
  <1>2. t \in [Row -> SubRow]
    <2>1. \A r \in Row : Expired(sub[r], at) \in SubRow
      BY <1>1, OneRow
    <2> QED BY <2>1 DEF Expire
  <1>3. Sound(t)
    BY <1>1, ExpireSound
  <1>4. \A r \in Live(t) : r \in Live(sub) /\ t[r] = sub[r] /\ at <= t[r].expire
    BY <1>1, ExpiredRow, LiveIsRow
  <1>5. Paid(t)
    BY <1>1, <1>4 DEF Paid, Length
  <1> QED BY <1>2, <1>3, <1>4, <1>5 DEF Table

\* Promoting the earliest due row: no other row can be active, because one that ended
\* at this very second would still be a candidate, and the rest of the queue is
\* behind the promoted row, because a row that precedes it would be due before it.
LEMMA PromotedSound ==
    ASSUME NEW t, Table(t), NEW at \in Time,
           \A r \in Live(t) : at <= t[r].expire,
           Candidates(t, at) = {}, NEW d \in Due(t, at),
           \A q \in Due(t, at) : q = d \/ Earlier(t, d, q),
           NEW s, s = [t EXCEPT ![d] = Marked(t[d], "active")]
    PROVE  s \in [Row -> SubRow] /\ Sound(s) /\ \A q \in Live(s) : Length(s, q) = bought[q]
  <1>1. t \in [Row -> SubRow] /\ Sound(t) /\ Paid(t)
    BY DEF Table
  <1>2. /\ d \in Row /\ d \in Live(t) /\ t[d].status = "scheduled"
        /\ t[d].start <= at /\ at <= t[d].expire
    BY DEF Due, Covers, Live, Scheduled, With
  <1>3. /\ Marked(t[d], "active") \in SubRow
        /\ Marked(t[d], "active").status = "active"
        /\ Marked(t[d], "active").start = t[d].start
        /\ Marked(t[d], "active").expire = t[d].expire
    BY <1>1, <1>2, MarkedRow DEF Status
  <1>4. /\ s \in [Row -> SubRow]
        /\ s[d].status = "active" /\ s[d].start = t[d].start /\ s[d].expire = t[d].expire
        /\ \A q \in Row \ {d} : s[q] = t[q]
    BY <1>1, <1>2, <1>3
  <1>5. \A q \in Live(s) : q \in Live(t) /\ q \in Row /\ (q # d => s[q] = t[q])
    BY <1>2, <1>4, LiveRows, LiveIsRow
  <1>6. at \in Int /\ Horizon \in Int
    BY HorizonAssumption DEF Time
  <1>7. ASSUME NEW q \in Live(t), q # d
        PROVE  Follows(t, d, q)
    <2>1. q \in Row
      BY LiveIsRow
    <2>2. /\ t[q].start < t[q].expire /\ at <= t[q].expire
          /\ t[q].start \in Int /\ t[q].expire \in Int
          /\ t[d].start \in Int /\ t[d].expire \in Int
      BY <1>1, <1>2, <2>1, Instants DEF Sound
    <2>3. SUFFICES ASSUME Follows(t, q, d) PROVE FALSE
      BY <1>1, <1>2, <1>7 DEF Sound
    <2>4. t[q].expire <= t[d].start
      BY <2>3 DEF Follows
    <2>5. t[q].start < t[d].start /\ t[q].start <= at /\ at <= t[q].expire
      BY <2>2, <2>4, <1>2, <1>6
    <2>6. CASE q \in With(t, "active")
      BY <2>5, <2>6 DEF Candidates, Covers
    <2>7. CASE q \in Scheduled(t)
      <3>1. q \in Due(t, at)
        BY <2>5, <2>7 DEF Due, Covers
      <3>2. Earlier(t, d, q)
        BY <3>1, <1>7
      <3> QED BY <3>2, <2>2, <2>5 DEF Earlier
    <2> QED BY <2>6, <2>7 DEF Live
  <1>8. \A q \in Live(s) : s[q].start < s[q].expire
    BY <1>1, <1>4, <1>5 DEF Sound
  <1>9. \A o, q \in Live(s) : o = q \/ Follows(s, o, q) \/ Follows(s, q, o)
    <2> SUFFICES ASSUME NEW o \in Live(s), NEW q \in Live(s), o # q
                 PROVE  Follows(s, o, q) \/ Follows(s, q, o)
      OBVIOUS
    <2>1. CASE o = d
      BY <2>1, <1>4, <1>5, <1>7 DEF Follows
    <2>2. CASE q = d
      BY <2>2, <1>4, <1>5, <1>7 DEF Follows
    <2>3. CASE o # d /\ q # d
      BY <2>3, <1>1, <1>5 DEF Sound, Follows
    <2> QED BY <2>1, <2>2, <2>3
  <1>10. \A q \in Live(s) : Length(s, q) = bought[q]
    BY <1>1, <1>4, <1>5 DEF Paid, Length
  <1> QED BY <1>4, <1>8, <1>9, <1>10 DEF Sound

\* refresh_subscription_states keeps the invariant, however old its clock value.
LEMMA RefreshStep ==
    ASSUME IInv, NEW at \in Time, RefreshRows(at), UNCHANGED <<now, bought, revoked>>,
           reader' \in Time \cup {NoReader}
    PROVE  IInv'
  <1> DEFINE t == Expire(sub, at)
  <1>1. Table(t) /\ \A r \in Live(t) : at <= t[r].expire
    BY ExpiredTable
  <1>2. demoted' \subseteq Row
    BY DEF RefreshRows, IInv, TypeOK
  <1>3. CASE sub' = t
    BY <1>1, <1>2, <1>3 DEF Table, Paid, IInv, TypeOK
  <1>4. CASE /\ Candidates(t, at) = {}
             /\ \E d \in Due(t, at) :
                  /\ \A q \in Due(t, at) : q = d \/ Earlier(t, d, q)
                  /\ sub' = [t EXCEPT ![d].status = "active"]
    <2>1. PICK d \in Due(t, at) :
                  /\ \A q \in Due(t, at) : q = d \/ Earlier(t, d, q)
                  /\ sub' = [t EXCEPT ![d] = Marked(t[d], "active")]
      BY <1>4 DEF Marked
    <2>2. \A q \in Due(t, at) : q = d \/ Earlier(t, d, q)
      BY <2>1
    <2>3. sub' = [t EXCEPT ![d] = Marked(t[d], "active")]
      BY <2>1
    <2> HIDE DEF t
    <2>4. sub' \in [Row -> SubRow] /\ Sound(sub') /\ \A q \in Live(sub') : Length(sub', q) = bought[q]
      BY <1>1, <1>4, <2>2, <2>3, PromotedSound
    <2> QED BY <1>2, <2>4 DEF IInv, TypeOK, Paid
  <1> QED BY <1>3, <1>4 DEF RefreshRows

\* The start-up migration keeps the invariant.
LEMMA MigrateStep ==
    ASSUME IInv, NEW at \in Time, Migrate(at)
    PROVE  IInv'
  <1>1. sub \in [Row -> SubRow] /\ Sound(sub) /\ Paid(sub) /\ sub' = Normalize(sub, at)
    BY DEF IInv, TypeOK, Migrate
  <1>2. sub' \in [Row -> SubRow]
    <2>1. \A r \in Row : Queued(sub[r], at) \in SubRow
      BY <1>1, OneRow
    <2>2. \A r \in Row : Expired(Queued(sub[r], at), at) \in SubRow
      BY <2>1, OneRow
    <2> QED BY <1>1, <2>2 DEF Normalize
  <1>3. Sound(sub')
    BY <1>1, NormalizeSound
  <1>4. \A r \in Live(sub') : Length(sub', r) = bought[r]
    BY <1>1, NormalizedRow, LiveIsRow DEF Paid, Length
  <1>5. demoted' \subseteq Row /\ UNCHANGED <<now, reader, bought, revoked>>
    BY DEF Migrate, IInv, TypeOK, With
  <1> QED BY <1>2, <1>3, <1>4, <1>5 DEF IInv, TypeOK, Paid

\* The clock and the SELECT of a reader do not touch the table.
LEMMA OtherSteps ==
    ASSUME IInv, ReadSelect \/ Tick \/ UNCHANGED vars
    PROVE  IInv'
  <1>1. CASE ReadSelect
    BY <1>1 DEF ReadSelect, IInv, TypeOK, Paid, Length, NoReader
  <1>2. CASE Tick
    <2>1. now' \in Time
      BY <1>2, HorizonAssumption DEF Tick, IInv, TypeOK, Time
    <2>2. UNCHANGED <<sub, reader, bought, revoked, demoted>>
      BY <1>2 DEF Tick
    <2> QED BY <2>1, <2>2 DEF IInv, TypeOK, Paid, Length
  <1>3. CASE UNCHANGED vars
    BY <1>3 DEF vars, IInv, TypeOK, Paid, Length
  <1> QED BY <1>1, <1>2, <1>3

-----------------------------------------------------------------------------
(* The theorems.                                                           *)

\* An empty table satisfies the invariant.
LEMMA Initial == Init => IInv
  <1> SUFFICES ASSUME Init PROVE IInv
    OBVIOUS
  <1>1. Absent \in SubRow /\ Absent.status = "absent"
    BY PlanAssumption, HorizonAssumption DEF Absent, SubRow, Status, Time
  <1>2. sub \in [Row -> SubRow] /\ \A r \in Row : sub[r].status = "absent"
    BY <1>1 DEF Init
  <1>3. Live(sub) = {}
    BY <1>2 DEF Live, Scheduled, With
  <1>4. now \in Time
    BY HorizonAssumption DEF Init, Time
  <1>5. reader \in Time \cup {NoReader} /\ bought \in [Row -> Nat]
        /\ revoked \subseteq Row /\ demoted \subseteq Row
    BY DEF Init
  <1> QED BY <1>2, <1>3, <1>4, <1>5 DEF IInv, TypeOK, Sound, Paid

\* No action, at whatever moment it comes, breaks the inductive invariant.
LEMMA Inductive == IInv /\ [Next]_vars => IInv'
  <1> SUFFICES ASSUME IInv, [Next]_vars PROVE IInv'
    OBVIOUS
  <1>1. ASSUME NEW p \in Plan, NEW extra \in ExtraDays, Apply(p, extra) PROVE IInv'
    BY <1>1, OpenStep, RenewStep, SwitchNowStep, SwitchScheduledStep DEF Apply
  <1>2. ASSUME NEW r \in Row, CancelScheduled(r) PROVE IInv'
    BY <1>2, CancelScheduledStep
  <1>3. ASSUME NEW at \in ClockRead, Refresh(at) \/ ReadRefresh(at) \/ Migrate(at) PROVE IInv'
    <2>1. at \in Time
      BY DEF ClockRead
    <2>2. CASE Refresh(at)
      <3>1. reader' \in Time \cup {NoReader}
        BY <2>2 DEF Refresh, IInv, TypeOK
      <3> QED BY <2>1, <2>2, <3>1, RefreshStep DEF Refresh
    <2>3. CASE ReadRefresh(at)
      <3>1. reader' \in Time \cup {NoReader}
        BY <2>1, <2>3 DEF ReadRefresh
      <3> QED BY <2>1, <2>3, <3>1, RefreshStep DEF ReadRefresh
    <2>4. CASE Migrate(at)
      BY <2>1, <2>4, MigrateStep
    <2> QED BY <1>3, <2>2, <2>3, <2>4
  <1>4. CASE ReadSelect \/ Tick \/ UNCHANGED vars
    BY <1>4, OtherSteps
  <1> QED BY <1>1, <1>2, <1>3, <1>4 DEF Next

\* The inductive invariant holds in every state of the specification.
THEOREM Invariance == Spec => []IInv
  BY Initial, Inductive, PTL DEF Spec

\* Every column keeps a value of its domain (TypeOK), shifts and rebases included.
THEOREM TypeCorrect == Spec => []TypeOK
  <1>1. IInv => TypeOK
    BY DEF IInv
  <1> QED BY <1>1, Invariance, PTL

\* Two active rows of one user never coexist (AtMostOneActive).
THEOREM OneActiveRow == Spec => []AtMostOneActive
  <1>1. IInv => AtMostOneActive
    BY DEF IInv, Sound, Follows, AtMostOneActive, Live, With
  <1> QED BY <1>1, Invariance, PTL

\* No two live periods overlap (PeriodsDisjoint).
THEOREM DisjointPeriods == Spec => []PeriodsDisjoint
  <1>1. IInv => PeriodsDisjoint
    BY DEF IInv, Sound, Follows, PeriodsDisjoint
  <1> QED BY <1>1, Invariance, PTL

\* Whatever happens to a live row, it lasts what was bought for it (PaidTimeKept).
THEOREM PaidTime == Spec => []PaidTimeKept
  <1>1. IInv => PaidTimeKept
    BY DEF IInv, Paid, PaidTimeKept
  <1> QED BY <1>1, Invariance, PTL

-----------------------------------------------------------------------------
(* A row is closed as expired only when its period is over.                *)

Over(t, at) == \A r \in Row : t[r].status = "expired" => t[r].expire < at

\* A table whose expired rows are expired rows of t, as they were.
ClosesNone(t, u) ==
    \A r \in Row : u[r].status = "expired"
        => t[r].status = "expired" /\ u[r].expire = t[r].expire

\* What the UPDATE with a clock value of the past closes is over by now.
LEMMA ClosedInTime ==
    ASSUME IInv, Over(sub, now), NEW at \in Time, at <= now
    PROVE  Over(Normalize(sub, at), now) /\ Over(Expire(sub, at), now)
  <1>1. now \in Int /\ at \in Int
    BY HorizonAssumption DEF IInv, TypeOK, Time
  <1>2. ASSUME NEW r \in Row
        PROVE  /\ sub[r] \in SubRow /\ sub[r].expire \in Int
               /\ sub[r].status = "expired" => sub[r].expire < now
    BY HorizonAssumption DEF IInv, TypeOK, SubRow, Time, Over
  <1>3. ASSUME NEW r \in Row, Expired(sub[r], at).status = "expired"
        PROVE  Expired(sub[r], at).expire < now
    BY <1>1, <1>2, <1>3 DEF Expired, SubRow
  <1>4. ASSUME NEW r \in Row, Expired(Queued(sub[r], at), at).status = "expired"
        PROVE  Expired(Queued(sub[r], at), at).expire < now
    BY <1>1, <1>2, <1>4 DEF Expired, Queued, SubRow
  <1> QED BY <1>3, <1>4 DEF Over, Normalize, Expire

\* The four actions close nothing but what their normalisation closes.
LEMMA ApplyClosesNone ==
    ASSUME IInv, NEW p \in Plan, NEW extra \in ExtraDays, Apply(p, extra)
    PROVE  ClosesNone(Normalize(sub, now), sub')
  <1> DEFINE t == Normalize(sub, now)
  <1>1. t \in [Row -> SubRow]
    BY Prepared DEF Table
  <1>2. Scheduled(t) \subseteq Row /\ \A r \in Scheduled(t) : t[r].status = "scheduled"
    BY DEF Scheduled, With
  <1>3. \A c \in Row : IsCurrent(t, c, now) => t[c].status = "active"
    BY DEF IsCurrent, Candidates, With
  <1>4. \A st, from, days : NewRow(st, p, from, days).status = st
    BY DEF NewRow
  <1> HIDE DEF t
  <1>5. CASE Open(p, extra)
    BY <1>1, <1>4, <1>5 DEF Open, ClosesNone, t
  <1>6. CASE Renew(p, extra)
    <2>1. PICK c \in Row :
            /\ IsCurrent(t, c, now)
            /\ sub' = [r \in Row |->
                 IF r = c THEN [t[r] EXCEPT !.expire = @ + Days(p, extra)]
                 ELSE IF r \in Scheduled(t)
                      THEN [t[r] EXCEPT !.start = @ + Days(p, extra), !.expire = @ + Days(p, extra)]
                      ELSE t[r]]
      BY <1>6 DEF Renew, t
    <2>2. ASSUME NEW r \in Row, r # c, r \notin Scheduled(t)
          PROVE  sub'[r] = t[r]
      BY <2>1, <2>2
    <2>3. ASSUME NEW r \in Row, r = c \/ r \in Scheduled(t)
          PROVE  sub'[r].status # "expired"
      <3>1. t[r] \in SubRow /\ t[r].status \in {"active", "scheduled"}
        BY <1>1, <1>2, <1>3, <2>1, <2>3
      <3>2. sub'[r].status = t[r].status
        BY <2>1, <2>3, <3>1 DEF SubRow
      <3> QED BY <3>1, <3>2
    <2> QED BY <2>2, <2>3 DEF ClosesNone, t
  <1>7. CASE SwitchScheduled(p, extra)
    BY <1>1, <1>4, <1>7 DEF SwitchScheduled, ClosesNone, t
  <1>8. CASE SwitchNow(p, extra)
    <2>1. PICK c \in Row, r \in Row :
            /\ IsCurrent(t, c, now) /\ IsNew(t, r) /\ now + Days(p, extra) <= Horizon
            /\ \/ CancelQueue(Switched(t, c, r, p, Days(p, extra)))
               \/ RebaseQueue(Switched(t, c, r, p, Days(p, extra)), now + Days(p, extra))
      BY <1>8 DEF SwitchNow, t
    <2> DEFINE u == Switched(t, c, r, p, Days(p, extra))
    <2>2. u \in [Row -> SubRow] /\ \A q \in Row : u[q].status = "expired" => u[q] = t[q]
      BY <2>1, DaysPositive, SwitchedTable DEF t
    <2>3. \A q \in Scheduled(u) : q \in Row /\ u[q].status = "scheduled"
      BY DEF Scheduled, With
    <2>6. ClosesNone(t, u)
      BY <2>2 DEF ClosesNone
    <2> HIDE DEF u
    <2>4. CASE CancelQueue(u)
      <3>1. \A q \in Row : sub'[q].status = "expired" => sub'[q] = u[q]
        BY <2>2, <2>3, <2>4 DEF CancelQueue
      <3> QED BY <2>6, <3>1 DEF ClosesNone, t
    <2>5. CASE RebaseQueue(u, now + Days(p, extra))
      <3>1. PICK from \in [Scheduled(u) -> now + Days(p, extra)..Horizon] :
              sub' = [q \in Row |->
                IF q \in Scheduled(u)
                THEN [u[q] EXCEPT !.start = from[q], !.expire = from[q] + Length(u, q)]
                ELSE u[q]]
        BY <2>5 DEF RebaseQueue
      <3>2. ASSUME NEW q \in Scheduled(u) PROVE sub'[q].status = u[q].status
        <4>1. q \in Row /\ u[q] \in SubRow
          BY <2>2, <2>3
        <4> QED BY <3>1, <4>1 DEF SubRow
      <3>3. \A q \in Row : sub'[q].status = "expired" => sub'[q] = u[q]
        BY <2>3, <3>1, <3>2
      <3> QED BY <2>6, <3>3 DEF ClosesNone, t
    <2> QED BY <2>1, <2>4, <2>5 DEF u
  <1> QED BY <1>5, <1>6, <1>7, <1>8 DEF Apply

\* No step closes a row before its end, or moves the end of a closed one.
LEMMA OverStep ==
    ASSUME IInv, Over(sub, now), [Next]_vars
    PROVE  Over(sub', now')
  <1>1. now \in Time /\ now \in Int /\ sub \in [Row -> SubRow]
    BY HorizonAssumption DEF IInv, TypeOK, Time
  <1>2. ASSUME NEW p \in Plan, NEW extra \in ExtraDays, Apply(p, extra)
        PROVE  Over(sub', now')
    <2>1. Over(Normalize(sub, now), now)
      BY <1>1, ClosedInTime
    <2>2. now' = now
      BY <1>2 DEF Apply, Open, Renew, SwitchNow, SwitchScheduled
    <2> QED BY <1>2, <2>1, <2>2, ApplyClosesNone DEF Over, ClosesNone
  <1>3. ASSUME NEW r \in Row, CancelScheduled(r)
        PROVE  Over(sub', now')
    BY <1>1, <1>3 DEF CancelScheduled, Over
  <1>4. ASSUME NEW at \in ClockRead, Refresh(at) \/ ReadRefresh(at)
        PROVE  Over(sub', now')
    <2>1. Over(Expire(sub, at), now)
      BY <1>1, ClosedInTime DEF ClockRead
    <2>2. \A q \in Row : sub'[q].status = "expired" => sub'[q] = Expire(sub, at)[q]
      <3>1. \/ sub' = Expire(sub, at)
            \/ \E d \in Row : sub' = [Expire(sub, at) EXCEPT ![d].status = "active"]
        BY <1>4 DEF Refresh, ReadRefresh, RefreshRows, Due, Scheduled, With
      <3>2. Expire(sub, at) \in [Row -> SubRow]
        BY <1>1, ExpiredRow DEF ClockRead, Expire
      <3>3. ASSUME NEW d \in Row, sub' = [Expire(sub, at) EXCEPT ![d].status = "active"]
            PROVE  \A q \in Row : sub'[q].status = "expired" => sub'[q] = Expire(sub, at)[q]
        <4>1. sub'[d].status = "active" /\ \A q \in Row \ {d} : sub'[q] = Expire(sub, at)[q]
          BY <3>2, <3>3 DEF SubRow
        <4> QED BY <4>1
      <3> QED BY <3>1, <3>3
    <2>3. now' = now
      BY <1>4 DEF Refresh, ReadRefresh
    <2> QED BY <2>1, <2>2, <2>3 DEF Over
  <1>5. ASSUME NEW at \in ClockRead, Migrate(at)
        PROVE  Over(sub', now')
    BY <1>1, <1>5, ClosedInTime DEF ClockRead, Migrate
  <1>6. CASE Tick
    <2>1. \A r \in Row : sub[r].expire \in Int
      BY <1>1, HorizonAssumption DEF SubRow, Time
    <2>2. sub' = sub /\ now' = now + 1
      BY <1>6 DEF Tick
    <2> QED BY <1>1, <2>1, <2>2 DEF Over
  <1>7. CASE ReadSelect \/ UNCHANGED vars
    BY <1>7 DEF ReadSelect, vars, Over
  <1> QED BY <1>2, <1>3, <1>4, <1>5, <1>6, <1>7 DEF Next

\* A row is closed as expired only after its last second (ExpiredOnlyAfterEnd),
\* however long the writer that closes it waited after it read the clock.
THEOREM ClosedAfterEnd == Spec => []ExpiredOnlyAfterEnd
  <1>1. Init => Over(sub, now)
    BY DEF Init, Over, Absent
  <1>2. IInv /\ Over(sub, now) /\ [Next]_vars => Over(sub, now)'
    BY OverStep DEF Over
  <1>3. Over(sub, now) => ExpiredOnlyAfterEnd
    BY DEF Over, ExpiredOnlyAfterEnd, With
  <1> QED BY <1>1, <1>2, <1>3, Invariance, PTL DEF Spec
-----------------------------------------------------------------------------
(* The rights of a user have no hole.  The property speaks of queued rows;   *)
(* the invariant is about every live row, because a queued row is promoted   *)
(* and an active one is put back into the queue.                             *)

First(t, s) == \A r \in Live(t) : r = s \/ t[s].start < t[r].start
Contiguous(t) == \A s \in Live(t) : First(t, s) \/ \E r \in Live(t) : t[r].expire = t[s].start

\* The live rows of t that are not over at the instant at, as they were.
KeepsRunning(t, u, at) ==
    /\ Live(u) = {r \in Live(t) : at <= t[r].expire}
    /\ \A r \in Live(u) : u[r].start = t[r].start /\ u[r].expire = t[r].expire

\* The two UPDATEs of the normalisation and the one of the refresh close exactly the
\* live rows that are over.
LEMMA ClosesTheOver ==
    ASSUME NEW t \in [Row -> SubRow], NEW at \in Time
    PROVE  /\ KeepsRunning(t, Normalize(t, at), at)
           /\ KeepsRunning(t, Expire(t, at), at)
  <1>1. at \in Int /\ \A r \in Row : t[r] \in SubRow /\ t[r].expire \in Int
    BY Instants, HorizonAssumption DEF Time
  <1>2. ASSUME NEW r \in Row
        PROVE  /\ r \in Live(Normalize(t, at)) <=> r \in Live(t) /\ at <= t[r].expire
               /\ r \in Live(Expire(t, at)) <=> r \in Live(t) /\ at <= t[r].expire
    <2>1. /\ Normalize(t, at)[r] = Expired(Queued(t[r], at), at)
          /\ Expire(t, at)[r] = Expired(t[r], at)
      BY DEF Normalize, Expire
    <2>2. Expired(t[r], at).status \in {"active", "scheduled"}
          <=> t[r].status \in {"active", "scheduled"} /\ ~(t[r].expire < at)
      BY <1>1 DEF Expired, SubRow
    <2>3. Expired(Queued(t[r], at), at).status \in {"active", "scheduled"}
          <=> t[r].status \in {"active", "scheduled"} /\ ~(t[r].expire < at)
      BY <1>1 DEF Expired, Queued, SubRow
    <2> QED BY <1>1, <2>1, <2>2, <2>3, LiveRows
  <1>3. /\ Live(Normalize(t, at)) = {r \in Live(t) : at <= t[r].expire}
        /\ Live(Expire(t, at)) = {r \in Live(t) : at <= t[r].expire}
    BY <1>2, LiveIsRow
  <1> QED BY <1>3, NormalizedRow, ExpiredRow, LiveIsRow DEF KeepsRunning

\* Closing what is over leaves no hole: when the row before s is closed, so is every
\* row before that one, and s is the first of all.
LEMMA RunningContiguous ==
    ASSUME NEW t \in [Row -> SubRow], Sound(t), Contiguous(t), NEW at \in Time,
           NEW u, KeepsRunning(t, u, at)
    PROVE  Contiguous(u)
  <1>1. SUFFICES ASSUME NEW s \in Live(u), ~ \E r \in Live(u) : u[r].expire = u[s].start
                 PROVE  First(u, s)
    BY DEF Contiguous
  <1>2. s \in Live(t) /\ \A r \in Live(u) : r \in Live(t) /\ at <= t[r].expire
    BY DEF KeepsRunning
  <1>3. CASE First(t, s)
    BY <1>2, <1>3 DEF First, KeepsRunning
  <1>4. CASE ~First(t, s)
    <2>1. PICK r \in Live(t) : t[r].expire = t[s].start
      BY <1>2, <1>4 DEF Contiguous
    <2>2. at \in Int /\ \A q \in Live(t) : t[q].start \in Int /\ t[q].expire \in Int
      BY Instants, LiveIsRow, HorizonAssumption DEF Time
    <2>3. t[r].expire < at
      BY <1>1, <1>2, <2>1, <2>2 DEF KeepsRunning
    <2>4. ASSUME NEW q \in Live(u), q # s
          PROVE  t[s].start < t[q].start
      <3>1. ~(t[q].expire <= t[s].start)
        BY <1>2, <2>1, <2>2, <2>3
      <3>2. t[s].expire <= t[q].start /\ t[s].start < t[s].expire
        BY <1>2, <2>4, <3>1 DEF Sound, Follows
      <3> QED BY <1>2, <2>2, <3>2
    <2> QED BY <1>2, <2>4 DEF First, KeepsRunning
  <1> QED BY <1>3, <1>4

\* renew moves the whole queue with the end of the current row, which comes first.
LEMMA RenewContiguous ==
    ASSUME IInv, Contiguous(Normalize(sub, now)),
           NEW p \in Plan, NEW extra \in ExtraDays, Renew(p, extra)
    PROVE  Contiguous(sub')
  <1> DEFINE t == Normalize(sub, now)
             d == Days(p, extra)
  <1>1. Table(t) /\ d \in Nat
    BY Prepared, DaysPositive
  <1>2. PICK c \in Row :
             /\ t[c].status = "active"
             /\ Live(t) = Scheduled(t) \cup {c} /\ Live(sub') = Live(t)
             /\ sub'[c].start = t[c].start
             /\ sub'[c].expire = t[c].expire + d
             /\ \A r \in Scheduled(t) : /\ r \in Row /\ r # c
                                        /\ sub'[r].start = t[r].start + d
                                        /\ sub'[r].expire = t[r].expire + d
    BY RenewedTable
  <1> HIDE DEF d
  <1>3. Contiguous(t) /\ Sound(t) /\ t \in [Row -> SubRow]
    BY <1>1 DEF Table
  <1> HIDE DEF t
  <1>4. \A r \in Live(t) : t[r].start \in Int /\ t[r].expire \in Int
    BY <1>3, Instants, LiveIsRow
  <1>5. \A r \in Scheduled(t) : t[c].expire <= t[r].start /\ t[c].start < t[c].expire
    BY <1>2, <1>3 DEF Sound, Follows
  <1>6. First(sub', c)
    BY <1>1, <1>2, <1>4, <1>5 DEF First
  <1>7. ASSUME NEW s \in Scheduled(t)
        PROVE  \E r \in Live(sub') : sub'[r].expire = sub'[s].start
    <2>1. ~First(t, s)
      BY <1>2, <1>4, <1>5 DEF First
    <2>2. PICK r \in Live(t) : t[r].expire = t[s].start
      BY <1>2, <1>3, <2>1 DEF Contiguous
    <2> QED BY <1>2, <2>2
  <1> QED BY <1>2, <1>6, <1>7 DEF Contiguous

\* switch_scheduled adds a row that starts where the last one ends.
LEMMA SwitchScheduledContiguous ==
    ASSUME IInv, Contiguous(Normalize(sub, now)),
           NEW p \in Plan, NEW extra \in ExtraDays, SwitchScheduled(p, extra)
    PROVE  Contiguous(sub')
  <1> DEFINE t == Normalize(sub, now)
             d == Days(p, extra)
  <1>1. Table(t) /\ d \in Nat /\ d > 0
    BY Prepared, DaysPositive
  <1>2. PICK r \in Row, from \in Time :
             /\ t[r].status = "absent"
             /\ sub'[r].status = "scheduled" /\ sub'[r].start = from /\ sub'[r].expire = from + d
             /\ \A q \in Row \ {r} : sub'[q] = t[q]
             /\ \A q \in Live(t) : t[q].expire <= from
             /\ \E q \in Live(t) : t[q].expire = from
    BY QueuedBehind
  <1> HIDE DEF d
  <1>3. Contiguous(t) /\ Sound(t) /\ t \in [Row -> SubRow]
    BY <1>1 DEF Table
  <1> HIDE DEF t
  <1>4. \A q \in Row : q \in Live(sub') <=> q = r \/ q \in Live(t)
    BY <1>2, LiveRows
  <1>5. r \notin Live(t) /\ \A q \in Live(t) : q \in Live(sub') /\ sub'[q] = t[q]
    BY <1>2, <1>4, LiveRows, LiveIsRow
  <1>6. \A q \in Live(t) : t[q].start < t[q].expire /\ t[q].start \in Int /\ t[q].expire \in Int
    BY <1>3, Instants, LiveIsRow DEF Sound
  <1>7. from \in Int
    BY HorizonAssumption DEF Time
  <1>8. ASSUME NEW s \in Live(t)
        PROVE  First(sub', s) \/ \E q \in Live(sub') : sub'[q].expire = sub'[s].start
    <2>1. CASE First(t, s)
      BY <2>1, <1>2, <1>4, <1>5, <1>6, <1>7, LiveIsRow DEF First
    <2>2. CASE \E q \in Live(t) : t[q].expire = t[s].start
      BY <2>2, <1>5
    <2> QED BY <2>1, <2>2, <1>3 DEF Contiguous
  <1>9. \E q \in Live(sub') : sub'[q].expire = sub'[r].start
    BY <1>2, <1>5
  <1> QED BY <1>4, <1>8, <1>9, LiveIsRow DEF Contiguous

\* switch_now leaves the new row first, and behind it an empty or a rebased queue.
LEMMA SwitchNowContiguous ==
    ASSUME IInv, NEW p \in Plan, NEW extra \in ExtraDays, SwitchNow(p, extra)
    PROVE  Contiguous(sub')
  <1> DEFINE d == Days(p, extra)
  <1>1. d \in Nat /\ d > 0
    BY DaysPositive
  <1>2. PICK r \in Row :
             /\ sub' \in [Row -> SubRow]
             /\ sub'[r].start = now
             /\ \A q \in Live(sub') \ {r} : now + d <= sub'[q].start
             /\ \A q \in Live(sub') \ {r} : \E o \in Live(sub') : sub'[o].expire = sub'[q].start
    BY SwitchedTo
  <1> HIDE DEF d
  <1>3. now \in Int /\ \A q \in Live(sub') : sub'[q].start \in Int
    BY <1>2, Instants, LiveIsRow, HorizonAssumption DEF IInv, TypeOK, Time
  <1>4. First(sub', r)
    BY <1>1, <1>2, <1>3 DEF First
  <1> QED BY <1>2, <1>4 DEF Contiguous

\* A promotion changes no period.
LEMMA PromotedContiguous ==
    ASSUME NEW t \in [Row -> SubRow], Contiguous(t), NEW d \in Scheduled(t),
           NEW s, s = [t EXCEPT ![d].status = "active"]
    PROVE  Contiguous(s)
  <1>1. d \in Row /\ t[d].status = "scheduled" /\ t[d] \in SubRow
    BY DEF Scheduled, With
  <1>2. s = [t EXCEPT ![d] = Marked(t[d], "active")]
    BY DEF Marked
  <1>3. /\ s[d].status = "active" /\ s[d].start = t[d].start /\ s[d].expire = t[d].expire
        /\ \A q \in Row \ {d} : s[q] = t[q]
    BY <1>1, <1>2, MarkedRow DEF Status
  <1>4. \A q \in Row : /\ q \in Live(s) <=> q \in Live(t)
                       /\ s[q].start = t[q].start /\ s[q].expire = t[q].expire
    BY <1>1, <1>3, LiveRows
  <1>5. Live(s) = Live(t)
    BY <1>4, LiveIsRow
  <1>6. \A q \in Live(t) : s[q].start = t[q].start /\ s[q].expire = t[q].expire
    BY <1>4, LiveIsRow
  <1>7. \A q \in Live(t) : First(t, q) => First(s, q)
    BY <1>5, <1>6 DEF First
  <1>8. ASSUME NEW q \in Live(t), NEW r \in Live(t), t[r].expire = t[q].start
        PROVE  s[r].expire = s[q].start
    BY <1>6, <1>8
  <1>9. ASSUME NEW q \in Live(t)
        PROVE  First(s, q) \/ \E r \in Live(t) : s[r].expire = s[q].start
    BY <1>7, <1>8 DEF Contiguous
  <1> QED BY <1>5, <1>9 DEF Contiguous

\* Until a queued row is cancelled, no step makes a hole.
LEMMA ContiguousStep ==
    ASSUME IInv, revoked # {} \/ Contiguous(sub), [Next]_vars
    PROVE  revoked' # {} \/ Contiguous(sub')
  <1>1. sub \in [Row -> SubRow] /\ Sound(sub) /\ now \in Time
    BY DEF IInv, TypeOK
  <1>2. ASSUME revoked = {}, NEW at \in Time
        PROVE  Contiguous(Normalize(sub, at)) /\ Contiguous(Expire(sub, at))
    BY <1>1, <1>2, ClosesTheOver, RunningContiguous
  <1>3. ASSUME NEW p \in Plan, NEW extra \in ExtraDays, Apply(p, extra), revoked = {}
        PROVE  Contiguous(sub')
    <2>1. Contiguous(Normalize(sub, now)) /\ Table(Normalize(sub, now))
      BY <1>1, <1>2, <1>3, Prepared
    <2>2. CASE Open(p, extra)
      <3>1. PICK r \in Row :
              sub' = [Normalize(sub, now) EXCEPT ![r] = NewRow("active", p, now, Days(p, extra))]
        BY <2>2 DEF Open
      <3>2. Scheduled(Normalize(sub, now)) = {} /\ With(Normalize(sub, now), "active") = {}
        BY <2>2, Prepared DEF Open
      <3>3. \A q \in Row \ {r} : sub'[q] = Normalize(sub, now)[q]
        BY <2>1, <3>1 DEF Table
      <3>4. Live(sub') \subseteq {r}
        BY <3>2, <3>3, LiveRows, LiveIsRow DEF Live
      <3> QED BY <3>4 DEF Contiguous, First
    <2> QED BY <1>3, <2>1, <2>2, RenewContiguous, SwitchNowContiguous,
               SwitchScheduledContiguous DEF Apply
  <1>4. ASSUME NEW at \in ClockRead, Refresh(at) \/ ReadRefresh(at), revoked = {}
        PROVE  Contiguous(sub')
    <2>1. /\ at \in Time /\ Contiguous(Expire(sub, at))
          /\ Expire(sub, at) \in [Row -> SubRow]
      BY <1>2, <1>4, ExpiredTable DEF ClockRead, Table
    <2>2. \/ sub' = Expire(sub, at)
          \/ \E d \in Scheduled(Expire(sub, at)) :
                sub' = [Expire(sub, at) EXCEPT ![d].status = "active"]
      BY <1>4 DEF Refresh, ReadRefresh, RefreshRows, Due
    <2> QED BY <2>1, <2>2, PromotedContiguous
  <1>5. ASSUME NEW at \in ClockRead, Migrate(at), revoked = {}
        PROVE  Contiguous(sub')
    BY <1>2, <1>5 DEF ClockRead, Migrate
  <1>6. ASSUME NEW p \in Plan, NEW extra \in ExtraDays, Apply(p, extra)
        PROVE  revoked' = revoked
    BY <1>6 DEF Apply, Open, Renew, SwitchNow, SwitchScheduled
  <1>7. \A at \in ClockRead : Refresh(at) \/ ReadRefresh(at) \/ Migrate(at) => revoked' = revoked
    BY DEF Refresh, ReadRefresh, Migrate
  <1>8. CASE \E r \in Row : CancelScheduled(r)
    BY <1>8 DEF CancelScheduled
  <1>9. CASE ReadSelect \/ Tick \/ UNCHANGED vars
    BY <1>9 DEF ReadSelect, Tick, vars
  <1> QED BY <1>3, <1>4, <1>5, <1>6, <1>7, <1>8, <1>9 DEF Next

\* As long as no queued row is cancelled, each queued row starts where another one
\* ends or is the first of all (QueueContiguous): _shift_scheduled_subscriptions and
\* _rebase_scheduled_subscriptions leave no hole, and a closing row none behind it.
THEOREM NoHole == Spec => []QueueContiguous
  <1> DEFINE C == revoked # {} \/ Contiguous(sub)
  <1>1. Init => C
    <2> SUFFICES ASSUME Init PROVE Live(sub) = {}
      BY DEF Contiguous
    <2> QED BY DEF Init, Absent, Live, Scheduled, With
  <1>2. IInv /\ C /\ [Next]_vars => C'
    BY ContiguousStep DEF Contiguous, First
  <1>3. C => QueueContiguous
    BY DEF QueueContiguous, Contiguous, First, Live
  <1> HIDE DEF C
  <1> QED BY <1>1, <1>2, <1>3, Invariance, PTL DEF Spec
-----------------------------------------------------------------------------
(* Between the refresh of a reader and its SELECT, every row whose period    *)
(* began before the refresh and still runs is active, unless a migration     *)
(* with an old clock has put it back: whatever comes in between moves rows   *)
(* to later instants only, or makes them active.                             *)

Served(t, at, put) ==
    \A r \in Live(t) \ put : t[r].start < at /\ now <= t[r].expire => t[r].status = "active"

ReaderServed == reader # NoReader => reader <= now /\ Served(sub, reader, demoted)

\* The normalisation queues no row that has begun, so it leaves those rows active.
LEMMA NormalizeServes ==
    ASSUME IInv, NEW at \in Time, at <= now, Served(sub, at, demoted),
           NEW t, t = Normalize(sub, now)
    PROVE  \A r \in Live(t) \ demoted : t[r].start < at => t[r].status = "active"
  <1> SUFFICES ASSUME NEW r \in Live(t), r \notin demoted, t[r].start < at
               PROVE  t[r].status = "active"
    OBVIOUS
  <1>1. sub \in [Row -> SubRow] /\ now \in Time /\ now \in Int /\ at \in Int /\ r \in Row
    BY HorizonAssumption, LiveIsRow DEF IInv, TypeOK, Time
  <1>2. r \in Live(sub) /\ now <= sub[r].expire /\ t[r].start = sub[r].start
    BY <1>1, NormalizedRow
  <1>3. sub[r].status = "active" /\ sub[r].start < at
    BY <1>2 DEF Served
  <1>4. sub[r] \in SubRow /\ sub[r].start \in Int /\ sub[r].expire \in Int
    BY <1>1, Instants
  <1>5. ~(sub[r].start > now) /\ ~(sub[r].expire < now)
    BY <1>1, <1>2, <1>3, <1>4
  <1>6. t[r] = Expired(Queued(sub[r], now), now)
    BY <1>1 DEF Normalize
  <1> QED BY <1>3, <1>5, <1>6 DEF Expired, Queued

\* The administrator's actions: what they leave live and begun was so before.
LEMMA ApplyServes ==
    ASSUME IInv, reader # NoReader, ReaderServed,
           NEW p \in Plan, NEW extra \in ExtraDays, Apply(p, extra)
    PROVE  ReaderServed'
  <1> DEFINE t == Normalize(sub, now)
             d == Days(p, extra)
  <1>1. /\ reader \in Time /\ reader \in Int /\ now \in Int
        /\ reader <= now /\ Served(sub, reader, demoted)
    BY HorizonAssumption DEF IInv, TypeOK, Time, ReaderServed
  <1>2. UNCHANGED <<now, reader, demoted>>
    BY DEF Apply, Open, Renew, SwitchNow, SwitchScheduled
  <1>3. \A r \in Live(t) \ demoted : t[r].start < reader => t[r].status = "active"
    BY <1>1, NormalizeServes
  <1>4. /\ d \in Nat /\ d > 0
        /\ t \in [Row -> SubRow]
        /\ \A r \in Row : t[r].start \in Int
    BY DaysPositive, Prepared, Instants DEF Table
  <1> HIDE DEF d
  <1>5. SUFFICES ASSUME NEW r \in Live(sub') \ demoted, sub'[r].start < reader
                 PROVE  sub'[r].status = "active"
    BY <1>1, <1>2 DEF ReaderServed, Served
  <1>6. CASE Open(p, extra)
    <2>1. PICK n \in Row : sub' = [t EXCEPT ![n] = NewRow("active", p, now, d)]
      BY <1>6 DEF Open, d
    <2>2. Scheduled(t) = {} /\ With(t, "active") = {}
      BY <1>6, Prepared DEF Open
    <2>3. \A q \in Row \ {n} : sub'[q] = t[q]
      BY <1>4, <2>1
    <2>4. r = n
      BY <1>5, <2>2, <2>3, LiveRows, LiveIsRow DEF Live
    <2>5. sub'[n] = NewRow("active", p, now, d)
      BY <1>4, <2>1
    <2> QED BY <2>4, <2>5 DEF NewRow
  <1>7. CASE Renew(p, extra)
    <2>1. PICK c \in Row :
             /\ t[c].status = "active"
             /\ Live(t) = Scheduled(t) \cup {c} /\ Live(sub') = Live(t)
             /\ sub'[c].status = "active"
             /\ \A q \in Scheduled(t) : q \in Row /\ sub'[q].start = t[q].start + d
      BY <1>7, RenewedTable DEF d
    <2>2. CASE r \in Scheduled(t)
      <3>1. t[r].start < reader
        BY <1>1, <1>4, <1>5, <2>1, <2>2
      <3>2. t[r].status = "active"
        BY <1>3, <1>5, <2>1, <3>1
      <3> QED BY <2>2, <3>2 DEF Scheduled, With
    <2> QED BY <1>5, <2>1, <2>2
  <1>8. CASE SwitchNow(p, extra)
    <2>1. PICK n \in Row :
             /\ sub' \in [Row -> SubRow]
             /\ sub'[n].status = "active"
             /\ \A q \in Live(sub') \ {n} : now + d <= sub'[q].start
      BY <1>8, SwitchedTo DEF d
    <2>2. sub'[r].start \in Int
      BY <2>1, Instants, LiveIsRow
    <2> QED BY <1>1, <1>4, <1>5, <2>1, <2>2
  <1>9. CASE SwitchScheduled(p, extra)
    <2>1. PICK n \in Row, from \in Time :
             /\ sub'[n].start = from /\ now <= from
             /\ \A q \in Row \ {n} : sub'[q] = t[q]
      BY <1>9, QueuedBehind DEF d
    <2>2. from \in Int
      BY HorizonAssumption DEF Time
    <2>3. r # n
      BY <1>1, <1>5, <2>1, <2>2
    <2>4. r \in Live(t) /\ sub'[r] = t[r]
      BY <1>5, <2>1, <2>3, LiveRows, LiveIsRow
    <2> QED BY <1>3, <1>5, <2>4
  <1> QED BY <1>6, <1>7, <1>8, <1>9 DEF Apply

\* A refresh makes a row active or leaves it alone.
LEMMA RefreshServes ==
    ASSUME IInv, NEW at \in Time, RefreshRows(at), UNCHANGED now,
           NEW x, Served(sub, x, demoted)
    PROVE  Served(sub, x, demoted)'
  <1> DEFINE t == Expire(sub, at)
  <1>1. sub \in [Row -> SubRow] /\ t \in [Row -> SubRow]
    BY ExpiredTable DEF IInv, TypeOK, Table
  <1>2. \A r \in Live(t) : r \in Live(sub) /\ t[r] = sub[r]
    BY <1>1, ExpiredRow, LiveIsRow
  <1>3. Served(t, x, demoted)
    BY <1>2 DEF Served
  <1> HIDE DEF t
  <1>4. CASE sub' = t /\ UNCHANGED demoted
    BY <1>3, <1>4 DEF Served
  <1>5. CASE \E d \in Due(t, at) : /\ sub' = [t EXCEPT ![d].status = "active"]
                                   /\ demoted' = demoted \ {d}
    <2>1. PICK d \in Row : /\ sub' = [t EXCEPT ![d].status = "active"]
                           /\ demoted' = demoted \ {d}
      BY <1>5 DEF Due, Scheduled, With
    <2>2. sub'[d].status = "active" /\ \A q \in Row \ {d} : sub'[q] = t[q]
      BY <1>1, <2>1 DEF SubRow
    <2>3. \A q \in Live(sub') \ demoted' : q # d => q \in Live(t) \ demoted /\ sub'[q] = t[q]
      BY <2>1, <2>2, LiveRows, LiveIsRow
    <2>4. ASSUME NEW q \in Live(sub') \ demoted', sub'[q].start < x, now <= sub'[q].expire
          PROVE  sub'[q].status = "active"
      BY <1>3, <2>2, <2>3, <2>4 DEF Served
    <2> QED BY <2>4 DEF Served
  <1> QED BY <1>4, <1>5 DEF RefreshRows, t

\* The reader's own refresh: a row that has begun and is not over is active already,
\* or it is due, and then it is the one that the refresh promotes.
LEMMA OwnRefreshServes ==
    ASSUME IInv, NEW at \in Time, at <= now, RefreshRows(at), UNCHANGED now
    PROVE  Served(sub, at, demoted)'
  <1> DEFINE t == Expire(sub, at)
  <1>1. /\ Table(t)
        /\ \A r \in Live(t) : at <= t[r].expire
    BY ExpiredTable
  <1> HIDE DEF t
  <1>2. /\ t \in [Row -> SubRow] /\ Sound(t) /\ now \in Int /\ at \in Int
        /\ \A r \in Live(t) : t[r].start \in Int /\ t[r].expire \in Int
    BY <1>1, Instants, LiveIsRow, HorizonAssumption DEF Table, IInv, TypeOK, Time
  <1>3. ASSUME NEW r \in Live(t), t[r].start < at
        PROVE  /\ \A c \in Candidates(t, at) : r = c
               /\ r \in With(t, "active") \/ r \in Due(t, at)
               /\ \A d \in Due(t, at) : r = d \/ ~Earlier(t, d, r)
    <2>1. at <= t[r].expire /\ t[r].start \in Int /\ t[r].expire \in Int
      BY <1>1, <1>2
    <2>2. ASSUME NEW c \in Live(t), Covers(t, c, at), r # c
          PROVE  Follows(t, r, c) /\ t[r].start < t[c].start
      <3>1. t[c].start <= at /\ at <= t[c].expire /\ t[c].start \in Int
        BY <1>2, <2>2 DEF Covers
      <3>2. ~(t[c].expire <= t[r].start)
        BY <1>2, <1>3, <2>1, <3>1
      <3>3. Follows(t, r, c) /\ t[r].start < t[r].expire
        BY <1>2, <2>2, <3>2 DEF Sound, Follows
      <3> QED BY <2>1, <3>1, <3>3 DEF Follows
    <2>3. ASSUME NEW c \in Candidates(t, at), r # c
          PROVE  FALSE
      <3>1. c \in Live(t) /\ Covers(t, c, at) /\ t[c].status = "active"
        BY DEF Candidates, With, Live
      <3> QED BY <2>2, <2>3, <3>1 DEF Follows
    <2>4. ASSUME NEW d \in Due(t, at), r # d, Earlier(t, d, r)
          PROVE  FALSE
      <3>1. d \in Live(t) /\ Covers(t, d, at)
        BY DEF Due, Live
      <3> QED BY <1>2, <2>1, <2>2, <2>4, <3>1 DEF Earlier
    <2>5. r \in With(t, "active") \/ r \in Due(t, at)
      BY <1>2, <1>3, <2>1 DEF Live, Due, Covers
    <2> QED BY <2>3, <2>4, <2>5
  <1>4. CASE /\ Candidates(t, at) # {} \/ Due(t, at) = {}
             /\ sub' = t
    <2>1. ASSUME NEW r \in Live(t), t[r].start < at
          PROVE  t[r].status = "active"
      BY <1>3, <1>4, <2>1 DEF Candidates, With
    <2> QED BY <1>4, <2>1 DEF Served
  <1>5. CASE \E d \in Due(t, at) : /\ \A q \in Due(t, at) : q = d \/ Earlier(t, d, q)
                                   /\ sub' = [t EXCEPT ![d].status = "active"]
    <2>1. PICK d \in Due(t, at) : /\ \A q \in Due(t, at) : q = d \/ Earlier(t, d, q)
                                  /\ sub' = [t EXCEPT ![d].status = "active"]
      BY <1>5
    <2>2. d \in Row
      BY DEF Due, Scheduled, With
    <2>3. sub'[d].status = "active" /\ \A q \in Row \ {d} : sub'[q] = t[q]
      BY <1>2, <2>1, <2>2 DEF SubRow
    <2>4. ASSUME NEW r \in Live(sub'), sub'[r].start < at, r # d
          PROVE  sub'[r].status = "active"
      <3>1. r \in Live(t) /\ sub'[r] = t[r]
        BY <2>3, <2>4, LiveRows, LiveIsRow
      <3> QED BY <1>3, <2>1, <2>4, <3>1 DEF With
    <2> QED BY <2>3, <2>4 DEF Served
  <1> QED BY <1>4, <1>5 DEF RefreshRows, t

\* Whatever happens between a reader's refresh and its SELECT, its rows stay active.
LEMMA ReaderStep ==
    ASSUME IInv, ReaderServed, [Next]_vars
    PROVE  ReaderServed'
  <1>1. /\ sub \in [Row -> SubRow] /\ now \in Int /\ reader \in Time \cup {NoReader}
        /\ NoReader \notin Time
    BY HorizonAssumption DEF IInv, TypeOK, Time, NoReader
  <1>2. ASSUME NEW p \in Plan, NEW extra \in ExtraDays, Apply(p, extra) PROVE ReaderServed'
    <2>1. reader' = reader
      BY <1>2 DEF Apply, Open, Renew, SwitchNow, SwitchScheduled
    <2> QED BY <1>2, <2>1, ApplyServes DEF ReaderServed
  <1>3. ASSUME NEW r \in Row, CancelScheduled(r) PROVE ReaderServed'
    <2>1. \A q \in Row \ {r} : sub'[q] = sub[q]
      BY <1>1, <1>3 DEF CancelScheduled
    <2>2. sub'[r].status = "cancelled"
      BY <1>1, <1>3 DEF CancelScheduled, SubRow
    <2>3. \A q \in Live(sub') : q \in Live(sub) /\ sub'[q] = sub[q]
      BY <2>1, <2>2, LiveRows, LiveIsRow
    <2>4. UNCHANGED <<now, reader, demoted>>
      BY <1>3 DEF CancelScheduled
    <2> QED BY <2>3, <2>4 DEF ReaderServed, Served
  <1>4. ASSUME NEW at \in ClockRead, Refresh(at) PROVE ReaderServed'
    <2>1. at \in Time /\ RefreshRows(at) /\ UNCHANGED <<now, reader>>
      BY <1>4 DEF ClockRead, Refresh
    <2>2. reader # NoReader => reader <= now /\ Served(sub, reader, demoted)'
      BY <2>1, RefreshServes DEF ReaderServed
    <2> QED BY <2>1, <2>2 DEF ReaderServed, Served
  <1>5. ASSUME NEW at \in ClockRead, ReadRefresh(at) PROVE ReaderServed'
    <2>1. at \in Time /\ at <= now /\ RefreshRows(at) /\ UNCHANGED now /\ reader' = at
      BY <1>5 DEF ClockRead, ReadRefresh
    <2>2. Served(sub, at, demoted)'
      BY <2>1, OwnRefreshServes
    <2> QED BY <2>1, <2>2 DEF ReaderServed, Served
  <1>6. ASSUME NEW at \in ClockRead, Migrate(at) PROVE ReaderServed'
    <2>1. /\ at \in Time /\ sub' = Normalize(sub, at) /\ UNCHANGED <<now, reader>>
          /\ demoted' = demoted \cup {r \in With(sub, "active") : sub[r].start > at}
      BY <1>6 DEF ClockRead, Migrate
    <2>2. ASSUME reader # NoReader, NEW r \in Live(sub') \ demoted',
                 sub'[r].start < reader, now <= sub'[r].expire
          PROVE  sub'[r].status = "active"
      <3>1. /\ r \in Row /\ r \in Live(sub) \ demoted
            /\ sub'[r].start = sub[r].start /\ sub'[r].expire = sub[r].expire
        BY <1>1, <2>1, <2>2, NormalizedRow, LiveIsRow
      <3>2. sub[r].status = "active"
        BY <2>2, <3>1 DEF ReaderServed, Served
      <3>3. ~(sub[r].start > at)
        BY <2>1, <2>2, <3>1, <3>2 DEF With
      <3>4. sub'[r] = Expired(sub[r], at) /\ sub'[r].status \in {"active", "scheduled"}
        BY <2>1, <2>2, <3>1, <3>3, LiveRows DEF Normalize, Queued
      <3>5. sub[r] \in SubRow
        BY <1>1, <3>1
      <3> QED BY <3>2, <3>4, <3>5 DEF Expired, SubRow
    <2> QED BY <2>1, <2>2 DEF ReaderServed, Served
  <1>7. CASE Tick
    <2>1. now' = now + 1 /\ UNCHANGED <<sub, reader, demoted>>
      BY <1>7 DEF Tick
    <2>2. \A r \in Live(sub) : sub[r].expire \in Int
      BY <1>1, Instants, LiveIsRow
    <2>3. reader # NoReader => reader <= now'
      BY <1>1, <2>1, HorizonAssumption DEF ReaderServed, Time
    <2>4. \A r \in Live(sub) : now' <= sub[r].expire => now <= sub[r].expire
      BY <1>1, <2>1, <2>2
    <2> QED BY <2>1, <2>3, <2>4 DEF ReaderServed, Served
  <1>8. CASE ReadSelect \/ UNCHANGED vars
    BY <1>8 DEF ReadSelect, vars, ReaderServed, Served
  <1> QED BY <1>2, <1>3, <1>4, <1>5, <1>6, <1>7, <1>8 DEF Next

\* A user whose period began before the refresh and still runs is served
\* (EntitledIsServed), whatever is bought, cancelled or refreshed in between.
THEOREM Entitled == Spec => []EntitledIsServed
  <1>1. Init => ReaderServed
    BY DEF Init, ReaderServed
  <1>2. IInv /\ ReaderServed /\ [Next]_vars => ReaderServed'
    BY ReaderStep
  <1>3. ReaderServed => EntitledIsServed
    BY DEF ReaderServed, Served, EntitledIsServed, Candidates, Covers, With, Live, Scheduled
  <1> QED BY <1>1, <1>2, <1>3, Invariance, PTL DEF Spec
-----------------------------------------------------------------------------
(* The rows implement the entitlement: every step changes the rights of the  *)
(* user as one action of Entitlement does, or not at all.                    *)

\* What the rows t are worth from the instant at on.
Worth(t, at) == {x \in Time : at <= x /\ \E r \in Live(t) : Covers(t, r, x)}

\* A row covers the instants of its period.
LEMMA RowWorth ==
    ASSUME NEW t \in [Row -> SubRow], NEW r \in Live(t), NEW at \in Time, NEW x \in Int,
           at <= x, t[r].start <= x, x <= t[r].expire
    PROVE  x \in Worth(t, at)
  <1>1. x \in Time
    BY Instants, LiveIsRow, HorizonAssumption DEF Time
  <1> QED BY <1>1 DEF Worth, Covers

\* Closing rows that are over takes nothing from the rights.
LEMMA RunningWorth ==
    ASSUME NEW t \in [Row -> SubRow], NEW u, NEW from \in Time, NEW at \in Time, from <= at,
           KeepsRunning(t, u, from)
    PROVE  Worth(u, at) = Worth(t, at)
  <1>1. from \in Int /\ at \in Int /\ Time \subseteq Int
    BY HorizonAssumption DEF Time
  <1>2. ASSUME NEW x \in Time, at <= x
        PROVE  (\E r \in Live(u) : Covers(u, r, x)) <=> (\E r \in Live(t) : Covers(t, r, x))
    <2>1. ASSUME NEW r \in Live(u), Covers(u, r, x) PROVE r \in Live(t) /\ Covers(t, r, x)
      BY <2>1 DEF KeepsRunning, Covers
    <2>2. ASSUME NEW r \in Live(t), Covers(t, r, x) PROVE r \in Live(u) /\ Covers(u, r, x)
      <3>1. x <= t[r].expire /\ t[r].expire \in Int
        BY <2>2, Instants, LiveIsRow DEF Covers
      <3>2. from <= t[r].expire
        BY <1>1, <1>2, <3>1
      <3> QED BY <2>2, <3>2 DEF KeepsRunning, Covers
    <2> QED BY <2>1, <2>2
  <1> QED BY <1>2 DEF Worth

\* The same for the normalisation of an administrator action.
LEMMA PreparedWorth ==
    ASSUME IInv
    PROVE  /\ Rights = Worth(Normalize(sub, now), now)
           /\ Rights = Worth(sub, now)
           /\ now \in Time /\ now \in Int /\ Horizon \in Int /\ Time \subseteq Int
  <1>1. sub \in [Row -> SubRow] /\ now \in Time /\ Horizon \in Int /\ Time \subseteq Int
    BY HorizonAssumption DEF IInv, TypeOK, Time
  <1>2. Worth(Normalize(sub, now), now) = Worth(sub, now)
    BY <1>1, ClosesTheOver, RunningWorth
  <1>3. Rights = Worth(sub, now)
    BY DEF Rights, Worth
  <1> QED BY <1>1, <1>2, <1>3

\* Every action of an administrator sells as many days as were asked for.
LEMMA SellsDays ==
    ASSUME NEW p \in Plan, NEW extra \in ExtraDays, Apply(p, extra)
    PROVE  Promise!Sell(Days(p, extra))
  <1>1. UNCHANGED <<now, revoked>>
    BY DEF Apply, Open, Renew, SwitchNow, SwitchScheduled
  <1>2. \E r \in Row : \/ bought' = [bought EXCEPT ![r] = Days(p, extra)]
                      \/ bought' = [bought EXCEPT ![r] = bought[r] + Days(p, extra)]
    BY DEF Apply, Open, Renew, SwitchNow, SwitchScheduled, Sell
  <1> QED BY <1>1, <1>2 DEF Promise!Sell

\* Whatever is cancelled stays so: what was cancelled by itself can never be revoked again.
RevokedClosed == \A r \in revoked : sub[r].status = "cancelled"

LEMMA ClosedIsKept ==
    ASSUME NEW r \in Row, sub[r].status = "cancelled", NEW at
    PROVE  Normalize(sub, at)[r].status = "cancelled" /\ Expire(sub, at)[r].status = "cancelled"
  BY DEF Normalize, Expire, Queued, Expired

LEMMA RevokedStep ==
    ASSUME IInv, RevokedClosed, [Next]_vars
    PROVE  RevokedClosed'
  <1>1. revoked \subseteq Row /\ sub \in [Row -> SubRow]
    BY DEF IInv, TypeOK
  <1>2. ASSUME NEW r \in Row, CancelScheduled(r) PROVE RevokedClosed'
    BY <1>1, <1>2 DEF RevokedClosed, CancelScheduled
  <1>3. ASSUME UNCHANGED revoked, \A r \in Row : sub[r].status = "cancelled" => sub'[r].status = "cancelled"
        PROVE  RevokedClosed'
    BY <1>1, <1>3 DEF RevokedClosed
  <1>4. ASSUME NEW p \in Plan, NEW extra \in ExtraDays, Apply(p, extra),
               NEW r \in Row, sub[r].status = "cancelled"
        PROVE  sub'[r].status = "cancelled"
    <2> DEFINE t == Normalize(sub, now)
    <2>1. t = [q \in Row |-> t[q]] /\ t[r].status = "cancelled"
      BY <1>4, ClosedIsKept DEF Normalize
    <2>2. r \notin Scheduled(t) /\ \A c \in Row : IsCurrent(t, c, now) => c # r
      BY <2>1 DEF Scheduled, With, IsCurrent, Candidates
    <2>3. \A n \in Row : IsNew(t, n) => n # r
      BY <2>1 DEF IsNew
    <2>4. CASE Open(p, extra)
      BY <2>1, <2>3, <2>4 DEF Open
    <2>5. CASE Renew(p, extra)
      BY <2>1, <2>2, <2>5 DEF Renew
    <2>6. CASE SwitchScheduled(p, extra)
      BY <2>1, <2>3, <2>6 DEF SwitchScheduled
    <2>7. CASE SwitchNow(p, extra)
      <3>1. PICK c \in Row, n \in Row :
               /\ c # r /\ n # r
               /\ \/ CancelQueue(Switched(t, c, n, p, Days(p, extra)))
                  \/ RebaseQueue(Switched(t, c, n, p, Days(p, extra)), now + Days(p, extra))
        BY <2>2, <2>3, <2>7 DEF SwitchNow
      <3> DEFINE w == Switched(t, c, n, p, Days(p, extra))
      <3>2. w[r] = t[r]
        BY <2>1, <3>1 DEF Switched
      <3>3. r \notin Scheduled(w)
        BY <2>1, <3>2 DEF Scheduled, With
      <3> HIDE DEF t, w
      <3>4. sub'[r] = w[r]
        BY <3>1, <3>3 DEF w, CancelQueue, RebaseQueue
      <3> QED BY <2>1, <3>2, <3>4
    <2> QED BY <1>4, <2>4, <2>5, <2>6, <2>7 DEF Apply
  <1>5. ASSUME NEW at \in ClockRead, Refresh(at) \/ ReadRefresh(at) \/ Migrate(at),
               NEW r \in Row, sub[r].status = "cancelled"
        PROVE  sub'[r].status = "cancelled"
    <2> DEFINE t == Expire(sub, at)
    <2>1. t = [q \in Row |-> t[q]] /\ t[r].status = "cancelled"
      BY <1>5, ClosedIsKept DEF Expire
    <2>2. \A d \in Due(t, at) : d # r
      BY <2>1 DEF Due, Scheduled, With
    <2>3. CASE Migrate(at)
      BY <1>5, <2>3, ClosedIsKept DEF Migrate
    <2>4. CASE RefreshRows(at)
      <3>1. sub' = t \/ \E d \in Due(t, at) : sub' = [t EXCEPT ![d].status = "active"]
        BY <2>4 DEF RefreshRows
      <3> HIDE DEF t
      <3> QED BY <2>1, <2>2, <3>1
    <2> QED BY <1>5, <2>3, <2>4 DEF Refresh, ReadRefresh
  <1>6. ASSUME NEW p \in Plan, NEW extra \in ExtraDays, Apply(p, extra) PROVE UNCHANGED revoked
    BY <1>6 DEF Apply, Open, Renew, SwitchNow, SwitchScheduled
  <1>7. ASSUME NEW at \in ClockRead, Refresh(at) \/ ReadRefresh(at) \/ Migrate(at)
        PROVE  UNCHANGED revoked
    BY <1>7 DEF Refresh, ReadRefresh, Migrate
  <1>8. CASE ReadSelect \/ Tick \/ UNCHANGED vars
    BY <1>8 DEF ReadSelect, Tick, vars, RevokedClosed
  <1> QED BY <1>2, <1>3, <1>4, <1>5, <1>6, <1>7, <1>8 DEF Next

\* open begins the rights at this instant.
LEMMA OpenBegins ==
    ASSUME IInv, NEW p \in Plan, NEW extra \in ExtraDays, Open(p, extra)
    PROVE  Promise!Begin(Days(p, extra))
  <1> DEFINE t == Normalize(sub, now)
             d == Days(p, extra)
  <1>1. Table(t) /\ With(t, "active") = Candidates(t, now)
    BY Prepared
  <1>2. d \in Nat /\ d > 0
    BY DaysPositive
  <1>3. Live(t) = {} /\ now + d <= Horizon
    BY <1>1 DEF Open, Live
  <1>4. PICK r \in Row : sub' = [t EXCEPT ![r] = NewRow("active", p, now, d)]
    BY DEF Open
  <1>5. Rights = {}
    BY <1>3, PreparedWorth DEF Worth
  <1>6. UNCHANGED now
    BY DEF Open
  <1>7. sub' \in [Row -> SubRow]
    BY OpenStep DEF IInv, TypeOK
  <1> HIDE DEF t, d
  <1>8. /\ sub'[r].status = "active" /\ sub'[r].start = now /\ sub'[r].expire = now + d
        /\ \A q \in Row \ {r} : sub'[q] = t[q]
    BY <1>1, <1>4 DEF Table, NewRow
  <1>9. Live(sub') = {r}
    BY <1>3, <1>8, LiveRows, LiveIsRow
  <1>10. Worth(sub', now) = now..(now + d)
    BY <1>2, <1>3, <1>8, <1>9, PreparedWorth DEF Worth, Covers, Time
  <1>11. Rights' = now..(now + d)
    BY <1>6, <1>10 DEF Rights, Worth
  <1> QED BY <1>3, <1>5, <1>11, SellsDays DEF Promise!Begin, Apply, d

\* renew puts its days in at the end of the current row.
LEMMA RenewInserts ==
    ASSUME IInv, NEW p \in Plan, NEW extra \in ExtraDays, Renew(p, extra)
    PROVE  Promise!Insert(Days(p, extra))
  <1> DEFINE t == Normalize(sub, now)
             d == Days(p, extra)
  <1>1. Table(t) /\ \A r \in Live(t) : now <= t[r].expire
    BY Prepared
  <1>a. With(t, "active") = Candidates(t, now)
    BY Prepared
  <1>2. d \in Nat /\ d > 0
    BY DaysPositive
  <1>3. PICK c \in Row :
             /\ t[c].status = "active"
             /\ Live(t) = Scheduled(t) \cup {c} /\ Live(sub') = Live(t)
             /\ sub' \in [Row -> SubRow]
             /\ sub'[c].start = t[c].start
             /\ sub'[c].expire = t[c].expire + d
             /\ \A r \in Scheduled(t) : /\ r \in Row /\ r # c
                                        /\ sub'[r].start = t[r].start + d
                                        /\ sub'[r].expire = t[r].expire + d
    BY RenewedTable
  <1>4. Rights = Worth(t, now) /\ now \in Time /\ now \in Int /\ Horizon \in Int /\ Time \subseteq Int
    BY PreparedWorth
  <1>5. UNCHANGED now
    BY DEF Renew
  <1>6. Rights' = Worth(sub', now)
    BY <1>5 DEF Rights, Worth
  <1>b. t[c].start <= now
    BY <1>3, <1>a DEF Candidates, Covers, With
  <1> HIDE DEF t, d
  <1>7. t \in [Row -> SubRow] /\ Sound(t)
    BY <1>1 DEF Table
  <1>8. \A r \in Live(t) : /\ r \in Row
                           /\ t[r].start \in Int /\ t[r].expire \in Int
                           /\ 0 <= t[r].start /\ t[r].expire <= Horizon
                           /\ sub'[r].expire <= Horizon
                           /\ t[r].start < t[r].expire
    BY <1>3, <1>7, Instants, LiveIsRow DEF Sound
  <1> DEFINE cut == t[c].expire
  <1>9. \A r \in Scheduled(t) : cut <= t[r].start
    <2> SUFFICES ASSUME NEW r \in Scheduled(t) PROVE cut <= t[r].start
      OBVIOUS
    <2>1. r \in Live(t) /\ c \in Live(t) /\ r # c
      BY <1>3
    <2>2. Follows(t, c, r) \/ Follows(t, r, c)
      BY <2>1, <1>7 DEF Sound
    <2> QED BY <2>2, <1>3 DEF Follows
  <1>10. /\ c \in Live(t) /\ cut \in Int /\ now <= cut /\ cut <= Horizon
         /\ cut + d <= Horizon
    BY <1>1, <1>3, <1>8
  <1>11. \A x \in Int : now <= x /\ x <= cut => x \in Rights
    BY <1>4, <1>7, <1>8, <1>10, <1>b, RowWorth
  \* What the current row covers now, and what the queue covers d later.
  <1>12. ASSUME NEW x \in Rights'
         PROVE  /\ x \in Int /\ now <= x
                /\ x <= cut + d \/ (x - d \in Rights /\ cut <= x - d)
    <2>1. x \in Time /\ now <= x
      BY <1>6 DEF Worth
    <2>2. PICK r \in Live(sub') : sub'[r].start <= x /\ x <= sub'[r].expire
      BY <1>6 DEF Worth, Covers
    <2>3. CASE r = c
      BY <2>1, <2>2, <2>3, <1>3, <1>4
    <2>4. CASE r \in Scheduled(t)
      <3>1. r \in Live(t) /\ t[r].start + d <= x /\ x <= t[r].expire + d
        BY <2>2, <2>4, <1>3
      <3>2. t[r].start <= x - d /\ x - d <= t[r].expire /\ x - d \in Int
        BY <3>1, <2>1, <1>2, <1>4, <1>8
      <3>3. cut <= t[r].start
        BY <2>4, <1>9
      <3>4. cut <= x - d
        BY <3>1, <3>2, <3>3, <1>8, <1>10
      <3>5. now <= x - d
        BY <3>2, <3>4, <1>4, <1>10
      <3>6. x - d \in Rights
        BY <3>1, <3>2, <3>5, <1>4, <1>7, RowWorth
      <3> QED BY <2>1, <3>4, <3>6, <1>4
    <2> QED BY <2>2, <2>3, <2>4, <1>3
  <1>13. ASSUME NEW x \in Int, now <= x, x <= cut + d
         PROVE  x \in Rights'
    BY <1>3, <1>4, <1>6, <1>8, <1>10, <1>13, <1>b, RowWorth
  <1>14. ASSUME NEW y \in Rights, cut <= y
         PROVE  y + d \in Rights'
    <2>1. y \in Int /\ now <= y
      BY <1>4 DEF Worth
    <2>2. PICK r \in Live(t) : t[r].start <= y /\ y <= t[r].expire
      BY <1>4 DEF Worth, Covers
    <2>3. CASE r = c
      BY <2>1, <2>2, <2>3, <1>2, <1>4, <1>8, <1>10, <1>13
    <2>4. CASE r \in Scheduled(t)
      <3>1. sub'[r].start <= y + d /\ y + d <= sub'[r].expire /\ y + d \in Int /\ now <= y + d
        BY <2>1, <2>2, <2>4, <1>2, <1>3, <1>4, <1>8
      <3> QED BY <3>1, <1>3, <1>4, <1>6, RowWorth
    <2> QED BY <2>2, <2>3, <2>4, <1>3
  <1>15. \A y \in Rights : y \in Int /\ now <= y
    BY <1>4 DEF Worth
  <1>16. Rights' \subseteq Time
    BY <1>6 DEF Worth
  <1> HIDE DEF cut
  <1>17. Rights' = {x \in Rights : x <= cut} \cup cut..(cut + d)
                       \cup {x + d : x \in {y \in Rights : cut <= y}}
    <2>1. ASSUME NEW x \in Rights'
          PROVE  \/ x \in {y \in Rights : y <= cut} \/ x \in cut..(cut + d)
                 \/ x \in {z + d : z \in {y \in Rights : cut <= y}}
      <3>1. CASE x <= cut
        BY <3>1, <1>11, <1>12
      <3>2. CASE cut <= x /\ x <= cut + d
        BY <3>2, <1>2, <1>10, <1>12
      <3>3. CASE x - d \in Rights /\ cut <= x - d
        <4>1. x = (x - d) + d
          BY <1>2, <1>12
        <4> QED BY <3>3, <4>1
      <3> QED BY <3>1, <3>2, <3>3, <1>2, <1>10, <1>12
    <2>2. \A x \in Rights : x <= cut => x \in Rights'
      BY <1>2, <1>10, <1>13, <1>15
    <2>3. \A x \in cut..(cut + d) : x \in Rights'
      BY <1>2, <1>4, <1>10, <1>13
    <2>4. \A y \in Rights : cut <= y => y + d \in Rights'
      BY <1>14
    <2> QED BY <2>1, <2>2, <2>3, <2>4
  <1>18. cut \in Rights
    BY <1>10, <1>11
  <1>19. \E z \in Rights :
            /\ z + d <= Horizon
            /\ Rights' = {x \in Rights : x <= z} \cup z..(z + d)
                             \cup {x + d : x \in {y \in Rights : z <= y}}
    BY <1>10, <1>17, <1>18
  <1> QED BY <1>5, <1>16, <1>19, SellsDays DEF Promise!Insert, Promise!Time, Apply, Time, d

\* switch_scheduled puts its days in at the last instant of all.
LEMMA SwitchScheduledInserts ==
    ASSUME IInv, NEW p \in Plan, NEW extra \in ExtraDays, SwitchScheduled(p, extra)
    PROVE  Promise!Insert(Days(p, extra))
  <1> DEFINE t == Normalize(sub, now)
             d == Days(p, extra)
  <1>1. Table(t)
    BY Prepared
  <1>2. d \in Nat /\ d > 0
    BY DaysPositive
  <1>3. PICK r \in Row, cut \in Time :
             /\ sub' \in [Row -> SubRow]
             /\ t[r].status = "absent"
             /\ sub'[r].status = "scheduled" /\ sub'[r].start = cut /\ sub'[r].expire = cut + d
             /\ \A q \in Row \ {r} : sub'[q] = t[q]
             /\ now <= cut
             /\ \A q \in Live(t) : t[q].expire <= cut
             /\ \E q \in Live(t) : t[q].expire = cut
    BY QueuedBehind
  <1>4. Rights = Worth(t, now) /\ now \in Time /\ now \in Int /\ Horizon \in Int /\ Time \subseteq Int
    BY PreparedWorth
  <1>5. UNCHANGED now
    BY DEF SwitchScheduled
  <1>6. Rights' = Worth(sub', now)
    BY <1>5 DEF Rights, Worth
  <1> HIDE DEF t, d
  <1>7. t \in [Row -> SubRow] /\ Sound(t)
    BY <1>1 DEF Table
  <1>8. \A q \in Live(t) : /\ q \in Row /\ q # r /\ q \in Live(sub') /\ sub'[q] = t[q]
                           /\ t[q].start \in Int /\ t[q].expire \in Int
    BY <1>3, <1>7, Instants, LiveIsRow, LiveRows
  <1>9. r \in Live(sub') /\ \A q \in Live(sub') : q # r => q \in Live(t)
    BY <1>3, LiveRows, LiveIsRow
  <1>10. cut \in Int /\ cut + d <= Horizon
    BY <1>3, <1>4, Instants
  <1>11. cut \in Rights
    <2>1. PICK q \in Live(t) : t[q].expire = cut
      BY <1>3
    <2>2. t[q].start < t[q].expire
      BY <1>7 DEF Sound
    <2> QED BY <2>1, <2>2, <1>3, <1>4, <1>7, <1>8, <1>10, RowWorth
  <1>12. ASSUME NEW x \in Rights
         PROVE  x \in Int /\ x <= cut /\ x \in Rights'
    <2>1. x \in Time /\ now <= x
      BY <1>4 DEF Worth
    <2>2. PICK q \in Live(t) : t[q].start <= x /\ x <= t[q].expire
      BY <1>4 DEF Worth, Covers
    <2>3. x <= cut
      BY <2>1, <2>2, <1>3, <1>4, <1>8, <1>10
    <2> QED BY <2>1, <2>2, <2>3, <1>3, <1>4, <1>6, <1>8, RowWorth
  <1>13. ASSUME NEW x \in Rights'
         PROVE  x \in Rights \/ x \in cut..(cut + d)
    <2>1. x \in Time /\ now <= x
      BY <1>6 DEF Worth
    <2>2. PICK q \in Live(sub') : sub'[q].start <= x /\ x <= sub'[q].expire
      BY <1>6 DEF Worth, Covers
    <2>3. CASE q = r
      BY <2>1, <2>2, <2>3, <1>2, <1>3, <1>4, <1>10
    <2>4. CASE q # r
      BY <2>1, <2>2, <2>4, <1>4, <1>7, <1>8, <1>9, RowWorth
    <2> QED BY <2>3, <2>4
  <1>14. \A x \in cut..(cut + d) : x \in Rights'
    BY <1>2, <1>3, <1>4, <1>6, <1>9, <1>10, RowWorth
  <1>15. Rights' \subseteq Time
    BY <1>6 DEF Worth
  <1>16. Rights' = {x \in Rights : x <= cut} \cup cut..(cut + d)
                       \cup {x + d : x \in {y \in Rights : cut <= y}}
    <2>1. \A y \in Rights : cut <= y => y + d \in cut..(cut + d)
      BY <1>2, <1>10, <1>12
    <2> QED BY <2>1, <1>12, <1>13, <1>14
  <1>17. \E z \in Rights :
            /\ z + d <= Horizon
            /\ Rights' = {x \in Rights : x <= z} \cup z..(z + d)
                             \cup {x + d : x \in {y \in Rights : z <= y}}
    BY <1>10, <1>11, <1>16
  <1> QED BY <1>5, <1>15, <1>17, SellsDays DEF Promise!Insert, Promise!Time, Apply, Time, d

\* A rebase moves a queued row by what was bought at most: the chain starts behind the
\* new row, and what is in front of a row was in front of it before.
LEMMA RebasedSoon ==
    ASSUME NEW t, t \in [Row -> SubRow], QueueSound(t), NEW base \in Int, NEW d \in Int,
           base + d \in Time, \A q \in Scheduled(t) : base <= t[q].start,
           NEW from \in [Scheduled(t) -> (base + d)..Horizon], Chain(t, from, base + d),
           NEW r \in Scheduled(t)
    PROVE  from[r] <= t[r].start + d
  <1> DEFINE T == {t[x].start : x \in {z \in Scheduled(t) : ~(from[z] <= t[z].start + d)}}
  <1>1. Horizon \in Int /\ \A x \in Scheduled(t) : x \in Row
    BY HorizonAssumption DEF Scheduled, With
  <1>2. \A x \in Scheduled(t) : /\ t[x].start \in Int /\ 0 <= t[x].start
                                /\ t[x].expire \in Int /\ from[x] \in Int
    <2> SUFFICES ASSUME NEW x \in Scheduled(t)
                 PROVE  /\ t[x].start \in Int /\ 0 <= t[x].start
                        /\ t[x].expire \in Int /\ from[x] \in Int
      OBVIOUS
    <2>1. t[x].start \in Int /\ 0 <= t[x].start /\ t[x].expire \in Int
      BY <1>1, Instants
    <2>2. from[x] \in (base + d)..Horizon
      OBVIOUS
    <2> QED BY <2>1, <2>2, <1>1
  <1>3. SUFFICES ASSUME ~(from[r] <= t[r].start + d) PROVE FALSE
    OBVIOUS
  <1>4. T \in SUBSET Nat /\ T # {}
    BY <1>2, <1>3
  <1>5. PICK n \in T : \A m \in T : n <= m
    BY <1>4, LeastNumber
  <1>6. PICK x \in Scheduled(t) : ~(from[x] <= t[x].start + d) /\ t[x].start = n
    BY <1>5
  <1>7. CASE from[x] = base + d
    BY <1>2, <1>6, <1>7
  <1>8. CASE \E p \in Before(t, x) : from[x] = from[p] + Length(t, p)
    <2>1. PICK p \in Before(t, x) : from[x] = from[p] + Length(t, p)
      BY <1>8
    <2>2. p \in Scheduled(t) /\ Earlier(t, p, x)
      BY <2>1 DEF Before
    <2>3. p # x
      BY <2>2, <1>1, <1>2, RowAssumption DEF Earlier
    <2>4. t[p].start < t[x].start
      BY <2>1, <2>2, <2>3, QueueOrder
    <2>5. t[p].expire <= t[x].start
      <3>1. t[p].expire <= t[x].start \/ t[x].expire <= t[p].start
        BY <2>2, <2>3 DEF QueueSound, Follows
      <3>2. t[x].start < t[x].expire
        BY DEF QueueSound
      <3> QED BY <3>1, <3>2, <2>2, <2>4, <1>2
    <2>6. ~(from[p] <= t[p].start + d)
      BY <2>1, <2>2, <2>5, <1>2, <1>6 DEF Length
    <2>7. n <= t[p].start
      BY <2>2, <2>6, <1>5
    <2> QED BY <2>2, <2>4, <2>7, <1>2, <1>6
  <1> QED BY <1>7, <1>8 DEF Chain

\* What waits after switch_now waited before, and ends at most as much later as was
\* bought.
LEMMA SwitchedSoon ==
    ASSUME IInv, NEW p \in Plan, NEW extra \in ExtraDays, SwitchNow(p, extra),
           NEW d, d = Days(p, extra), NEW t, t = Normalize(sub, now)
    PROVE  /\ \E c \in Live(t) : t[c].start <= now /\ now <= t[c].expire
           /\ \A q \in Row : sub'[q].status = "scheduled"
                 => q \in Live(t) /\ sub'[q].expire <= t[q].expire + d
  <1>1. d \in Nat /\ d > 0
    BY DaysPositive
  <1>2. PICK c \in Row, r \in Row :
          /\ IsCurrent(t, c, now) /\ IsNew(t, r) /\ now + d <= Horizon
          /\ CancelQueue(Switched(t, c, r, p, d)) \/ RebaseQueue(Switched(t, c, r, p, d), now + d)
    BY DEF SwitchNow
  <1>3. Table(t) /\ With(t, "active") = Candidates(t, now)
    BY Prepared
  <1>4. c \in Live(t) /\ t[c].status = "active" /\ t[c].start <= now /\ now <= t[c].expire
    BY <1>2 DEF IsCurrent, Candidates, Covers, Live, With
  <1> DEFINE s == Switched(t, c, r, p, d)
  <1>5. /\ s \in [Row -> SubRow]
        /\ \A q \in Scheduled(s) : q \in Scheduled(t) /\ s[q] = t[q]
        /\ QueueSound(s)
    BY <1>1, <1>2, SwitchedTable
  <1>6. CancelQueue(s) \/ RebaseQueue(s, now + d)
    BY <1>2
  <1> HIDE DEF s
  <1>7. now \in Int /\ 0 <= now /\ Horizon \in Int /\ now + d \in Time
    BY <1>1, <1>2, HorizonAssumption DEF IInv, TypeOK, Time
  <1>8. \A q \in Scheduled(s) : q \in Row /\ s[q].status = "scheduled"
    BY DEF Scheduled, With
  <1>9. \A q \in Scheduled(s) : q \in Live(t) /\ now <= s[q].start
    <2> SUFFICES ASSUME NEW q \in Scheduled(s) PROVE q \in Live(t) /\ now <= s[q].start
      OBVIOUS
    <2>1. q \in Live(t) /\ q # c /\ s[q] = t[q] /\ t[q].status = "scheduled"
      BY <1>4, <1>5, <1>8 DEF Live
    <2>2. Follows(t, c, q)
      <3>1. Follows(t, c, q) \/ Follows(t, q, c)
        BY <1>3, <1>4, <2>1 DEF Table, Sound
      <3> QED BY <3>1, <1>4 DEF Follows
    <2>3. t[c].expire \in Int /\ t[q].start \in Int
      BY <1>3, <1>4, <2>1, Instants, LiveIsRow DEF Table
    <2> QED BY <2>1, <2>2, <2>3, <1>4, <1>7 DEF Follows
  <1>10. CASE CancelQueue(s)
    <2>1. ASSUME NEW q \in Row PROVE sub'[q].status # "scheduled"
      <3>1. CASE q \in Scheduled(s)
        <4>1. sub'[q] = Marked(s[q], "cancelled") /\ s[q] \in SubRow
          BY <3>1, <1>5, <1>8, <1>10 DEF CancelQueue, Marked
        <4> QED BY <4>1, MarkedRow DEF Status
      <3>2. CASE q \notin Scheduled(s)
        <4>1. sub'[q] = s[q] /\ s[q].status # "scheduled"
          BY <3>2, <1>10 DEF CancelQueue, Scheduled, With
        <4> QED BY <4>1
      <3> QED BY <3>1, <3>2
    <2> QED BY <2>1, <1>4
  <1>11. CASE RebaseQueue(s, now + d)
    <2>1. PICK from \in [Scheduled(s) -> (now + d)..Horizon] :
              /\ Chain(s, from, now + d)
              /\ sub' = [q \in Row |->
                   IF q \in Scheduled(s)
                   THEN [s[q] EXCEPT !.start = from[q], !.expire = from[q] + Length(s, q)]
                   ELSE s[q]]
      BY <1>11 DEF RebaseQueue
    <2>2. ASSUME NEW q \in Row, sub'[q].status = "scheduled"
          PROVE  q \in Scheduled(s)
      <3>1. ASSUME q \notin Scheduled(s) PROVE FALSE
        <4>1. sub'[q] = s[q] /\ s[q].status # "scheduled"
          BY <3>1, <2>1 DEF Scheduled, With
        <4> QED BY <4>1, <2>2
      <3> QED BY <3>1
    <2>3. ASSUME NEW q \in Scheduled(s)
          PROVE  q \in Live(t) /\ sub'[q].expire <= t[q].expire + d
      <3>1. from[q] <= s[q].start + d
        <4>1. Chain(s, from, now + d) /\ from \in [Scheduled(s) -> (now + d)..Horizon]
          BY <2>1
        <4>2. s \in [Row -> SubRow] /\ QueueSound(s) /\ \A z \in Scheduled(s) : now <= s[z].start
          BY <1>5, <1>9
        <4>3. now \in Int /\ d \in Int /\ now + d \in Time
          BY <1>1, <1>7
        <4> QED BY <4>1, <4>2, <4>3, RebasedSoon
      <3>2. sub'[q].expire = from[q] + Length(s, q)
        BY <2>1, <1>5, <1>8 DEF SubRow
      <3>3. s[q] = t[q] /\ s[q].start \in Int /\ s[q].expire \in Int
        BY <1>5, <1>8, Instants
      <3>4. from[q] \in Int
        <4>1. from[q] \in (now + d)..Horizon
          OBVIOUS
        <4> QED BY <4>1, <1>1, <1>7
      <3> QED BY <3>1, <3>2, <3>3, <3>4, <1>1, <1>9 DEF Length
    <2> QED BY <2>2, <2>3, <1>4
  <1> QED BY <1>6, <1>10, <1>11

\* Of finitely many ends there is a last one.
LEMMA LastEnd ==
    ASSUME NEW T \in SUBSET Time, T # {}
    PROVE  \E n \in T : \A m \in T : m <= n
  <1> DEFINE U == {Horizon - m : m \in T}
  <1>1. Horizon \in Nat /\ \A m \in T : m \in 0..Horizon
    BY HorizonAssumption DEF Time
  <1>2. U \in SUBSET Nat /\ U # {}
    BY <1>1
  <1>3. PICK k \in U : \A j \in U : k <= j
    BY <1>2, LeastNumber
  <1>4. PICK n \in T : k = Horizon - n
    BY <1>3
  <1>5. ASSUME NEW m \in T PROVE m <= n
    BY <1>1, <1>3, <1>4
  <1> QED BY <1>5

\* Rows of which each begins by the instant at, or where another one ends, cover every
\* instant from at to the last end.
LEMMA ChainCovers ==
    ASSUME NEW t \in [Row -> SubRow], NEW at \in Time, NEW m \in Live(t),
           \A q \in Live(t) : t[q].start < t[q].expire,
           \A q \in Live(t) : t[q].start <= at \/ \E o \in Live(t) : t[o].expire = t[q].start,
           NEW x \in Int, at <= x, x <= t[m].expire
    PROVE  x \in Worth(t, at)
  <1> DEFINE T == {t[q].start : q \in {o \in Live(t) : x <= t[o].expire}}
  <1>1. \A q \in Live(t) : t[q].start \in Int /\ 0 <= t[q].start /\ t[q].expire \in Int
    BY Instants, LiveIsRow
  <1>2. T \in SUBSET Nat /\ T # {}
    <2>1. t[m].start \in T
      OBVIOUS
    <2>2. \A k \in T : k \in Nat
      BY <1>1
    <2> QED BY <2>1, <2>2
  <1>3. PICK n \in T : \A k \in T : n <= k
    BY <1>2, LeastNumber
  <1>4. PICK q \in Live(t) : x <= t[q].expire /\ t[q].start = n
    BY <1>3
  <1>5. at \in Int
    BY HorizonAssumption DEF Time
  <1>6. t[q].start <= x
    <2> SUFFICES ASSUME ~(t[q].start <= x) PROVE FALSE
      OBVIOUS
    <2>1. ~(t[q].start <= at)
      BY <1>1, <1>5
    <2>2. PICK o \in Live(t) : t[o].expire = t[q].start
      BY <2>1
    <2>3. x <= t[o].expire /\ t[o].start < t[q].start
      BY <2>2, <1>1
    <2>4. n <= t[o].start
      BY <2>3, <1>3
    <2> QED BY <2>2, <2>3, <2>4, <1>1, <1>4
  <1> QED BY <1>4, <1>6, RowWorth

\* switch_now leaves rights without a break, and no more of them than there were and
\* were bought.
LEMMA SwitchNowSwitches ==
    ASSUME IInv, NEW p \in Plan, NEW extra \in ExtraDays, SwitchNow(p, extra)
    PROVE  Promise!Switch(Days(p, extra))
  <1> DEFINE t == Normalize(sub, now)
             d == Days(p, extra)
  <1>1. Table(t)
    BY Prepared
  <1>2. d \in Nat /\ d > 0
    BY DaysPositive
  <1>3. /\ \E c \in Live(t) : t[c].start <= now /\ now <= t[c].expire
        /\ \A q \in Row : sub'[q].status = "scheduled"
              => q \in Live(t) /\ sub'[q].expire <= t[q].expire + d
    BY SwitchedSoon
  <1>4. PICK r \in Row :
             /\ sub' \in [Row -> SubRow]
             /\ now + d <= Horizon
             /\ sub'[r].status = "active" /\ sub'[r].start = now /\ sub'[r].expire = now + d
             /\ \A q \in Live(sub') \ {r} : /\ sub'[q].status = "scheduled"
                                            /\ sub'[q].start < sub'[q].expire
                                            /\ now + d <= sub'[q].start
             /\ \A q \in Live(sub') \ {r} : \E o \in Live(sub') : sub'[o].expire = sub'[q].start
    BY SwitchedTo
  <1>5. Rights = Worth(t, now) /\ now \in Time /\ now \in Int /\ Horizon \in Int /\ Time \subseteq Int
    BY PreparedWorth
  <1>6. UNCHANGED now
    BY DEF SwitchNow
  <1>7. Rights' = Worth(sub', now)
    BY <1>6 DEF Rights, Worth
  <1> HIDE DEF t, d
  <1>8. t \in [Row -> SubRow]
    BY <1>1 DEF Table
  <1>9. now \in Rights
    BY <1>3, <1>5, <1>8, RowWorth
  <1>10. r \in Live(sub')
    BY <1>4, LiveRows
  <1>11. \A q \in Live(sub') : sub'[q].expire \in Time /\ sub'[q].start < sub'[q].expire
    BY <1>2, <1>4, <1>5, Instants, LiveIsRow DEF Time
  <1>12. PICK m \in Live(sub') : \A q \in Live(sub') : sub'[q].expire <= sub'[m].expire
    <2> DEFINE T == {sub'[q].expire : q \in Live(sub')}
    <2>1. T \in SUBSET Time /\ T # {}
      BY <1>10, <1>11
    <2>2. PICK n \in T : \A k \in T : k <= n
      BY <2>1, LastEnd
    <2> QED BY <2>2
  <1> DEFINE end == sub'[m].expire
  <1>13. end \in Time /\ end \in Int /\ now + d <= end
    BY <1>4, <1>5, <1>10, <1>11, <1>12
  <1>14. \E y \in Rights : end <= y + d
    <2>1. CASE m = r
      BY <2>1, <1>2, <1>4, <1>5, <1>9
    <2>2. CASE m # r
      <3>1. m \in Live(t) /\ end <= t[m].expire + d
        BY <2>2, <1>3, <1>4, LiveIsRow
      <3>2. t[m].start < t[m].expire /\ t[m].expire \in Int /\ t[m].start \in Int
        BY <3>1, <1>1, <1>8, Instants, LiveIsRow DEF Table, Sound
      <3>3. now <= t[m].expire
        BY <3>1, Prepared DEF t
      <3>4. t[m].expire \in Rights
        BY <3>1, <3>2, <3>3, <1>5, <1>8, RowWorth
      <3> QED BY <3>1, <3>4
    <2> QED BY <2>1, <2>2
  <1>15. \A x \in now..end : x \in Rights'
    <2>1. \A q \in Live(sub') : sub'[q].start <= now \/ \E o \in Live(sub') : sub'[o].expire = sub'[q].start
      BY <1>4, <1>5
    <2>2. \A q \in Live(sub') : sub'[q].start < sub'[q].expire
      BY <1>11
    <2> QED BY <2>1, <2>2, <1>4, <1>5, <1>7, <1>13, ChainCovers
  <1>16. ASSUME NEW x \in Rights' PROVE x \in now..end
    <2>1. x \in Time /\ now <= x
      BY <1>7 DEF Worth
    <2>2. PICK q \in Live(sub') : x <= sub'[q].expire
      BY <1>7 DEF Worth, Covers
    <2>3. sub'[q].expire \in Int /\ sub'[q].expire <= end
      BY <1>5, <1>11, <1>12
    <2> QED BY <2>1, <2>2, <2>3, <1>5, <1>13
  <1> HIDE DEF end
  <1>17. Rights' = now..end
    BY <1>15, <1>16
  <1>18. \E y \in Rights, e \in Time : now + d <= e /\ e <= y + d /\ Rights' = now..e
    BY <1>13, <1>14, <1>17
  <1> QED BY <1>9, <1>18, SellsDays DEF Promise!Switch, Promise!Time, Apply, Time, d

\* The cancellation of a queued row takes an interval: its ends stay if a neighbour
\* covers them.
LEMMA CancelRevokes ==
    ASSUME IInv, RevokedClosed, NEW r \in Row, CancelScheduled(r)
    PROVE  Promise!Revoke(r)
  <1>1. sub \in [Row -> SubRow] /\ Sound(sub) /\ r \in Live(sub) /\ UNCHANGED now
    BY DEF IInv, TypeOK, CancelScheduled, Live
  <1>2. sub' = [sub EXCEPT ![r] = Marked(sub[r], "cancelled")]
    BY DEF CancelScheduled, Marked
  <1>3. sub'[r].status = "cancelled" /\ \A q \in Row \ {r} : sub'[q] = sub[q]
    BY <1>1, <1>2, MarkedRow DEF Status
  <1>4. /\ \A q \in Live(sub') : q \in Live(sub) /\ q # r /\ sub'[q] = sub[q]
        /\ \A q \in Live(sub) : q # r => q \in Live(sub') /\ sub'[q] = sub[q]
    BY <1>3, LiveRows, LiveIsRow
  <1>5. /\ Rights = Worth(sub, now) /\ now \in Time /\ now \in Int /\ Horizon \in Int
        /\ Time \subseteq Int
    BY PreparedWorth
  <1>6. Rights' = Worth(sub', now)
    BY <1>1 DEF Rights, Worth
  <1>7. \A q \in Live(sub) : /\ sub[q].start \in Int /\ sub[q].expire \in Int
                             /\ sub[q].start < sub[q].expire
                             /\ 0 <= sub[q].start /\ sub[q].expire <= Horizon
    BY <1>1, Instants, LiveIsRow DEF Sound
  <1> DEFINE s == sub[r].start
             e == sub[r].expire
             Shared(x) == \E q \in Live(sub) : q # r /\ Covers(sub, q, x)
  <1>8. s \in Int /\ e \in Int /\ s < e /\ 0 <= s /\ e <= Horizon
    BY <1>1, <1>7
  <1>9. ASSUME NEW x \in Int, s < x, x < e PROVE ~Shared(x)
    <2>1. ASSUME NEW q \in Live(sub), q # r, Covers(sub, q, x) PROVE FALSE
      <3>1. sub[q].expire <= s \/ e <= sub[q].start
        BY <1>1, <2>1 DEF Sound, Follows
      <3>2. sub[q].start <= x /\ x <= sub[q].expire
        BY <2>1 DEF Covers
      <3>3. sub[q].start \in Int /\ sub[q].expire \in Int
        BY <1>7
      <3> HIDE DEF s, e
      <3> QED BY <3>1, <3>2, <3>3, <1>8, <1>9
    <2> QED BY <2>1
  <1>10. \A x \in Rights' : x \in Rights /\ Shared(x)
    BY <1>4, <1>5, <1>6 DEF Worth, Covers
  <1>11. \A x \in Rights : Shared(x) => x \in Rights'
    BY <1>4, <1>5, <1>6 DEF Worth, Covers
  <1>12. ASSUME NEW x \in Rights, ~Shared(x) PROVE x \in s..e
    <2>1. PICK q \in Live(sub) : Covers(sub, q, x)
      BY <1>5 DEF Worth
    <2>2. q = r
      BY <2>1, <1>12
    <2>3. x \in Int
      BY <1>5 DEF Worth
    <2> QED BY <2>1, <2>2, <2>3, <1>8 DEF Covers
  <1> DEFINE from == IF Shared(s) THEN s + 1 ELSE s
             to == IF Shared(e) THEN e - 1 ELSE e
  <1> HIDE DEF s, e, Shared
  <1>13. from \in 0..Horizon /\ to \in 0..Horizon /\ from \in Int /\ to \in Int
    <2>1. Horizon \in Int
      BY <1>5
    <2> QED BY <2>1, <1>8
  <1>14. ASSUME NEW x \in Int PROVE x \in from..to <=> x \in s..e /\ ~Shared(x)
    <2>1. CASE x = s
      BY <2>1, <1>8
    <2>2. CASE x = e
      BY <2>2, <1>8
    <2>3. CASE s < x /\ x < e
      BY <2>3, <1>8, <1>9
    <2>4. CASE x < s \/ e < x
      BY <2>4, <1>8
    <2> QED BY <2>1, <2>2, <2>3, <2>4, <1>8
  <1> HIDE DEF from, to
  <1>15. Rights' = Rights \ (from..to)
    <2>1. \A x \in Rights : x \in Int
      BY <1>5 DEF Worth
    <2>2. \A x \in Rights : x \in from..to <=> ~Shared(x)
      BY <2>1, <1>12, <1>14
    <2> QED BY <2>2, <1>10, <1>11
  <1>16. bought[r] \in Int /\ to - from <= bought[r]
    <2>1. e - s = bought[r]
      BY <1>1 DEF IInv, Paid, Length, s, e
    <2>2. s <= from /\ to <= e
      BY <1>8 DEF from, to
    <2> QED BY <2>1, <2>2, <1>8, <1>13
  <1>17. r \notin revoked
    BY DEF RevokedClosed, CancelScheduled, Scheduled, With
  <1>18. revoked' = revoked \cup {r} /\ UNCHANGED <<now, bought>>
    BY DEF CancelScheduled
  <1>19. from \in Promise!Time /\ to \in Promise!Time
    BY <1>13 DEF Promise!Time
  <1> QED BY <1>15, <1>16, <1>17, <1>18, <1>19 DEF Promise!Revoke

\* A refresh changes nothing for the user, however old its clock value.
LEMMA RefreshUnseen ==
    ASSUME IInv, NEW at \in ClockRead, RefreshRows(at), UNCHANGED now
    PROVE  UNCHANGED Rights
  <1>1. sub \in [Row -> SubRow] /\ at \in Time /\ at <= now /\ now \in Time
    BY DEF IInv, TypeOK, ClockRead
  <1> DEFINE t == Expire(sub, at)
  <1>2. t \in [Row -> SubRow]
    BY <1>1, ExpiredTable DEF Table
  <1>3. KeepsRunning(sub, t, at)
    BY <1>1, ClosesTheOver
  <1>4. \/ sub' = t
        \/ \E d \in Scheduled(t) : sub' = [t EXCEPT ![d].status = "active"]
    BY DEF RefreshRows, Due
  <1> HIDE DEF t
  <1>5. KeepsRunning(sub, sub', at)
    <2>1. CASE sub' = t
      BY <2>1, <1>3
    <2>2. ASSUME NEW d \in Scheduled(t), sub' = [t EXCEPT ![d].status = "active"]
          PROVE  KeepsRunning(sub, sub', at)
      <3>1. d \in Row /\ t[d].status = "scheduled" /\ sub' = [t EXCEPT ![d] = Marked(t[d], "active")]
        BY <2>2 DEF Scheduled, With, Marked
      <3>2. /\ sub'[d].status = "active"
            /\ sub'[d].start = t[d].start /\ sub'[d].expire = t[d].expire
            /\ \A q \in Row \ {d} : sub'[q] = t[q]
        BY <1>2, <3>1, MarkedRow DEF Status
      <3>3. \A q \in Row : /\ q \in Live(sub') <=> q \in Live(t)
                           /\ sub'[q].start = t[q].start /\ sub'[q].expire = t[q].expire
        BY <3>1, <3>2, LiveRows
      <3>4. Live(sub') = Live(t)
        <4>1. \A q \in Live(sub') : q \in Row
          BY LiveIsRow
        <4>2. \A q \in Live(t) : q \in Row
          BY LiveIsRow
        <4> QED BY <3>3, <4>1, <4>2
      <3>5. \A q \in Live(t) : sub'[q].start = t[q].start /\ sub'[q].expire = t[q].expire
        BY <3>3, LiveIsRow
      <3> QED BY <1>3, <3>4, <3>5 DEF KeepsRunning
    <2> QED BY <1>4, <2>1, <2>2
  <1>6. Worth(sub', now) = Worth(sub, now)
    BY <1>1, <1>5, RunningWorth
  <1> QED BY <1>6 DEF Rights, Worth

\* Nor does the migration of a process that starts.
LEMMA MigrateUnseen ==
    ASSUME IInv, NEW at \in ClockRead, Migrate(at)
    PROVE  UNCHANGED <<now, Rights>>
  <1>1. /\ sub \in [Row -> SubRow] /\ at \in Time /\ at <= now /\ now \in Time
        /\ sub' = Normalize(sub, at) /\ UNCHANGED now
    BY DEF IInv, TypeOK, ClockRead, Migrate
  <1>2. KeepsRunning(sub, sub', at)
    BY <1>1, ClosesTheOver
  <1>3. Worth(sub', now) = Worth(sub, now)
    BY <1>1, <1>2, RunningWorth
  <1> QED BY <1>1, <1>3 DEF Rights, Worth

\* The clock takes the instant that is over.
LEMMA TickPasses ==
    ASSUME IInv, Tick
    PROVE  Promise!Pass
  <1>1. now < Horizon /\ now' = now + 1 /\ sub' = sub /\ now \in Int /\ Time \subseteq Int
    BY HorizonAssumption DEF Tick, IInv, TypeOK, Time
  <1>2. Rights' = {x \in Time : now + 1 <= x /\ \E r \in Live(sub) : Covers(sub, r, x)}
    BY <1>1 DEF Rights
  <1>3. \A x \in Time : now + 1 <= x <=> now <= x /\ x # now
    BY <1>1
  <1>4. Rights' = Rights \ {now}
    BY <1>2, <1>3 DEF Rights
  <1> QED BY <1>1, <1>4 DEF Promise!Pass, Tick

\* Every step is one action of the entitlement or none, and only the cancellation of a
\* queued row revokes.
LEMMA StepPromises ==
    ASSUME IInv, RevokedClosed, [Next]_vars
    PROVE  \/ \E n \in {Days(p, extra) : p \in Plan, extra \in ExtraDays} :
                 n \in Nat /\ (Promise!Begin(n) \/ Promise!Insert(n) \/ Promise!Switch(n))
           \/ \E r \in Row : Promise!Revoke(r) /\ CancelScheduled(r)
           \/ Promise!Pass
           \/ UNCHANGED <<now, Rights, bought, revoked>>
  <1>1. ASSUME NEW p \in Plan, NEW extra \in ExtraDays, Apply(p, extra)
        PROVE  \E n \in {Days(q, x) : q \in Plan, x \in ExtraDays} :
                 n \in Nat /\ (Promise!Begin(n) \/ Promise!Insert(n) \/ Promise!Switch(n))
    <2>1. /\ Days(p, extra) \in {Days(q, x) : q \in Plan, x \in ExtraDays}
          /\ Days(p, extra) \in Nat
      BY DaysPositive
    <2>2. \/ Promise!Begin(Days(p, extra)) \/ Promise!Insert(Days(p, extra))
          \/ Promise!Switch(Days(p, extra))
      BY <1>1, OpenBegins, RenewInserts, SwitchNowSwitches, SwitchScheduledInserts DEF Apply
    <2> QED BY <2>1, <2>2
  <1>2. ASSUME NEW r \in Row, CancelScheduled(r) PROVE Promise!Revoke(r)
    BY <1>2, CancelRevokes
  <1>3. ASSUME NEW at \in ClockRead, Refresh(at) \/ ReadRefresh(at) \/ Migrate(at)
        PROVE  UNCHANGED <<now, Rights, bought, revoked>>
    <2>1. UNCHANGED <<now, bought, revoked>>
      BY <1>3 DEF Refresh, ReadRefresh, Migrate
    <2>2. CASE Refresh(at) \/ ReadRefresh(at)
      <3>1. RefreshRows(at)
        BY <2>2 DEF Refresh, ReadRefresh
      <3> QED BY <2>1, <3>1, RefreshUnseen
    <2> QED BY <1>3, <2>1, <2>2, MigrateUnseen
  <1>4. CASE ReadSelect \/ UNCHANGED vars
    <2>1. sub' = sub /\ now' = now /\ bought' = bought /\ revoked' = revoked
      BY <1>4 DEF ReadSelect, vars
    <2> QED BY <2>1 DEF Rights
  <1>5. CASE Tick
    BY <1>5, TickPasses
  <1> QED BY <1>1, <1>2, <1>3, <1>4, <1>5 DEF Next

\* An empty table gives no rights.
LEMMA NoRightsYet == Init => Promise!Init
  <1> SUFFICES ASSUME Init PROVE Promise!Init
    OBVIOUS
  <1>1. Live(sub) = {}
    BY DEF Init, Absent, Live, Scheduled, With
  <1> QED BY <1>1 DEF Init, Rights, Promise!Init

\* What was cancelled by itself stays cancelled.
LEMMA RevokedStays == Spec => []RevokedClosed
  <1>1. Init => RevokedClosed
    BY DEF Init, RevokedClosed
  <1>2. IInv /\ RevokedClosed /\ [Next]_vars => RevokedClosed'
    BY RevokedStep
  <1> QED BY <1>1, <1>2, Invariance, PTL DEF Spec

\* The rows of a user implement the entitlement (ImplementsEntitlement): purchases are
\* put in without loss, switches leave no break, the cancellation of a queued row takes
\* no more than was bought with it, nothing else takes anything away, and refreshes,
\* migrations and readers change nothing for the user.
THEOREM RowsImplementEntitlement == Spec => ImplementsEntitlement
  <1>1. IInv /\ RevokedClosed /\ [Next]_vars => [Promise!Next]_(Promise!vars)
    BY StepPromises DEF Promise!Next, Promise!vars
  <1> QED BY <1>1, NoRightsYet, Invariance, RevokedStays, PTL DEF Spec, ImplementsEntitlement, Promise!Spec

\* Rights without a break from now on.
Unbroken == \A x \in Rights : now..x \subseteq Rights

\* Nothing but a cancellation breaks the rights.
LEMMA UnbrokenStep ==
    ASSUME IInv, RevokedClosed, revoked # {} \/ Unbroken, [Next]_vars
    PROVE  revoked' # {} \/ Unbroken'
  <1>1. revoked # {} => revoked' # {}
    BY DEF Next, Apply, Open, Renew, SwitchNow, SwitchScheduled, CancelScheduled, Refresh,
           ReadRefresh, Migrate, ReadSelect, Tick, vars
  <1>2. SUFFICES ASSUME Unbroken, revoked' = {} PROVE Unbroken'
    BY <1>1
  <1>3. /\ now \in Int
        /\ \A x \in Rights : x \in Int /\ now <= x
    BY PreparedWorth DEF Worth
  <1>4. \A x \in Rights : now..x \subseteq Rights
    BY <1>2 DEF Unbroken
  <1>5. SUFFICES ASSUME NEW x \in Rights', NEW y \in now'..x PROVE y \in Rights'
    BY DEF Unbroken
  <1>6. ASSUME NEW n \in Nat, Promise!Begin(n) \/ Promise!Switch(n)
        PROVE  y \in Rights'
    <2>1. PICK z \in Time : Rights' = now..z /\ now' = now
      BY <1>3, <1>6, PreparedWorth
         DEF Promise!Begin, Promise!Switch, Promise!Sell, Promise!Time, Time
    <2>2. z \in Int
      BY PreparedWorth
    <2> QED BY <2>1, <2>2, <1>3
  <1>7. ASSUME NEW n \in Nat, Promise!Insert(n)
        PROVE  y \in Rights'
    <2>1. PICK cut \in Rights :
            Rights' = {z \in Rights : z <= cut} \cup cut..(cut + n)
                          \cup {z + n : z \in {w \in Rights : cut <= w}}
      BY <1>7 DEF Promise!Insert
    <2>2. now' = now
      BY <1>7 DEF Promise!Insert, Promise!Sell
    <2>3. x \in Int /\ cut \in Int
      BY <1>3, <2>1
    <2>4. CASE y <= cut
      BY <2>1, <2>2, <2>3, <2>4, <1>3, <1>4
    <2>5. CASE cut <= y /\ y <= cut + n
      BY <2>1, <2>2, <2>3, <2>5, <1>3
    <2>6. CASE cut + n < y
      <3>1. ~(x <= cut) /\ x \notin cut..(cut + n)
        BY <2>2, <2>3, <2>6, <1>3
      <3>2. PICK w \in Rights : cut <= w /\ x = w + n
        BY <2>1, <3>1
      <3>3. y - n \in now..w /\ cut <= y - n
        BY <2>2, <2>3, <2>6, <3>2, <1>3
      <3>4. y - n \in Rights /\ y = (y - n) + n
        BY <3>2, <3>3, <2>2, <2>3, <1>3, <1>4
      <3> QED BY <3>3, <3>4, <2>1
    <2> QED BY <2>2, <2>3, <2>4, <2>5, <2>6, <1>3
  <1>8. CASE Promise!Pass
    <2>1. now' = now + 1 /\ Rights' = Rights \ {now}
      BY <1>8 DEF Promise!Pass
    <2>2. x \in Rights /\ y \in now..x /\ y # now
      BY <2>1, <1>3
    <2> QED BY <2>1, <2>2, <1>4
  <1>9. CASE UNCHANGED <<now, Rights>>
    BY <1>9, <1>4
  <1>10. ASSUME NEW r \in Row, CancelScheduled(r) PROVE FALSE
    BY <1>2, <1>10 DEF CancelScheduled
  <1> QED BY <1>2, <1>6, <1>7, <1>8, <1>9, <1>10, StepPromises

\* Until a queued row is cancelled, the user is entitled at every instant from now to
\* the last one that was bought: the rights never have a hole, not even in front.
THEOREM RightsUnbroken == Spec => [](revoked = {} => Unbroken)
  <1> DEFINE U == revoked # {} \/ Unbroken
  <1>1. Init => U
    BY NoRightsYet DEF Promise!Init, Unbroken
  <1>2. IInv /\ RevokedClosed /\ U /\ [Next]_vars => U'
    BY UnbrokenStep
  <1>3. U => (revoked = {} => Unbroken)
    OBVIOUS
  <1> HIDE DEF U
  <1> QED BY <1>1, <1>2, <1>3, Invariance, RevokedStays, PTL DEF Spec
=============================================================================
