---- MODULE Schedule_proofs ----
(***************************************************************************)
(* Proofs about the calendar: types, that the availability page offers     *)
(* what a booking accepts, and all of it, and that what is booked lies in  *)
(* the center's hours.                                                     *)
(***************************************************************************)
EXTENDS Schedule, SumTheorems

\* A batch of days replaces those days and leaves the others.
LEMMA BatchTypeOK ==
    ASSUME TypeOK, NEW days \in SUBSET (0..(Week - 1)), NEW batch \in [days -> Hours],
           UpsertShifts(batch)
    PROVE  TypeOK'
<1>1. shift' = [d \in DOMAIN shift |-> IF d \in DOMAIN batch THEN batch[d] ELSE shift[d]]
    BY DEF UpsertShifts
<1>2. shift' \in [0..(Week - 1) -> Hours \cup {None}]
    BY <1>1 DEF TypeOK
<1> QED BY <1>2 DEF TypeOK, UpsertShifts

\* What is written is a row that ends after it starts.
LEMMA WriteTypeOK ==
    ASSUME TypeOK, NEW b \in Bookings, NEW from \in Nat, NEW length \in Nat \ {0},
           NEW st \in ReservationStatus, Write(b, from, length, st)
    PROVE  TypeOK'
<1> DEFINE row == [from |-> from, to |-> from + length, status |-> st]
<1>1. row \in Row /\ row.from < row.to
    BY DEF Row
<1>2. booking' = [booking EXCEPT ![b] = row]
    BY DEF Write
<1> HIDE DEF row
<1>3. booking' \in [Bookings -> Row \cup {None}]
    BY <1>1, <1>2 DEF TypeOK
<1>4. \A c \in Bookings : booking'[c] # None => booking'[c].from < booking'[c].to
    BY <1>1, <1>2 DEF TypeOK
<1> QED BY <1>3, <1>4 DEF TypeOK, Write

\* The types of the calendar (shifts.repo, reservation.repo).
THEOREM TypeCorrect == Spec => []TypeOK
<1>1. Init => TypeOK
    BY DEF Init, TypeOK
<1>2. TypeOK /\ [Next]_vars => TypeOK'
  <2> SUFFICES ASSUME TypeOK, [Next]_vars PROVE TypeOK'
      OBVIOUS
  <2>1. ASSUME NEW days \in SUBSET (0..(Week - 1)), NEW batch \in [days -> Hours],
               UpsertShifts(batch)
        PROVE  TypeOK'
      BY <2>1, BatchTypeOK
  <2>2. ASSUME NEW s \in Switches, Switch(s) PROVE TypeOK'
      BY <2>2 DEF Switch, TypeOK
  <2>3. ASSUME NEW b \in Bookings, NEW t \in Starts, CreatePublicReservation(b, t)
        PROVE  TypeOK'
    <3>1. PICK st \in {"PENDING", "CONFIRMED"} : Write(b, t, Duration, st)
        BY <2>3 DEF CreatePublicReservation
    <3>2. t \in Nat /\ Duration \in Nat \ {0} /\ st \in ReservationStatus
        BY CalendarAssumption DEF ReservationStatus
    <3> QED BY <3>1, <3>2, WriteTypeOK
  <2>4. ASSUME NEW b \in Bookings, NEW t \in Starts, UpdateReservation(b, t)
        PROVE  TypeOK'
    <3>1. booking[b] \in Row /\ booking[b].from < booking[b].to
        BY <2>4 DEF UpdateReservation, Held, TypeOK
    <3>2. PICK length : /\ length = booking[b].to - booking[b].from
                        /\ Write(b, t, length, booking[b].status)
        BY <2>4 DEF UpdateReservation
    <3>3. t \in Nat /\ length \in Nat \ {0} /\ booking[b].status \in ReservationStatus
        BY <3>1, <3>2, CalendarAssumption DEF Row
    <3>4. PICK st : st = booking[b].status
        OBVIOUS
    <3> QED BY <3>2, <3>3, <3>4, WriteTypeOK
  <2>5. ASSUME NEW b \in Bookings, NEW t \in Starts, NEW n \in Lengths,
               CreateReservation(b, t, n)
        PROVE  TypeOK'
    <3>1. t \in Nat /\ n \in Nat \ {0} /\ "CONFIRMED" \in ReservationStatus
        BY CalendarAssumption DEF ReservationStatus
    <3> QED BY <2>5, <3>1, WriteTypeOK DEF CreateReservation
  <2>6. ASSUME NEW b \in Bookings, NEW next \in ReservationStatus, Move(b, next)
        PROVE  TypeOK'
    <3> DEFINE row == [booking[b] EXCEPT !.status = next]
    <3>1. booking[b] \in Row /\ booking[b].from < booking[b].to
        BY <2>6 DEF Move, Held, TypeOK
    <3>2. row \in Row /\ row.from = booking[b].from /\ row.to = booking[b].to
        BY <3>1 DEF Row
    <3>3. booking' = [booking EXCEPT ![b] = row]
        BY <2>6 DEF Move
    <3> HIDE DEF row
    <3>4. booking' \in [Bookings -> Row \cup {None}]
        BY <3>2, <3>3 DEF TypeOK
    <3>5. \A c \in Bookings : booking'[c] # None => booking'[c].from < booking'[c].to
        BY <3>1, <3>2, <3>3 DEF TypeOK
    <3> QED BY <2>6, <3>4, <3>5 DEF TypeOK, Move
  <2>7. CASE Pass
      BY <2>7 DEF Pass, TypeOK
  <2>8. ASSUME NEW z \in Offsets, SetTimeZone(z) PROVE TypeOK'
      BY <2>8 DEF SetTimeZone, TypeOK
  <2>9. CASE UNCHANGED vars
      BY <2>9 DEF vars, TypeOK
  <2> QED BY <2>1, <2>2, <2>3, <2>4, <2>5, <2>6, <2>7, <2>8, <2>9 DEF Next
<1> QED BY <1>1, <1>2, PTL DEF Spec
----------------------------------------------------------------------------
(* The grid.                                                               *)

LEMMA Quotient ==
    ASSUME NEW n \in Nat, NEW k \in Nat \ {0}
    PROVE  /\ n \div k \in Nat /\ k * (n \div k) <= n /\ n < k * (n \div k) + k
           /\ \A q \in Nat : n < k * q + k => n \div k <= q
<1>1. n \div k \in Nat
    OBVIOUS
<1>2. k * (n \div k) <= n /\ n < k * (n \div k) + k
    OBVIOUS
<1>3. ASSUME NEW q \in Nat, n < k * q + k, ~ (n \div k <= q) PROVE FALSE
  <2>1. PICK e \in Nat : n \div k = q + 1 + e
    <3>1. (n \div k) - q - 1 \in Nat
        BY <1>1, <1>3
    <3> QED BY <3>1
  <2>2. k * (n \div k) = k * q + k + k * e /\ k * e >= 0
      BY <2>1
  <2> QED BY <1>2, <1>3, <2>2
<1> QED BY <1>1, <1>2, <1>3

LEMMA Multiple ==
    ASSUME NEW n \in Nat, NEW k \in Nat \ {0}
    PROVE  n % k = 0 <=> \E m \in Nat : n = m * k
<1>1. n % k = n - k * (n \div k) /\ n \div k \in Nat
    OBVIOUS
<1>2. ASSUME n % k = 0 PROVE \E m \in Nat : n = m * k
  <2>1. PICK m \in Nat : m = n \div k
      BY <1>1
  <2>2. n = m * k
      BY <1>1, <1>2, <2>1
  <2> QED BY <2>2
<1>3. ASSUME NEW m \in Nat, n = m * k PROVE n % k = 0
    BY <1>3
<1> QED BY <1>2, <1>3

\* The first grid line after a time is less than a minute before it.
LEMMA Rounding ==
    ASSUME NEW a \in Nat
    PROVE  LET c == ((a \div Minute) + Interval - 1) \div Interval IN
           /\ c \in Nat
           /\ a < c * Interval * Minute + Minute
           /\ \A k \in Nat : a <= k * Interval * Minute => c <= k
<1> DEFINE m == a \div Minute
           c == (m + Interval - 1) \div Interval
<1>1. Minute \in Nat \ {0} /\ Interval \in Nat \ {0}
    BY CalendarAssumption
<1>2. m \in Nat /\ Minute * m <= a /\ a < Minute * m + Minute
    BY <1>1, Quotient
<1>3. m + Interval - 1 \in Nat
    BY <1>1, <1>2
<1> HIDE DEF m
<1>4. /\ c \in Nat /\ m + Interval - 1 < Interval * c + Interval
      /\ \A q \in Nat : m + Interval - 1 < Interval * q + Interval => c <= q
    BY <1>1, <1>3, Quotient
<1> HIDE DEF c
<1>5. m <= c * Interval
    BY <1>1, <1>2, <1>4
<1>6. Minute * m <= c * Interval * Minute
  <2>1. PICK e \in Nat : c * Interval = m + e
    <3>1. c * Interval - m \in Nat
        BY <1>1, <1>2, <1>4, <1>5
    <3> QED BY <1>1, <1>2, <1>4, <3>1
  <2>2. c * Interval * Minute = Minute * m + Minute * e /\ Minute * e >= 0
      BY <1>1, <1>2, <2>1
  <2> QED BY <1>1, <1>2, <2>2
<1>7. ASSUME NEW k \in Nat, a <= k * Interval * Minute PROVE c <= k
  <2>1. k * Interval \in Nat /\ a < Minute * (k * Interval) + Minute
      BY <1>1, <1>7
  <2>2. m <= k * Interval
      BY <1>1, <2>1, Quotient DEF m
  <2>3. m + Interval - 1 < Interval * k + Interval
      BY <1>1, <1>2, <2>2
  <2> QED BY <1>4, <2>3
<1>8. a < c * Interval * Minute + Minute
    BY <1>1, <1>2, <1>4, <1>6
<1> QED BY <1>4, <1>7, <1>8 DEF c, m
----------------------------------------------------------------------------
(* The walk along a day.                                                   *)

\* Reservations have a last one, by their start.
Ordered(S) ==
    \A U \in SUBSET S : U # {} =>
        LastOf(U) \in U /\ \A c \in U : booking[c].from <= booking[LastOf(U)].from

LEMMA LastExists ==
    ASSUME NEW S, IsFiniteSet(S), \A b \in S : booking[b].from \in Nat
    PROVE  Ordered(S)
<1> DEFINE Top(T) == \E b \in T : \A c \in T : booking[c].from <= booking[b].from
<1>1. ASSUME NEW U \in SUBSET S, U # {} PROVE Top(U)
  <2> DEFINE G == {T \in SUBSET U : T # {} => Top(T)}
  <2>1. ASSUME NEW T \in SUBSET U, \A V \in SUBSET T : V # T => V \in G
        PROVE  T \in G
    <3> SUFFICES ASSUME T # {} PROVE Top(T)
        OBVIOUS
    <3>1. PICK x \in T : TRUE
        OBVIOUS
    <3>2. CASE T \ {x} = {}
        BY <3>1, <3>2
    <3>3. CASE T \ {x} # {}
      <4>1. PICK b \in T \ {x} : \A c \in T \ {x} : booking[c].from <= booking[b].from
        <5>1. T \ {x} \in SUBSET T /\ T \ {x} # T
            BY <3>1
        <5>2. T \ {x} \in G
            BY <2>1, <5>1
        <5> QED BY <3>3, <5>2
      <4>2. booking[x].from \in Nat /\ booking[b].from \in Nat
          BY <3>1, <4>1
      <4>3. CASE booking[x].from <= booking[b].from
          BY <4>1, <4>3
      <4>4. CASE booking[b].from <= booking[x].from
        <5>1. \A c \in T : booking[c].from <= booking[x].from
            BY <4>1, <4>2, <4>4
        <5> QED BY <3>1, <5>1
      <4> QED BY <4>2, <4>3, <4>4
    <3> QED BY <3>2, <3>3
  <2>2. IsFiniteSet(U)
      BY FS_Subset
  <2> HIDE DEF G
  <2>3. U \in G
      BY <2>1, <2>2, SubsetInduction
  <2> QED BY <1>1, <2>3 DEF G
<1> QED BY <1>1 DEF Ordered, LastOf

\* g holds where the walk past every subset of S ends.
IsWalk(g, d, S) ==
    g = [s \in SUBSET S |->
            IF s = {} THEN AtShiftStart(d) ELSE WalkPast(d, LastOf(s), g[s \ {LastOf(s)}])]

LEMMA WalkStep ==
    ASSUME NEW g, NEW d, NEW S, IsWalk(g, d, S), NEW T \in SUBSET S
    PROVE  /\ T = {} => g[T] = AtShiftStart(d)
           /\ T # {} => g[T] = WalkPast(d, LastOf(T), g[T \ {LastOf(T)}])
BY DEF IsWalk

LEMMA WalksAgree ==
    ASSUME NEW g, NEW h, NEW d, NEW S, NEW T \in SUBSET S, IsFiniteSet(T), Ordered(T),
           IsWalk(g, d, S), IsWalk(h, d, T)
    PROVE  g[T] = h[T]
<1> DEFINE G == {U \in SUBSET T : g[U] = h[U]}
<1>1. ASSUME NEW U \in SUBSET T, \A V \in SUBSET U : V # U => V \in G
      PROVE  U \in G
  <2>1. CASE U = {}
      BY <2>1, WalkStep
  <2>2. CASE U # {}
    <3>1. PICK x : x = LastOf(U)
        OBVIOUS
    <3>2. x \in U
        BY <2>2, <3>1 DEF Ordered
    <3>3. g[U] = WalkPast(d, x, g[U \ {x}]) /\ h[U] = WalkPast(d, x, h[U \ {x}])
        BY <2>2, <3>1, WalkStep
    <3>4. U \ {x} \in G
        BY <1>1, <3>2
    <3>5. g[U \ {x}] = h[U \ {x}]
        BY <3>4
    <3> QED BY <3>3, <3>5
  <2> QED BY <2>1, <2>2
<1> HIDE DEF G
<1>2. T \in G
    BY <1>1, SubsetInduction
<1> QED BY <1>2 DEF G

LEMMA WalkExists ==
    ASSUME NEW d, NEW S, IsFiniteSet(S), Ordered(S)
    PROVE  \E g : IsWalk(g, d, S)
<1> DEFINE G == {T \in SUBSET S : \E g : IsWalk(g, d, T)}
<1>1. ASSUME NEW T \in SUBSET S, \A U \in SUBSET T : U # T => U \in G
      PROVE  T \in G
  <2> DEFINE of(U) == CHOOSE g : IsWalk(g, d, U)
             rest(U) == U \ {LastOf(U)}
             part(U) == IF U = {} THEN AtShiftStart(d)
                        ELSE WalkPast(d, LastOf(U), of(rest(U))[rest(U)])
             all == [U \in SUBSET T |-> part(U)]
  <2>1. \A U \in SUBSET T : U # T => IsWalk(of(U), d, U)
      BY <1>1
  <2>2. \A U \in SUBSET T : U # {} => LastOf(U) \in U
      BY DEF Ordered
  <2>3. ASSUME NEW U \in SUBSET T, U # T
        PROVE  all[U] = of(U)[U]
    <3>1. IsWalk(of(U), d, U) /\ IsFiniteSet(U)
        BY <2>1, <2>3, FS_Subset
    <3>2. CASE U = {}
      <4>1. of(U)[U] = AtShiftStart(d)
        <5> HIDE DEF of
        <5> QED BY <3>1, <3>2, WalkStep
      <4> QED BY <4>1, <3>2
    <3>3. CASE U # {}
      <4>1. of(U)[U] = WalkPast(d, LastOf(U), of(U)[rest(U)])
        <5> HIDE DEF of
        <5> QED BY <3>1, <3>3, WalkStep
      <4>2. /\ rest(U) \in SUBSET U /\ rest(U) \in SUBSET T /\ rest(U) # T
            /\ IsFiniteSet(rest(U)) /\ Ordered(rest(U))
        <5>1. rest(U) \in SUBSET U /\ rest(U) # U
            BY <2>2, <3>3
        <5>2. IsFiniteSet(rest(U))
            BY <3>1, <5>1, FS_Subset
        <5> HIDE DEF rest
        <5> QED BY <5>1, <5>2 DEF Ordered
      <4>3. IsWalk(of(rest(U)), d, rest(U))
        <5> HIDE DEF of, rest
        <5> QED BY <2>1, <4>2
      <4>4. of(U)[rest(U)] = of(rest(U))[rest(U)]
        <5> HIDE DEF of, rest
        <5> QED BY <3>1, <4>2, <4>3, WalksAgree
      <4>5. all[U] = WalkPast(d, LastOf(U), of(rest(U))[rest(U)])
        <5> HIDE DEF of, rest
        <5> QED BY <3>3
      <4> HIDE DEF of, rest, all
      <4> QED BY <4>1, <4>4, <4>5
    <3> QED BY <3>2, <3>3
  <2>4. ASSUME NEW U \in SUBSET T, U # {}
        PROVE  all[U] = WalkPast(d, LastOf(U), all[rest(U)])
    <3>1. rest(U) \in SUBSET T /\ rest(U) # T
        BY <2>2, <2>4
    <3>2. all[rest(U)] = of(rest(U))[rest(U)]
      <4> HIDE DEF of, rest, all
      <4> QED BY <2>3, <3>1
    <3>3. all[U] = WalkPast(d, LastOf(U), of(rest(U))[rest(U)])
      <4> HIDE DEF of, rest
      <4> QED BY <2>4
    <3> HIDE DEF of, rest, all
    <3> QED BY <3>2, <3>3
  <2>5. all = [U \in SUBSET T |-> IF U = {} THEN AtShiftStart(d)
                                  ELSE WalkPast(d, LastOf(U), all[rest(U)])]
    <3>1. ASSUME NEW U \in SUBSET T
          PROVE  all[U] = IF U = {} THEN AtShiftStart(d)
                          ELSE WalkPast(d, LastOf(U), all[rest(U)])
      <4>1. CASE U = {}
          BY <4>1
      <4>2. CASE U # {}
        <5> HIDE DEF all, rest
        <5> QED BY <2>4, <4>2
      <4> QED BY <4>1, <4>2
    <3>2. all = [U \in SUBSET T |-> all[U]]
        OBVIOUS
    <3> HIDE DEF all, rest
    <3> QED BY <3>1, <3>2
  <2>6. IsWalk(all, d, T)
    <3> HIDE DEF all
    <3> QED BY <2>5 DEF IsWalk
  <2> HIDE DEF all
  <2> QED BY <2>6
<1> HIDE DEF G
<1>2. S \in G
    BY <1>1, SubsetInduction
<1> QED BY <1>2 DEF G

LEMMA WalkIs ==
    ASSUME NEW d, NEW S, IsFiniteSet(S), Ordered(S)
    PROVE  \E g : IsWalk(g, d, S) /\ Walk(d, S) = g[S]
<1> DEFINE g == CHOOSE g : IsWalk(g, d, S)
<1>1. IsWalk(g, d, S)
    BY WalkExists
<1>2. Walk(d, S) = g[S]
    BY DEF Walk, MapThenFoldSet, IsWalk
<1> HIDE DEF g
<1> QED BY <1>1, <1>2

\* What a walk past T has found: its gaps lie after the shift's start, each
\* before a reservation, and none is met by a reservation it has passed; unless
\* it has reached the end of the shift, it is past all of them.
FreeGaps(d, T, walk) ==
    /\ walk.at \in Int /\ walk.at >= ShiftStart(d)
    /\ walk.done => walk.at >= ShiftEnd(d)
    /\ ~walk.done => \A b \in T : booking[b].to <= walk.at
    /\ \A gap \in walk.gaps :
          /\ {gap.from, gap.to} \subseteq Int /\ gap.from >= ShiftStart(d)
          /\ \E b \in T : gap.to = booking[b].from
          /\ \A b \in T : booking[b].to <= gap.from \/ booking[b].from >= gap.to

LEMMA GapIs ==
    ASSUME NEW from \in Int, NEW to \in Int, NEW gap \in Gap(from, to)
    PROVE  from < to /\ gap.from = from /\ gap.to = to
BY DEF Gap

LEMMA WalkPastFree ==
    ASSUME NEW d, NEW T, NEW b \in T, NEW walk, FreeGaps(d, T \ {b}, walk),
           {ShiftStart(d), ShiftEnd(d)} \subseteq Int,
           \A c \in T : {booking[c].from, booking[c].to} \subseteq Int,
           \A c \in T : booking[c].from <= booking[b].from
    PROVE  FreeGaps(d, T, WalkPast(d, b, walk))
<1>1. CASE walk.done
  <2>1. WalkPast(d, b, walk) = walk
      BY <1>1 DEF WalkPast
  <2>2. ASSUME NEW gap \in walk.gaps
        PROVE  /\ {gap.from, gap.to} \subseteq Int /\ gap.from >= ShiftStart(d)
               /\ \E c \in T : gap.to = booking[c].from
               /\ \A c \in T : booking[c].to <= gap.from \/ booking[c].from >= gap.to
      BY DEF FreeGaps
  <2> QED BY <1>1, <2>1, <2>2 DEF FreeGaps
<1>2. CASE ~walk.done
  <2>1. PICK at : at = IF booking[b].to > walk.at THEN booking[b].to ELSE walk.at
      OBVIOUS
  <2>2. PICK new : new = Gap(walk.at, booking[b].from)
      OBVIOUS
  <2>3. PICK next : next = WalkPast(d, b, walk)
      OBVIOUS
  <2>4. next = [at |-> at, done |-> at >= ShiftEnd(d), gaps |-> walk.gaps \cup new]
      BY <1>2, <2>1, <2>2, <2>3 DEF WalkPast
  <2>5. next.at = at /\ (next.done <=> at >= ShiftEnd(d)) /\ next.gaps = walk.gaps \cup new
      BY <2>4
  <2>6. at \in Int /\ at >= walk.at /\ at >= booking[b].to /\ at >= ShiftStart(d)
      BY <2>1 DEF FreeGaps
  <2>7. \A c \in T : booking[c].to <= at
      BY <1>2, <2>6 DEF FreeGaps
  <2>8. ASSUME NEW gap \in walk.gaps
        PROVE  /\ {gap.from, gap.to} \subseteq Int /\ gap.from >= ShiftStart(d)
               /\ \E c \in T : gap.to = booking[c].from
               /\ \A c \in T : booking[c].to <= gap.from \/ booking[c].from >= gap.to
      BY DEF FreeGaps
  <2>9. ASSUME NEW gap \in new
        PROVE  /\ {gap.from, gap.to} \subseteq Int /\ gap.from >= ShiftStart(d)
               /\ \E c \in T : gap.to = booking[c].from
               /\ \A c \in T : booking[c].to <= gap.from \/ booking[c].from >= gap.to
    <3>1. gap.from = walk.at /\ gap.to = booking[b].from
        BY <2>2, GapIs DEF FreeGaps
    <3>2. \A c \in T : c # b => booking[c].to <= walk.at
        BY <1>2 DEF FreeGaps
    <3> QED BY <3>1, <3>2 DEF FreeGaps
  <2> QED BY <2>3, <2>5, <2>6, <2>7, <2>8, <2>9 DEF FreeGaps
<1> QED BY <1>1, <1>2

\* A slot that no reservation meets is in a gap behind the walk, or ahead of it.
SlotLeft(s, walk) ==
    \/ \E gap \in walk.gaps : gap.from <= s /\ s + Duration <= gap.to
    \/ ~walk.done /\ walk.at <= s

LEMMA WalkPastLeaves ==
    ASSUME NEW d, NEW s \in Int, NEW b, NEW walk, SlotLeft(s, walk), walk.at \in Int,
           {booking[b].from, booking[b].to} \subseteq Int, ShiftEnd(d) \in Int,
           ~Meets(b, s, s + Duration), s < ShiftEnd(d)
    PROVE  SlotLeft(s, WalkPast(d, b, walk))
<1>1. CASE walk.done
    BY <1>1 DEF WalkPast
<1>2. CASE ~walk.done
  <2>1. PICK at : at = IF booking[b].to > walk.at THEN booking[b].to ELSE walk.at
      OBVIOUS
  <2>2. PICK new : new = Gap(walk.at, booking[b].from)
      OBVIOUS
  <2>3. PICK next : next = WalkPast(d, b, walk)
      OBVIOUS
  <2>4. next = [at |-> at, done |-> at >= ShiftEnd(d), gaps |-> walk.gaps \cup new]
      BY <1>2, <2>1, <2>2, <2>3 DEF WalkPast
  <2>5. next.at = at /\ (next.done <=> at >= ShiftEnd(d)) /\ next.gaps = walk.gaps \cup new
      BY <2>4
  <2>6. CASE \E gap \in walk.gaps : gap.from <= s /\ s + Duration <= gap.to
      BY <2>3, <2>5, <2>6 DEF SlotLeft
  <2>7. CASE walk.at <= s /\ booking[b].to <= s
      BY <2>1, <2>3, <2>5, <2>7 DEF SlotLeft
  <2>8. CASE walk.at <= s /\ booking[b].from >= s + Duration
    <3>1. walk.at < booking[b].from
        BY <2>8, CalendarAssumption
    <3>2. [from |-> walk.at, to |-> booking[b].from] \in new
        BY <2>2, <3>1 DEF Gap
    <3> QED BY <2>3, <2>5, <2>8, <3>2 DEF SlotLeft
  <2>9. booking[b].to <= s \/ booking[b].from >= s + Duration
    <3>1. ~(booking[b].from < s + Duration) \/ ~(booking[b].to > s)
        BY DEF Meets
    <3>2. s + Duration \in Int
      <4>1. Duration \in Nat
          BY CalendarAssumption
      <4> QED BY <4>1
    <3> QED BY <3>1, <3>2
  <2> QED BY <1>2, <2>6, <2>7, <2>8, <2>9 DEF SlotLeft
<1> QED BY <1>1, <1>2

LEMMA WalkFinds ==
    ASSUME TypeOK, NEW d, {ShiftStart(d), ShiftEnd(d)} \subseteq Int, NEW S \in SUBSET Held
    PROVE  /\ FreeGaps(d, S, Walk(d, S))
           /\ \A s \in Int : /\ ShiftStart(d) <= s /\ s < ShiftEnd(d)
                             /\ \A b \in S : ~Meets(b, s, s + Duration)
                             => SlotLeft(s, Walk(d, S))
<1>1. \A b \in S : {booking[b].from, booking[b].to} \subseteq Nat
    BY DEF TypeOK, Held, Row
<1>2. IsFiniteSet(S)
    BY RowsAssumption, FS_Subset DEF Held
<1>3. Ordered(S)
    BY <1>1, <1>2, LastExists
<1>4. PICK g : IsWalk(g, d, S) /\ Walk(d, S) = g[S]
    BY <1>2, <1>3, WalkIs
<1> DEFINE Left(s, T) == (/\ ShiftStart(d) <= s /\ s < ShiftEnd(d)
                          /\ \A b \in T : ~Meets(b, s, s + Duration))
                         => SlotLeft(s, g[T])
           G == {T \in SUBSET S : FreeGaps(d, T, g[T]) /\ \A s \in Int : Left(s, T)}
<1>5. ASSUME NEW T \in SUBSET S, \A U \in SUBSET T : U # T => U \in G
      PROVE  T \in G
  <2>1. CASE T = {}
    <3>1. g[T] = AtShiftStart(d)
        BY <1>4, <2>1, WalkStep
    <3>2. g[T].at = ShiftStart(d) /\ g[T].done = FALSE /\ g[T].gaps = {}
        BY <3>1 DEF AtShiftStart
    <3> QED BY <2>1, <3>2 DEF FreeGaps, SlotLeft
  <2>2. CASE T # {}
    <3>1. PICK b : b = LastOf(T)
        OBVIOUS
    <3>2. b \in T /\ \A c \in T : booking[c].from <= booking[b].from
        BY <1>3, <2>2, <3>1 DEF Ordered
    <3>3. PICK walk : walk = g[T \ {b}]
        OBVIOUS
    <3>4. g[T] = WalkPast(d, b, walk)
      <4>1. g[T] = WalkPast(d, LastOf(T), g[T \ {LastOf(T)}])
          BY <1>4, <2>2, WalkStep
      <4> QED BY <3>1, <3>3, <4>1
    <3>5. T \ {b} \in SUBSET T /\ T \ {b} # T
        BY <3>2
    <3>6. T \ {b} \in G
        BY <1>5, <3>5
    <3>7. FreeGaps(d, T \ {b}, walk) /\ \A s \in Int : Left(s, T \ {b})
        BY <3>3, <3>6
    <3>8. FreeGaps(d, T, g[T])
        BY <1>1, <3>2, <3>4, <3>7, WalkPastFree
    <3>9. ASSUME NEW s \in Int, ShiftStart(d) <= s, s < ShiftEnd(d),
                 \A c \in T : ~Meets(c, s, s + Duration)
          PROVE  SlotLeft(s, g[T])
      <4>1. SlotLeft(s, walk)
          BY <3>3, <3>7, <3>9
      <4>2. walk.at \in Int
          BY <3>7 DEF FreeGaps
      <4>3. {booking[b].from, booking[b].to} \subseteq Int /\ ~Meets(b, s, s + Duration)
          BY <1>1, <3>2, <3>9
      <4> QED BY <3>4, <3>9, <4>1, <4>2, <4>3, WalkPastLeaves
    <3> QED BY <3>8, <3>9
  <2> QED BY <2>1, <2>2
<1> HIDE DEF G
<1>6. S \in G
    BY <1>2, <1>5, SubsetInduction
<1> QED BY <1>4, <1>6 DEF G

\* The date of an instant, on either clock.
LEMMA DayOf ==
    ASSUME NEW t \in Int, NEW d \in Int
    PROVE  /\ t \div DayLength \in Int
           /\ t \div DayLength = d <=> d * DayLength <= t /\ t < d * DayLength + DayLength
<1>1. DayLength \in Nat \ {0}
    BY CalendarAssumption
<1>2. PICK q : q = t \div DayLength
    OBVIOUS
<1>3. q \in Int /\ DayLength * q <= t /\ t < DayLength * q + DayLength
    BY <1>1, <1>2
<1>4. ASSUME d * DayLength <= t, t < d * DayLength + DayLength, d # q PROVE FALSE
  <2>1. CASE d < q
    <3>1. PICK e \in Nat : q = d + 1 + e
      <4>1. q - d - 1 \in Nat
          BY <1>3, <2>1
      <4> QED BY <1>3, <4>1
    <3>2. DayLength * q = d * DayLength + DayLength + DayLength * e /\ DayLength * e >= 0
        BY <1>1, <3>1
    <3> QED BY <1>1, <1>3, <1>4, <3>1, <3>2
  <2>2. CASE q < d
    <3>1. PICK e \in Nat : d = q + 1 + e
      <4>1. d - q - 1 \in Nat
          BY <1>3, <2>2
      <4> QED BY <1>3, <4>1
    <3>2. d * DayLength = DayLength * q + DayLength + DayLength * e /\ DayLength * e >= 0
        BY <1>1, <1>3, <3>1
    <3> QED BY <1>1, <1>3, <1>4, <3>1, <3>2
  <2> QED BY <1>3, <1>4, <2>1, <2>2
<1>5. DayLength * q = q * DayLength
    BY <1>1, <1>3
<1> QED BY <1>2, <1>3, <1>4, <1>5

\* The hours of the shift that the code takes for an instant: on the center's
\* clock, they lie in the server's date of the instant.
LEMMA ShiftTimes ==
    ASSUME TypeOK, NEW d \in Int, Works(d)
    PROVE  /\ {ShiftStart(d), ShiftEnd(d)} \subseteq Int
           /\ Date(d) * DayLength <= ShiftStart(d) + ahead
           /\ ShiftEnd(d) + ahead < Date(d) * DayLength + DayLength
<1>1. DayLength \in Nat \ {0} /\ Week \in Nat \ {0} /\ ahead \in Int
    BY CalendarAssumption DEF TypeOK
<1>2. Date(d) \in Int /\ CenterDate(d) \in Int
  <2>1. d + ahead \in Int
      BY <1>1
  <2> QED BY <2>1, DayOf DEF Date, CenterDate
<1>3. CenterDate(d) % Week \in 0..(Week - 1)
    BY <1>1, <1>2
<1>4. ShiftOf(d) \in Hours
    BY <1>3 DEF TypeOK, Works, ShiftOf
<1>5. PICK from \in 0..(DayLength - 1), to \in 0..(DayLength - 1) :
          from = ShiftOf(d).from /\ to = ShiftOf(d).to
    BY <1>4, CalendarAssumption
<1>6. PICK m \in Int : m = Date(d) * DayLength
    BY <1>1, <1>2
<1>7. ShiftStart(d) = m + from - ahead /\ ShiftEnd(d) = m + to - ahead
    BY <1>5, <1>6 DEF ShiftStart, ShiftEnd
<1> QED BY <1>1, <1>5, <1>6, <1>7

\* What lies in those hours has, at the center, the date that the code took.
LEMMA WithinShift ==
    ASSUME TypeOK, NEW d \in Int, Works(d), NEW s \in Int,
           ShiftStart(d) <= s, s < ShiftEnd(d)
    PROVE  CenterDate(s) = Date(d)
<1>1. ahead \in Int /\ s + ahead \in Int /\ DayLength \in Nat
    BY CalendarAssumption DEF TypeOK
<1>2. /\ {ShiftStart(d), ShiftEnd(d)} \subseteq Int
      /\ Date(d) * DayLength <= ShiftStart(d) + ahead
      /\ ShiftEnd(d) + ahead < Date(d) * DayLength + DayLength
    BY ShiftTimes
<1>3. Date(d) \in Int
    BY DayOf DEF Date
<1>4. PICK m \in Int : m = Date(d) * DayLength
    BY <1>1, <1>3
<1>5. m <= s + ahead /\ s + ahead < m + DayLength
    BY <1>1, <1>2, <1>4
<1> QED BY <1>1, <1>3, <1>4, <1>5, DayOf DEF CenterDate

\* Instants with the same dates get the same row and the same hours.
LEMMA SameShift ==
    ASSUME NEW s, NEW d, CenterDate(s) = CenterDate(d), Date(s) = Date(d)
    PROVE  /\ Works(s) <=> Works(d)
           /\ ShiftStart(s) = ShiftStart(d) /\ ShiftEnd(s) = ShiftEnd(d)
BY DEF Works, ShiftOf, ShiftStart, ShiftEnd

LEMMA CursorsAreTimes ==
    ASSUME NEW w \in Windows
    PROVE  Cursors(w) \subseteq Nat
<1>1. DayLength \in Nat \ {0} /\ w.from \in Nat
    BY CalendarAssumption
<1> QED BY <1>1 DEF Cursors
----------------------------------------------------------------------------
(* The page.                                                               *)

\* What is known of a gap of a day.
LEMMA GapsAreFree ==
    ASSUME TypeOK, NEW w, NEW d \in Nat, Works(d), NEW gap \in Gaps(w, d)
    PROVE  /\ {gap.from, gap.to} \subseteq Int /\ gap.from >= ShiftStart(d)
           /\ gap.to = ShiftEnd(d) \/ \E b \in Busy(w, d) : gap.to = booking[b].from
           /\ \A b \in Busy(w, d) : booking[b].to <= gap.from \/ booking[b].from >= gap.to
<1>1. {ShiftStart(d), ShiftEnd(d)} \subseteq Int
    BY ShiftTimes
<1>2. PICK S, end : S = Busy(w, d) /\ end = Walk(d, S)
    OBVIOUS
<1>3. S \in SUBSET Held
    BY <1>2 DEF Busy, Fetched
<1>4. FreeGaps(d, S, end)
    BY <1>1, <1>2, <1>3, WalkFinds
<1>5. gap \in end.gaps \cup Gap(end.at, ShiftEnd(d))
    BY <1>2 DEF Gaps
<1>6. CASE gap \in end.gaps
    BY <1>2, <1>4, <1>6 DEF FreeGaps
<1>7. CASE gap \in Gap(end.at, ShiftEnd(d))
  <2>1. end.at \in Int
      BY <1>4 DEF FreeGaps
  <2>2. end.at < ShiftEnd(d) /\ gap.from = end.at /\ gap.to = ShiftEnd(d)
      BY <1>1, <1>7, <2>1, GapIs
  <2>3. \A b \in S : booking[b].to <= end.at
      BY <1>1, <1>4, <2>1, <2>2 DEF FreeGaps
  <2> QED BY <1>1, <1>2, <1>4, <2>2, <2>3 DEF FreeGaps
<1> QED BY <1>5, <1>6, <1>7

\* A slot is in its gap, but for less than a minute before it.
LEMMA SlotOfGap ==
    ASSUME NEW d, NEW gap, {ShiftStart(d), gap.from, gap.to} \subseteq Int,
           gap.from >= ShiftStart(d), NEW s \in SlotsIn(d, gap)
    PROVE  s \in Int /\ ShiftStart(d) <= s /\ gap.from < s + Minute /\ s + Duration <= gap.to
<1>1. {Minute, Interval, Duration} \subseteq Nat \ {0}
    BY CalendarAssumption
<1>2. PICK a \in Nat : a = gap.from - ShiftStart(d)
    OBVIOUS
<1>3. PICK c \in Nat : /\ c = ((a \div Minute) + Interval - 1) \div Interval
                       /\ a < c * Interval * Minute + Minute
    BY Rounding
<1>4. FirstSlot(d, gap) = ShiftStart(d) + c * Interval * Minute
    BY <1>2, <1>3 DEF FirstSlot
<1>5. c * Interval * Minute \in Nat
    BY <1>1
<1>6. s \in FirstSlot(d, gap)..(gap.to - Duration)
    BY DEF SlotsIn
<1> QED BY <1>1, <1>2, <1>3, <1>4, <1>5, <1>6

\* The page offers what a booking accepts, but for the exceptions named: among
\* them the dates that differ between the center's zone and the server's
\* (availability.station.ts:24-169, reservation.station.ts:148-224).
THEOREM OffersAreRight == Spec => []OffersAreBookable
<1>1. ASSUME TypeOK PROVE OffersAreBookable
  <2> SUFFICES ASSUME NEW w \in Windows, NEW named \in BOOLEAN,
                      NEW d \in DaysShown(w, named), NEW s \in Slots(w, d),
                      ~(s < now), open = Switches, Unseen(w, d, s) = {},
                      ~EndsWithinMinute(s), ~Stretched(d), SameDate(d), SameDate(s)
               PROVE  Bookable(s)
      BY DEF OffersAreBookable
  <2>1. d \in Nat /\ Works(d)
      BY CursorsAreTimes DEF DaysShown
  <2>2. PICK gap \in Gaps(w, d) : s \in SlotsIn(d, gap)
      BY DEF Slots
  <2>3. {Minute, Interval, Duration, DayLength} \subseteq Nat \ {0} /\ now \in Nat
      BY <1>1, CalendarAssumption DEF TypeOK
  <2>4. /\ {gap.from, gap.to} \subseteq Int /\ gap.from >= ShiftStart(d)
        /\ gap.to = ShiftEnd(d) \/ \E b \in Busy(w, d) : gap.to = booking[b].from
        /\ \A b \in Busy(w, d) : booking[b].to <= gap.from \/ booking[b].from >= gap.to
      BY <1>1, <2>1, GapsAreFree
  <2>5. {ShiftStart(d), ShiftEnd(d)} \subseteq Int
      BY <1>1, <2>1, ShiftTimes
  <2>6. s \in Int /\ ShiftStart(d) <= s /\ gap.from < s + Minute /\ s + Duration <= gap.to
      BY <2>2, <2>4, <2>5, SlotOfGap
  <2>7. \A b \in Held : {booking[b].from, booking[b].to} \subseteq Nat
      BY <1>1 DEF TypeOK, Held, Row
  <2>8. gap.to <= ShiftEnd(d)
    <3>1. ASSUME NEW b \in Busy(w, d), gap.to = booking[b].from PROVE gap.to <= ShiftEnd(d)
      <4>1. b \in Held /\ Date(booking[b].from) = Date(d)
          BY DEF Busy, Fetched
      <4>2. ~(booking[b].from > ShiftEnd(d))
          BY <4>1 DEF Stretched
      <4> QED BY <2>5, <2>7, <3>1, <4>1, <4>2
    <3> QED BY <2>4, <2>5, <3>1
  <2>9. FitsShift(s, s + Duration)
    <3>1. s + Duration <= ShiftEnd(d) /\ s < ShiftEnd(d)
        BY <2>3, <2>4, <2>5, <2>6, <2>8
    <3>2. CenterDate(s) = Date(d)
        BY <1>1, <2>1, <2>6, <3>1, WithinShift
    <3>3. CenterDate(s) = CenterDate(d) /\ Date(s) = Date(d)
        BY <3>2 DEF SameDate
    <3>4. Works(s) /\ ShiftStart(s) = ShiftStart(d) /\ ShiftEnd(s) = ShiftEnd(d)
        BY <2>1, <3>3, SameShift
    <3> QED BY <2>5, <2>6, <3>1, <3>4 DEF FitsShift
  <2>10. ASSUME NEW b \in Overlapping(s, s + Duration) PROVE FALSE
    <3>1. /\ b \in Held /\ booking[b].from < s + Duration /\ booking[b].to > s
          /\ booking[b].status \in {"PENDING", "CONFIRMED", "COMPLETED"}
        BY DEF Overlapping, Meets
    <3>2. /\ ~(booking[b].from < w.from) /\ ~(booking[b].to > w.to)
          /\ Date(booking[b].from) = Date(d)
        BY DEF Unseen
    <3>3. w.from \in Nat /\ w.to \in Nat /\ {booking[b].from, booking[b].to} \subseteq Nat
        BY <2>7, <3>1, CalendarAssumption
    <3>4. b \in Busy(w, d)
        BY <3>1, <3>2, <3>3 DEF Busy, Fetched
    <3>5. booking[b].to <= gap.from
        BY <2>3, <2>4, <2>6, <3>1, <3>3, <3>4
    <3>6. booking[b].to - s \in 1..(Minute - 1)
        BY <2>3, <2>4, <2>6, <3>1, <3>3, <3>5
    <3> QED BY <3>6 DEF EndsWithinMinute
  <2>11. s >= now
      BY <2>3, <2>6
  <2> QED BY <2>9, <2>10, <2>11 DEF Bookable
<1> QED BY <1>1, TypeCorrect, PTL

\* An instant of the shift's grid is on the grid of every gap that contains it.
LEMMA GridOfGap ==
    ASSUME NEW d, NEW gap, {ShiftStart(d), gap.from, gap.to} \subseteq Int,
           gap.from >= ShiftStart(d), NEW s \in Int, ShiftStart(d) <= s,
           (s - ShiftStart(d)) % (Interval * Minute) = 0,
           gap.from <= s, s + Duration <= gap.to
    PROVE  s \in SlotsIn(d, gap)
<1>1. {Minute, Interval, Duration} \subseteq Nat \ {0}
    BY CalendarAssumption
<1>2. PICK step \in Nat \ {0} : step = Interval * Minute
    BY <1>1
<1>3. \A c \in Nat : c * Interval * Minute = c * step /\ c * step \in Nat
    BY <1>1, <1>2
<1>4. PICK k \in Nat : s - ShiftStart(d) = k * step
  <2>1. s - ShiftStart(d) \in Nat
      OBVIOUS
  <2> QED BY <1>2, <2>1, Multiple
<1>5. PICK a \in Nat : a = gap.from - ShiftStart(d)
    OBVIOUS
<1>6. PICK c \in Nat : /\ c = ((a \div Minute) + Interval - 1) \div Interval
                       /\ \A m \in Nat : a <= m * Interval * Minute => c <= m
    BY Rounding
<1>7. FirstSlot(d, gap) = ShiftStart(d) + c * step
    BY <1>3, <1>5, <1>6 DEF FirstSlot
<1>8. c <= k
    BY <1>3, <1>4, <1>5, <1>6
<1>9. PICK m \in Nat : k = c + m
  <2>1. k - c \in Nat
      BY <1>8
  <2> QED BY <2>1
<1>10. s - FirstSlot(d, gap) = m * step
  <2>1. k * step = c * step + m * step
      BY <1>2, <1>9
  <2> QED BY <1>2, <1>3, <1>4, <1>7, <2>1
<1>11. (s - FirstSlot(d, gap)) % step = 0
    BY <1>2, <1>3, <1>10, Multiple
<1>12. FirstSlot(d, gap) \in Int /\ s >= FirstSlot(d, gap)
    BY <1>3, <1>7, <1>10
<1> QED BY <1>1, <1>2, <1>11, <1>12 DEF SlotsIn

\* A time that the booking accepts has the same date on both clocks.
LEMMA FittingDate ==
    ASSUME TypeOK, NEW s \in Int, NEW to \in Int, s < to, FitsShift(s, to)
    PROVE  /\ SameDate(s) /\ Works(s)
           /\ {ShiftStart(s), ShiftEnd(s)} \subseteq Int
           /\ ShiftStart(s) <= s /\ to <= ShiftEnd(s)
<1>1. Works(s) /\ s >= ShiftStart(s) /\ to <= ShiftEnd(s)
    BY DEF FitsShift
<1>2. {ShiftStart(s), ShiftEnd(s)} \subseteq Int
    BY <1>1, ShiftTimes
<1>3. ShiftStart(s) <= s /\ s < ShiftEnd(s)
    BY <1>1, <1>2
<1>4. CenterDate(s) = Date(s)
    BY <1>1, <1>3, WithinShift
<1> QED BY <1>1, <1>2, <1>3, <1>4 DEF SameDate

\* The page shows what could be booked, but for what a session in progress
\* covers and for the days of whose weekday it asks while the center has
\* another date (availability.repo.ts:52, reservation.repo.ts:60).
THEOREM NothingIsHidden == Spec => []NothingHidden
<1>1. ASSUME TypeOK PROVE NothingHidden
  <2> SUFFICES ASSUME NEW w \in Windows, NEW d \in Cursors(w), NEW s \in BookableOn(d),
                      ~ \E b \in Held : /\ booking[b].status = "IN_PROGRESS"
                                        /\ Meets(b, s, s + Duration),
                      SameDate(d)
               PROVE  s \in GetAvailableSlots(w, FALSE)
      BY DEF NothingHidden
  <2>1. d \in Nat
      BY CursorsAreTimes
  <2>2. Duration \in Nat \ {0} /\ DayLength \in Nat \ {0}
      BY CalendarAssumption
  <2>3. Date(d) \in Int
      BY <2>1, DayOf DEF Date
  <2>4. PICK m \in Int : m = Date(d) * DayLength
      BY <2>2, <2>3
  <2>5. /\ s \in Int /\ m <= s /\ s < m + DayLength
        /\ Bookable(s) /\ (s - ShiftStart(s)) % (Interval * Minute) = 0
    <3>1. (Date(d) + 1) * DayLength = m + DayLength
        BY <2>2, <2>3, <2>4
    <3>2. s \in (Date(d) * DayLength)..((Date(d) + 1) * DayLength - 1)
        BY DEF BookableOn
    <3>3. s \in Int /\ m <= s /\ s < m + DayLength
        BY <2>2, <2>4, <3>1, <3>2
    <3> QED BY <3>3 DEF BookableOn
  <2>6. Date(s) = Date(d)
      BY <2>3, <2>4, <2>5, DayOf DEF Date
  <2>7. /\ SameDate(s) /\ Works(s)
        /\ {ShiftStart(s), ShiftEnd(s)} \subseteq Int
        /\ ShiftStart(s) <= s /\ s + Duration <= ShiftEnd(s)
    <3>1. s + Duration \in Int /\ s < s + Duration
        BY <2>2, <2>5
    <3> QED BY <1>1, <2>5, <3>1, FittingDate DEF Bookable
  <2>8. /\ Works(d) /\ ShiftStart(s) = ShiftStart(d) /\ ShiftEnd(s) = ShiftEnd(d)
    <3>1. CenterDate(s) = CenterDate(d)
        BY <2>6, <2>7 DEF SameDate
    <3> QED BY <2>6, <2>7, <3>1, SameShift
  <2>9. PICK S, end : S = Busy(w, d) /\ end = Walk(d, S)
      OBVIOUS
  <2>10. S \in SUBSET Held
      BY <2>9 DEF Busy, Fetched
  <2>11. ASSUME NEW b \in S PROVE ~Meets(b, s, s + Duration)
    <3>1. b \in Held /\ booking[b].status \notin {"CANCELED", "NO_SHOW"}
        BY <2>9 DEF Busy, Fetched
    <3>2. booking[b].status \in {"PENDING", "CONFIRMED", "COMPLETED", "IN_PROGRESS"}
        BY <1>1, <3>1 DEF TypeOK, Held, Row, ReservationStatus
    <3>3. Overlapping(s, s + Duration) = {}
        BY <2>5 DEF Bookable
    <3> QED BY <3>1, <3>2, <3>3 DEF Overlapping
  <2>12. {ShiftStart(d), ShiftEnd(d)} \subseteq Int /\ ShiftStart(d) <= s
         /\ s + Duration <= ShiftEnd(d) /\ s < ShiftEnd(d)
    <3>1. {ShiftStart(d), ShiftEnd(d)} \subseteq Int /\ ShiftStart(d) <= s
          /\ s + Duration <= ShiftEnd(d)
        BY <2>7, <2>8
    <3> QED BY <2>2, <2>5, <3>1
  <2>13. FreeGaps(d, S, end) /\ SlotLeft(s, end)
      BY <1>1, <2>5, <2>9, <2>10, <2>11, <2>12, WalkFinds
  <2>14. \E gap \in Gaps(w, d) : gap.from <= s /\ s + Duration <= gap.to
    <3>1. Gaps(w, d) = end.gaps \cup Gap(end.at, ShiftEnd(d))
        BY <2>9 DEF Gaps
    <3>2. CASE ~end.done /\ end.at <= s
      <4>1. end.at \in Int /\ end.at < ShiftEnd(d)
          BY <2>5, <2>12, <2>13, <3>2 DEF FreeGaps
      <4>2. [from |-> end.at, to |-> ShiftEnd(d)] \in Gap(end.at, ShiftEnd(d))
          BY <4>1 DEF Gap
      <4> QED BY <2>12, <3>1, <3>2, <4>2
    <3> QED BY <2>13, <3>1, <3>2 DEF SlotLeft
  <2>15. PICK gap \in Gaps(w, d) : gap.from <= s /\ s + Duration <= gap.to
      BY <2>14
  <2>16. {gap.from, gap.to} \subseteq Int /\ gap.from >= ShiftStart(d)
      BY <1>1, <2>1, <2>8, GapsAreFree
  <2>17. (s - ShiftStart(d)) % (Interval * Minute) = 0
      BY <2>5, <2>8
  <2>18. s \in SlotsIn(d, gap)
      BY <2>5, <2>12, <2>15, <2>16, <2>17, GridOfGap
  <2>19. s \in Slots(w, d)
      BY <2>18 DEF Slots
  <2>20. ShowsStaff(FALSE)
      BY <2>5 DEF ShowsStaff, Bookable, Switches
  <2> QED BY <2>8, <2>19, <2>20 DEF GetAvailableSlots, DaysShown
<1> QED BY <1>1, TypeCorrect, PTL

\* Whatever the two zones are, what a booking or an edit accepts lies in the
\* center's hours of the center's weekday (reservation.station.ts:198-218,
\* 404-430, common/utils/date.ts:19-22).
THEOREM HoursAreKept == Spec => []BookedInCenterHours
<1>1. ASSUME TypeOK PROVE BookedInCenterHours
  <2> SUFFICES ASSUME NEW t \in Starts, NEW n \in Lengths \cup {Duration},
                      FitsShift(t, t + n)
               PROVE  InCenterHours(t, t + n)
      BY DEF BookedInCenterHours
  <2>1. t \in Int /\ t + n \in Int /\ t < t + n
    <3>1. t \in Nat /\ n \in Nat \ {0}
        BY CalendarAssumption
    <3> QED BY <3>1
  <2>2. /\ SameDate(t) /\ Works(t)
        /\ {ShiftStart(t), ShiftEnd(t)} \subseteq Int
        /\ ShiftStart(t) <= t /\ t + n <= ShiftEnd(t)
      BY <1>1, <2>1, FittingDate
  <2>3. DayLength \in Nat \ {0} /\ Week \in Nat \ {0} /\ ahead \in Int
      BY <1>1, CalendarAssumption DEF TypeOK
  <2>4. CenterDate(t) = Date(t) /\ CenterDate(t) \in Int
    <3>1. Date(t) \in Int
        BY <2>1, DayOf DEF Date
    <3> QED BY <2>2, <3>1 DEF SameDate
  <2>5. CenterDate(t) % Week \in 0..(Week - 1)
      BY <2>3, <2>4
  <2>6. ShiftOf(t) \in Hours
      BY <1>1, <2>2, <2>5 DEF TypeOK, Works, ShiftOf
  <2>7. PICK from \in 0..(DayLength - 1), to \in 0..(DayLength - 1) :
            from = ShiftOf(t).from /\ to = ShiftOf(t).to
      BY <2>6, CalendarAssumption
  <2>8. PICK m \in Int : m = CenterDate(t) * DayLength
      BY <2>3, <2>4
  <2>9. ShiftStart(t) = m + from - ahead /\ ShiftEnd(t) = m + to - ahead
      BY <2>4, <2>7, <2>8 DEF ShiftStart, ShiftEnd
  <2>10. t + ahead >= m + from /\ (t + n) + ahead <= m + to
      BY <2>1, <2>2, <2>3, <2>7, <2>9
  <2> QED BY <2>2, <2>7, <2>8, <2>10 DEF InCenterHours
<1> QED BY <1>1, TypeCorrect, PTL
====
