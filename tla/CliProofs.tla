----------------------------- MODULE CliProofs -----------------------------
(***************************************************************************)
(* Theorems about the command line (MCCli): its calibration, the device it *)
(* shares, one run on a deck and the frequencies it solves at.             *)
(***************************************************************************)
EXTENDS MCCli, FunctionTheorems, FiniteSetTheorems, SequenceTheorems,
        WellFoundedInduction, TLAPS

-----------------------------------------------------------------------------
(* The calibration                                                         *)

\* A process has tries left when it comes to take the lock.
TriesLeft == \A p \in Procs :
                /\ pc[p] = "take" => tries[p] < 2
                /\ pc[p] \in {"load", "offer", "ask"} => tries[p] = 0

\* As long as nobody was robbed, whoever is measuring made the lock that is on disk.
LockIsHeld == ~robbed => \A p \in Cal!Holding : lock # None /\ lock.owner = p

WholeOnDisk == cal \in Cal!Keys \cup {None}

CalInv == Cal!TypeOK /\ TriesLeft /\ LockIsHeld /\ WholeOnDisk /\ Cal!LockIsReleased

LEMMA CalInit ==
    ASSUME NEW cals, cals \subseteq Cal!Keys \cup {None},
           NEW locks, locks \subseteq {None, [owner |-> None, old |-> TRUE]},
           NEW declines, declines \subseteq Cal!Keys \cup {None},
           Cal!InitWith(cals, locks, declines)
    PROVE  CalInv
<1> USE DEF Cal!InitWith, Cal!Keys
<1>1. Cal!TypeOK
  <2> DEFINE gone == [owner |-> None, old |-> TRUE]
  <2>0. gone \in [owner : Procs \cup {None}, old : BOOLEAN]
    OBVIOUS
  <2> HIDE DEF gone
  <2>1. lock \in [owner : Procs \cup {None}, old : BOOLEAN] \cup {None}
    BY <2>0 DEF gone
  <2>2. pc \in [Procs -> Cal!Steps]
    BY DEF Cal!Steps
  <2>3. /\ tries \in [Procs -> 0 .. 2] /\ loaded \in [Procs -> Cal!Keys \cup {None}]
        /\ fresh \in [Procs -> {Host, None}] /\ exec \in [Procs -> {"cpu", "gpu", None}]
    OBVIOUS
  <2>4. cal \in Cal!Keys \cup {None, "half"} /\ declined \in Cal!Keys \cup {None}
        /\ robbed \in BOOLEAN
    OBVIOUS
  <2> HIDE DEF Cal!InitWith, Cal!Keys
  <2> QED BY <2>1, <2>2, <2>3, <2>4 DEF Cal!TypeOK
<1>2. TriesLeft /\ LockIsHeld /\ WholeOnDisk
  BY DEF TriesLeft, LockIsHeld, WholeOnDisk, Cal!Holding
<1>3. Cal!LockIsReleased
  BY CliAndCommands DEF Cal!LockIsReleased
<1> QED BY <1>1, <1>2, <1>3 DEF CalInv

LEMMA CalStepTypes ==
    ASSUME CalInv, [Cal!Next]_calVars
    PROVE  Cal!TypeOK' /\ TriesLeft' /\ WholeOnDisk'
<1> USE DEF CalInv, Cal!TypeOK, Cal!Steps, Cal!Keys, TriesLeft, WholeOnDisk
<1> DEFINE Goal == Cal!TypeOK' /\ TriesLeft' /\ WholeOnDisk'
<1>1. CASE UNCHANGED calVars
  BY <1>1 DEF calVars
<1>2. CASE Cal!Ages
  BY <1>2 DEF Cal!Ages
<1>3. ASSUME NEW p \in Procs, Cal!Step(p) \/ Cal!Crash(p) PROVE Goal
  <2> USE DEF Cal!Goes
  <2>1. CASE Cal!Load(p)
    BY <2>1 DEF Cal!Load
  <2>2. CASE Cal!Offer(p)
    BY <2>2 DEF Cal!Offer
  <2>3. CASE Cal!Answer(p)
    BY <2>3 DEF Cal!Answer
  <2>4. CASE Cal!Decline(p)
    BY <2>4 DEF Cal!Decline
  <2>5. CASE Cal!TakeLock(p)
    BY <2>5 DEF Cal!TakeLock
  <2>6. CASE Cal!StatLock(p)
    BY <2>6 DEF Cal!StatLock, Cal!Without
  <2>7. CASE Cal!RemoveStale(p)
    BY <2>7 DEF Cal!RemoveStale, Cal!Remove, Cal!Without
  <2>8. CASE Cal!Measure(p)
    BY <2>8 DEF Cal!Measure
  <2>9. CASE Cal!Write(p)
    BY <2>9 DEF Cal!Write, Cal!Renamed, Cal!WriteFails
  <2>10. CASE Cal!Unmark(p)
    BY <2>10 DEF Cal!Unmark
  <2>11. CASE Cal!DropLock(p)
    BY <2>11 DEF Cal!DropLock, Cal!Released, Cal!Remove, Cal!Without
  <2>12. CASE Cal!Pick(p)
    BY <2>12 DEF Cal!Pick
  <2>13. CASE Cal!Crash(p)
    BY <2>13 DEF Cal!Crash
  <2> QED BY <1>3, <2>1, <2>2, <2>3, <2>4, <2>5, <2>6, <2>7, <2>8, <2>9, <2>10, <2>11,
             <2>12, <2>13 DEF Cal!Step
<1> QED BY <1>1, <1>2, <1>3 DEF Cal!Next

\* Whoever leaves the lock behind was killed; a lock removed under a measuring process
\* marks the behaviour as robbed.
LEMMA CalStepLock ==
    ASSUME CalInv, [Cal!Next]_calVars
    PROVE  LockIsHeld' /\ Cal!LockIsReleased'
<1> USE CliAndCommands DEF Cal!CalibrationAssumption
<1>0. CalInv /\ Cal!TypeOK
  BY DEF CalInv
<1> USE <1>0 DEF CalInv, Cal!TypeOK, LockIsHeld, Cal!Holding, Cal!LockIsReleased
<1> DEFINE Goal == LockIsHeld' /\ Cal!LockIsReleased'
<1>1. CASE UNCHANGED calVars
  BY <1>1 DEF calVars
<1>2. CASE Cal!Ages
  <2>1. lock \in [owner : Procs \cup {None}, old : BOOLEAN]
    BY <1>2 DEF Cal!Ages
  <2>2. lock' # None /\ lock'.owner = lock.owner /\ pc' = pc /\ robbed' = robbed
    <3>1. lock' = [owner |-> lock.owner, old |-> TRUE] /\ pc' = pc /\ robbed' = robbed
      BY <1>2 DEF Cal!Ages
    <3>2. [owner |-> lock.owner, old |-> TRUE] \in [owner : Procs \cup {None}, old : BOOLEAN]
      BY <2>1
    <3> QED BY <3>1, <3>2
  <2>3. lock # None
    BY <1>2 DEF Cal!Ages
  <2> QED BY <2>2, <2>3
<1>3. ASSUME NEW p \in Procs, Cal!Step(p) \/ Cal!Crash(p) PROVE Goal
  <2> USE DEF Cal!Goes
  <2>1. CASE Cal!Load(p)
    BY <2>1 DEF Cal!Load
  <2>2. CASE Cal!Offer(p)
    BY <2>2 DEF Cal!Offer
  <2>3. CASE Cal!Answer(p)
    BY <2>3 DEF Cal!Answer
  <2>4. CASE Cal!Decline(p)
    BY <2>4 DEF Cal!Decline
  <2>5. CASE Cal!TakeLock(p)
    <3>1. CASE lock = None
      <4>1. lock' # None /\ lock'.owner = p /\ pc' = [pc EXCEPT ![p] = "measure"]
        <5>1. lock' = [owner |-> p, old |-> FALSE] /\ pc' = [pc EXCEPT ![p] = "measure"]
          BY <2>5, <3>1 DEF Cal!TakeLock, Cal!LockFree
        <5>2. [owner |-> p, old |-> FALSE] \in [owner : Procs \cup {None}, old : BOOLEAN]
          OBVIOUS
        <5> QED BY <5>1, <5>2
      <4>2. robbed' = robbed /\ (~robbed => Cal!Holding = {})
        BY <2>5, <3>1 DEF Cal!TakeLock
      <4> QED BY <4>1, <4>2
    <3>2. CASE lock # None
      <4>1. lock' = lock /\ robbed' = robbed /\ pc[p] = "take"
            /\ pc' = [pc EXCEPT ![p] = "stat"]
        BY <2>5, <3>2 DEF Cal!TakeLock, Cal!LockFree
      <4> QED BY <3>2, <4>1
    <3> QED BY <3>1, <3>2
  <2>6. CASE Cal!StatLock(p)
    BY <2>6 DEF Cal!StatLock, Cal!Without
  <2>7. CASE Cal!RemoveStale(p)
    BY <2>7 DEF Cal!RemoveStale, Cal!Remove, Cal!Without
  <2>8. CASE Cal!Measure(p)
    BY <2>8 DEF Cal!Measure
  <2>9. CASE Cal!Write(p)
    BY <2>9 DEF Cal!Write, Cal!Renamed, Cal!WriteFails
  <2>10. CASE Cal!Unmark(p)
    BY <2>10 DEF Cal!Unmark
  <2>11. CASE Cal!DropLock(p)
    BY <2>11 DEF Cal!DropLock, Cal!Released, Cal!Remove, Cal!Without
  <2>12. CASE Cal!Pick(p)
    BY <2>12 DEF Cal!Pick
  <2>13. CASE Cal!Crash(p)
    BY <2>13 DEF Cal!Crash
  <2> QED BY <1>3, <2>1, <2>2, <2>3, <2>4, <2>5, <2>6, <2>7, <2>8, <2>9, <2>10, <2>11,
             <2>12, <2>13 DEF Cal!Step
<1> QED BY <1>1, <1>2, <1>3 DEF Cal!Next

LEMMA CalKeeps ==
    ASSUME CalInv, [Cal!Next]_calVars
    PROVE  CalInv'
BY CalStepTypes, CalStepLock DEF CalInv

LEMMA CalInvMeasures == ASSUME CalInv PROVE MeasuresAlone
<1>1. Cal!MeasuresAlone
  BY DEF CalInv, LockIsHeld, Cal!MeasuresAlone
<1>2. Cal!ReadsWhole
  BY CliAndCommands
     DEF CalInv, Cal!TypeOK, Cal!ReadsWhole, Cal!Keys, Cal!CalibrationAssumption
<1> QED BY <1>1, <1>2 DEF CalInv, MeasuresAlone
-----------------------------------------------------------------------------
(* Counting down and up                                                    *)

LEMMA LeastOf ==
    ASSUME NEW S, S \subseteq Nat, S # {}
    PROVE  \E m \in S : \A k \in S : m <= k
<1> DEFINE Below == OpToRel(<, Nat)
<1>1. IsWellFoundedOn(Below, Nat)
  BY NatLessThanWellFounded
<1>2. \A x, y \in Nat : x < y => <<x, y>> \in Below
  BY DEF OpToRel
<1> HIDE DEF Below
<1>3. PICK m \in S : \A y \in S : <<y, m>> \notin Below
  BY <1>1, WFMin
<1>4. \A y \in S : m <= y
  <2> TAKE y \in S
  <2>1. ~(y < m)
    BY <1>2, <1>3
  <2> QED BY <2>1
<1> QED BY <1>3, <1>4

Follows(f, a, step) == f[0] = a /\ \A n \in Nat : f[n + 1] = step[<<n, f[n]>>]

\* A function that is defined from one argument to the next exists.
LEMMA Recursion ==
    ASSUME NEW S, NEW a \in S, NEW step \in [Nat \X S -> S]
    PROVE  \E f \in [Nat -> S] : Follows(f, a, step)
<1> DEFINE Upto(n, g) == /\ g \in [0 .. n -> S] /\ g[0] = a
                         /\ \A i \in 0 .. n - 1 : g[i + 1] = step[<<i, g[i]>>]
<1>1. \A n \in Nat : \E g : Upto(n, g)
  <2> DEFINE Bad == {n \in Nat : ~\E g : Upto(n, g)}
  <2> SUFFICES ASSUME Bad # {} PROVE FALSE
    OBVIOUS
  <2>1. PICK m \in Bad : \A k \in Bad : m <= k
    BY LeastOf
  <2>2. m \in Nat /\ ~\E g : Upto(m, g)
    OBVIOUS
  <2>3. m # 0
    <3> SUFFICES ASSUME m = 0 PROVE FALSE
      OBVIOUS
    <3>1. Upto(0, [i \in 0 .. 0 |-> a])
      OBVIOUS
    <3> QED BY <2>2, <3>1
  <2>4. m - 1 \in Nat /\ m - 1 \notin Bad
    <3> HIDE DEF Bad, Upto
    <3> QED BY <2>1, <2>2, <2>3
  <2>5. PICK g : Upto(m - 1, g)
    BY <2>4
  <2> DEFINE h == [i \in 0 .. m |-> IF i = m THEN step[<<m - 1, g[m - 1]>>] ELSE g[i]]
  <2>6. g[m - 1] \in S
    BY <2>4, <2>5
  <2>7. h \in [0 .. m -> S]
    <3> SUFFICES ASSUME NEW i \in 0 .. m
                 PROVE  (IF i = m THEN step[<<m - 1, g[m - 1]>>] ELSE g[i]) \in S
      OBVIOUS
    <3>1. CASE i = m
      BY <2>4, <2>6, <3>1
    <3>2. CASE i # m
      <4>1. i \in 0 .. m - 1
        BY <2>2, <3>2
      <4> QED BY <2>5, <3>2, <4>1
    <3> QED BY <3>1, <3>2
  <2>8. h[0] = a
    BY <2>2, <2>3, <2>5
  <2>9. \A i \in 0 .. m - 1 : h[i + 1] = step[<<i, h[i]>>]
    <3> SUFFICES ASSUME NEW i \in 0 .. m - 1 PROVE h[i + 1] = step[<<i, h[i]>>]
      OBVIOUS
    <3>1. h[i] = g[i] /\ i + 1 \in 0 .. m /\ i \in Nat
      BY <2>2
    <3>2. CASE i = m - 1
      <4>1. i + 1 = m
        BY <2>2, <3>2
      <4> QED BY <3>1, <3>2, <4>1
    <3>3. CASE i # m - 1
      <4>1. i \in 0 .. (m - 1) - 1 /\ i + 1 # m
        BY <2>2, <3>3
      <4>2. g[i + 1] = step[<<i, g[i]>>]
        BY <2>5, <4>1
      <4> QED BY <3>1, <4>1, <4>2
    <3> QED BY <3>2, <3>3
  <2>10. Upto(m, h)
    BY <2>7, <2>8, <2>9
  <2> QED BY <2>2, <2>10
<1>2. ASSUME NEW n \in Nat, NEW m \in Nat, NEW g, NEW h, Upto(n, g), Upto(m, h),
             NEW i \in (0 .. n) \cap (0 .. m)
      PROVE  g[i] = h[i]
  <2> DEFINE Bad == {k \in (0 .. n) \cap (0 .. m) : g[k] # h[k]}
  <2> SUFFICES ASSUME Bad # {} PROVE FALSE
    OBVIOUS
  <2>1. PICK k \in Bad : \A j \in Bad : k <= j
    <3>1. Bad \subseteq Nat
      OBVIOUS
    <3> HIDE DEF Bad
    <3> QED BY <3>1, LeastOf
  <2>2. k # 0 /\ k \in (0 .. n) \cap (0 .. m) /\ g[k] # h[k]
    BY <1>2
  <2>3. k - 1 \in (0 .. n) \cap (0 .. m) /\ k - 1 \in 0 .. n - 1 /\ k - 1 \in 0 .. m - 1
        /\ k - 1 < k /\ (k - 1) + 1 = k
    BY <2>2
  <2>4. g[k - 1] = h[k - 1]
    <3>1. k - 1 \notin Bad
      BY <2>1, <2>3
    <3> QED BY <2>3, <3>1
  <2>5. g[k] = step[<<k - 1, g[k - 1]>>] /\ h[k] = step[<<k - 1, h[k - 1]>>]
    BY <1>2, <2>3
  <2> QED BY <2>2, <2>4, <2>5
<1> DEFINE best(n) == CHOOSE g : Upto(n, g)
<1>3. \A n \in Nat : Upto(n, best(n))
  BY <1>1
<1> DEFINE f == [n \in Nat |-> best(n)[n]]
<1>4. f \in [Nat -> S]
  <2> SUFFICES ASSUME NEW n \in Nat PROVE best(n)[n] \in S
    OBVIOUS
  <2> HIDE DEF best
  <2>1. best(n) \in [0 .. n -> S] /\ n \in 0 .. n
    BY <1>3
  <2> QED BY <2>1
<1>5. f[0] = a
  <2>1. Upto(0, best(0))
    BY <1>3
  <2> HIDE DEF best
  <2> QED BY <2>1
<1>6. \A n \in Nat : f[n + 1] = step[<<n, f[n]>>]
  <2> SUFFICES ASSUME NEW n \in Nat PROVE f[n + 1] = step[<<n, f[n]>>]
    OBVIOUS
  <2> HIDE DEF best
  <2>1. Upto(n, best(n)) /\ Upto(n + 1, best(n + 1)) /\ n + 1 \in Nat
    BY <1>3
  <2>2. best(n + 1)[n + 1] = step[<<n, best(n + 1)[n]>>]
    <3>1. n \in 0 .. (n + 1) - 1
      OBVIOUS
    <3> QED BY <2>1, <3>1
  <2>3. best(n + 1)[n] = best(n)[n]
    <3>1. n \in (0 .. n + 1) \cap (0 .. n)
      OBVIOUS
    <3> HIDE DEF Upto
    <3> QED BY <1>2, <2>1, <3>1
  <2> QED BY <2>1, <2>2, <2>3
<1> HIDE DEF f
<1> QED BY <1>4, <1>5, <1>6 DEF Follows
-----------------------------------------------------------------------------
(* The device                                                              *)

LEMMA LesserOf ==
    ASSUME NEW a \in Int, NEW b \in Int
    PROVE  Device!Min({a, b}) = IF a <= b THEN a ELSE b
<1>1. \A m \in {a, b} : (\A y \in {a, b} : m <= y) => m = IF a <= b THEN a ELSE b
  OBVIOUS
<1>2. \E m \in {a, b} : \A y \in {a, b} : m <= y
  OBVIOUS
<1> QED BY <1>1, <1>2 DEF Device!Min

LEMMA GreaterOf ==
    ASSUME NEW a \in Int, NEW b \in Int
    PROVE  Device!Max({a, b}) = IF a >= b THEN a ELSE b
<1>1. \A m \in {a, b} : (\A y \in {a, b} : m >= y) => m = IF a >= b THEN a ELSE b
  OBVIOUS
<1>2. \E m \in {a, b} : \A y \in {a, b} : m >= y
  OBVIOUS
<1> QED BY <1>1, <1>2 DEF Device!Max

LEMMA DoubledIs ==
    /\ Device!Doubled[0] = 1
    /\ \A n \in Nat : Device!Doubled[n] \in Nat /\ Device!Doubled[n + 1] = 2 * Device!Doubled[n]
<1> DEFINE step == [p \in Nat \X Nat |-> 2 * p[2]]
           D(g) == [n \in Nat |-> IF n = 0 THEN 1 ELSE 2 * g[n - 1]]
<1>1. step \in [Nat \X Nat -> Nat] /\ \A n, k \in Nat : step[<<n, k>>] = 2 * k
  OBVIOUS
<1> HIDE DEF step
<1>2. PICK f \in [Nat -> Nat] : f[0] = 1 /\ \A n \in Nat : f[n + 1] = step[<<n, f[n]>>]
  <2>1. 1 \in Nat /\ step \in [Nat \X Nat -> Nat]
    BY <1>1
  <2>2. \E f \in [Nat -> Nat] : Follows(f, 1, step)
    BY <2>1, Recursion
  <2> HIDE DEF D
  <2> QED BY <2>2 DEF Follows
<1>3. f = D(f)
  <2> SUFFICES ASSUME NEW n \in Nat PROVE f[n] = D(f)[n]
    OBVIOUS
  <2>1. CASE n = 0
    BY <1>2, <2>1
  <2>2. CASE n # 0
    <3>1. n - 1 \in Nat /\ (n - 1) + 1 = n
      BY <2>2
    <3>2. f[n] = step[<<n - 1, f[n - 1]>>] /\ f[n - 1] \in Nat
      BY <1>2, <3>1
    <3> QED BY <1>1, <2>2, <3>1, <3>2
  <2> QED BY <2>1, <2>2
<1>4. Device!Doubled = CHOOSE g : g = D(g)
  BY DEF Device!Doubled
<1>5. Device!Doubled = D(Device!Doubled)
  <2> HIDE DEF D
  <2> QED BY <1>3, <1>4
<1> DEFINE d == Device!Doubled
<1>6. d = [n \in Nat |-> IF n = 0 THEN 1 ELSE 2 * d[n - 1]]
  BY <1>5
<1> HIDE DEF d
<1>7. d[0] = 1 /\ \A n \in Nat : d[n + 1] = 2 * d[n]
  BY <1>6
<1>8. \A n \in Nat : d[n] \in Nat
  <2> DEFINE Bad == {n \in Nat : d[n] \notin Nat}
  <2> SUFFICES ASSUME Bad # {} PROVE FALSE
    OBVIOUS
  <2>1. PICK m \in Bad : \A k \in Bad : m <= k
    BY LeastOf
  <2>2. m \in Nat /\ m # 0
    BY <1>7
  <2>3. m - 1 \in Nat /\ m - 1 \notin Bad /\ (m - 1) + 1 = m
    BY <2>1, <2>2
  <2>4. d[m] = 2 * d[m - 1] /\ d[m - 1] \in Nat
    BY <1>7, <2>3
  <2> QED BY <2>4
<1> QED BY <1>7, <1>8 DEF d

LEMMA DoubledGrows ==
    ASSUME NEW m \in Nat, NEW n \in Nat, m <= n
    PROVE  Device!Doubled[m] <= Device!Doubled[n]
<1> DEFINE Bad == {k \in Nat : ~(Device!Doubled[m] <= Device!Doubled[m + k])}
<1>1. Bad = {}
  <2> SUFFICES ASSUME Bad # {} PROVE FALSE
    OBVIOUS
  <2>1. PICK k \in Bad : \A j \in Bad : k <= j
    BY LeastOf
  <2>2. k \in Nat /\ Device!Doubled[m] \in Nat
    BY DoubledIs
  <2>3. k # 0
    BY <2>2
  <2>4. k - 1 \in Nat /\ k - 1 \notin Bad /\ m + (k - 1) \in Nat /\ (m + (k - 1)) + 1 = m + k
    BY <2>1, <2>2, <2>3
  <2>5. Device!Doubled[m + k] = 2 * Device!Doubled[m + (k - 1)]
        /\ Device!Doubled[m + (k - 1)] \in Nat
    BY <2>4, DoubledIs
  <2>6. Device!Doubled[m] <= Device!Doubled[m + (k - 1)]
    BY <2>4
  <2> QED BY <2>1, <2>2, <2>5, <2>6
<1>2. n - m \in Nat /\ m + (n - m) = n
  OBVIOUS
<1> QED BY <1>1, <1>2

\* More failures in a row never earn a shorter wait.
LEMMA BackoffGrows ==
    ASSUME NEW m \in Nat, NEW n \in Nat, m <= n, NEW age \in Int,
           Device!retry_due(n, age)
    PROVE  Device!retry_due(m, age)
<1>0. MAX_BACKOFF \in Nat
  BY CliAndCommands DEF Device!DeviceAssumption
<1> DEFINE Less(k) == IF k = 0 THEN 0 ELSE k - 1
<1>1. \A k \in Nat : Device!Max({k - 1, 0}) = Less(k) /\ Less(k) \in Nat
  BY GreaterOf
<1>2. \A k \in Nat : Device!backoff(k) = Device!Min({Device!Doubled[Less(k)], MAX_BACKOFF})
  BY <1>1 DEF Device!backoff
<1>3. Less(m) <= Less(n) /\ Less(m) \in Nat /\ Less(n) \in Nat
  OBVIOUS
<1> HIDE DEF Less
<1> DEFINE dm == Device!Doubled[Less(m)]
           dn == Device!Doubled[Less(n)]
<1>4. dm <= dn /\ dm \in Nat /\ dn \in Nat
  BY <1>3, DoubledIs, DoubledGrows
<1>5. Device!backoff(m) = Device!Min({dm, MAX_BACKOFF})
      /\ Device!backoff(n) = Device!Min({dn, MAX_BACKOFF})
  BY <1>2
<1> HIDE DEF dm, dn
<1>6. Device!Min({dm, MAX_BACKOFF}) = (IF dm <= MAX_BACKOFF THEN dm ELSE MAX_BACKOFF)
      /\ Device!Min({dn, MAX_BACKOFF}) = (IF dn <= MAX_BACKOFF THEN dn ELSE MAX_BACKOFF)
  BY <1>0, <1>4, LesserOf
<1>7. Device!backoff(m) <= Device!backoff(n) /\ age >= Device!backoff(n)
      /\ Device!backoff(m) \in Int /\ Device!backoff(n) \in Int
  BY <1>0, <1>4, <1>5, <1>6 DEF Device!retry_due
<1> QED BY <1>7 DEF Device!retry_due
\* One builds at a time, and while it does there is no device and it waits for none.
OneBuilds == /\ \A u \in building : held[u] = None /\ building = {u}
             /\ building # {} => cache.st # "ready"

\* The cache remembers at least the failures in a row; a device that has stood while
\* failures are counted has somebody waiting on it for as long.
Remembered == /\ standing = IF cache.st = "ready" THEN 1 ELSE 0
              /\ missed <= cache.failures
              /\ cache.st = "untried" => cache.failures = 0
              /\ cache.st = "ready" /\ missed > 0 =>
                    \E u \in Users : held[u] # None /\ waited[u] >= cache.age

DeviceInv == Device!TypeOK /\ OneBuilds /\ Remembered

LEMMA OneMore ==
    ASSUME NEW n \in 0 .. MaxFailures
    PROVE  /\ Device!One(n) \in 1 .. MaxFailures
           /\ \A m \in 0 .. n : Device!One(m) <= Device!One(n)
<1>1. MaxFailures \in Nat \ {0}
  BY CliAndCommands DEF Device!DeviceAssumption
<1>2. \A m \in 0 .. n : Device!One(m) = IF m + 1 <= MaxFailures THEN m + 1 ELSE MaxFailures
  BY <1>1, LesserOf DEF Device!One
<1> QED BY <1>1, <1>2

LEMMA Aged ==
    ASSUME NEW age \in 0 .. MAX_BACKOFF + 1
    PROVE  Device!Older(age) \in 0 .. MAX_BACKOFF + 1 /\ Device!Older(age) <= age + 1
<1>1. MAX_BACKOFF \in Nat
  BY CliAndCommands DEF Device!DeviceAssumption
<1>2. Device!Older(age) = IF age + 1 <= MAX_BACKOFF + 1 THEN age + 1 ELSE MAX_BACKOFF + 1
  BY <1>1, LesserOf DEF Device!Older
<1> QED BY <1>1, <1>2

LEMMA DeviceInit ==
    ASSUME NEW drivers, drivers \subseteq BOOLEAN, Device!InitWith(drivers)
    PROVE  DeviceInv
<1> USE CliAndCommands DEF Device!DeviceAssumption, Device!InitWith, Device!Cached
<1>1. Device!TypeOK
  <2>1. /\ cache = [st |-> "untried", failures |-> 0, age |-> 0]
        /\ 0 \in 0 .. MaxFailures /\ 0 \in 0 .. MAX_BACKOFF + 1 /\ 0 \in 0 .. GPU_WAIT_TIMEOUT
    OBVIOUS
  <2>2. /\ held \in [Users -> {None, "shared", "old", "lost"}]
        /\ waited \in [Users -> 0 .. GPU_WAIT_TIMEOUT]
    BY <2>1
  <2>3. building = {} /\ driver \in BOOLEAN /\ dead = FALSE /\ standing = 0 /\ missed = 0
        /\ dying = 0
    OBVIOUS
  <2> HIDE DEF Device!InitWith, Device!DeviceAssumption
  <2> QED BY <2>1, <2>2, <2>3 DEF Device!TypeOK
<1>2. OneBuilds /\ Remembered
  BY DEF OneBuilds, Remembered
<1> QED BY <1>1, <1>2 DEF DeviceInv

LEMMA DeviceKeeps ==
    ASSUME DeviceInv, [Device!Next]_deviceVars
    PROVE  DeviceInv'
<1>0. /\ MaxFailures \in Nat \ {0} /\ MAX_BACKOFF \in Nat /\ GPU_WAIT_TIMEOUT \in Nat
      /\ None # "shared" /\ None # "old" /\ None # "lost"
  BY CliAndCommands DEF Device!DeviceAssumption
<1>a. Device!TypeOK /\ OneBuilds /\ Remembered
  BY DEF DeviceInv
<1>b. Device!One(missed) \in 1 .. MaxFailures /\ Device!One(dying) \in 1 .. MaxFailures
      /\ Device!One(cache.failures) \in 1 .. MaxFailures
      /\ Device!One(missed) <= Device!One(cache.failures)
  BY <1>a, OneMore DEF Device!TypeOK, Remembered
<1> USE <1>0, <1>a DEF Device!TypeOK, OneBuilds, Remembered, Device!Cached
<1>1. CASE UNCHANGED deviceVars
  BY <1>1 DEF deviceVars, DeviceInv
<1>2. ASSUME NEW u \in Users, Device!AskReady(u) PROVE DeviceInv'
  <2> USE <1>2 DEF Device!AskReady, Device!Idle, Device!LockFree
  <2>1. Device!TypeOK'
    OBVIOUS
  <2>2. OneBuilds'
    OBVIOUS
  <2>3. Remembered'
    OBVIOUS
  <2> QED BY <2>1, <2>2, <2>3 DEF DeviceInv
<1>3. ASSUME NEW u \in Users, Device!AskFailed(u) PROVE DeviceInv'
  BY <1>3 DEF Device!AskFailed, Device!vars, DeviceInv
<1>4. ASSUME NEW u \in Users, Device!AskBuilds(u) PROVE DeviceInv'
  <2> USE <1>4 DEF Device!AskBuilds, Device!Idle, Device!LockFree
  <2>1. Device!TypeOK'
    OBVIOUS
  <2>2. OneBuilds'
    OBVIOUS
  <2>3. Remembered'
    OBVIOUS
  <2> QED BY <2>1, <2>2, <2>3 DEF DeviceInv
<1>5. ASSUME NEW u \in Users, Device!Built(u) PROVE DeviceInv'
  <2> USE <1>5 DEF Device!Built, Device!Orphaned
  <2>1. Device!TypeOK'
    <3>1. cache' = [st |-> "ready", failures |-> cache.failures, age |-> 0]
          /\ cache.failures \in 0 .. MaxFailures /\ 0 \in 0 .. MAX_BACKOFF + 1
      OBVIOUS
    <3>2. held' \in [Users -> {None, "shared", "old", "lost"}]
      OBVIOUS
    <3>3. /\ waited' \in [Users -> 0 .. GPU_WAIT_TIMEOUT] /\ building' \subseteq Users
          /\ driver' \in BOOLEAN /\ dead' \in BOOLEAN
      <4>1. waited' = waited /\ building' \subseteq building /\ driver' = driver /\ dead' = FALSE
        OBVIOUS
      <4> QED BY <4>1
    <3>4. standing' \in Nat /\ missed' \in 0 .. MaxFailures /\ dying' \in 0 .. MaxFailures
      <4>1. standing' = standing + 1 /\ missed' = missed /\ dying' = dying
        OBVIOUS
      <4> QED BY <4>1
    <3> HIDE <1>5, <1>a
    <3> QED BY <3>1, <3>2, <3>3, <3>4
  <2>2. OneBuilds'
    OBVIOUS
  <2>3. Remembered'
    <3>1. held'[u] = "shared" /\ waited'[u] \in Nat /\ cache'.age = 0 /\ cache'.st = "ready"
      OBVIOUS
    <3>2. \E v \in Users : held'[v] # None /\ waited'[v] >= cache'.age
      BY <3>1
    <3>3. standing' = 1 /\ missed' = missed /\ cache'.failures = cache.failures
      OBVIOUS
    <3> QED BY <3>1, <3>2, <3>3
  <2> QED BY <2>1, <2>2, <2>3 DEF DeviceInv
<1>6. ASSUME NEW u \in Users, Device!BuildFails(u) PROVE DeviceInv'
  <2> USE <1>6, <1>b DEF Device!BuildFails
  <2>1. Device!TypeOK'
    OBVIOUS
  <2>2. OneBuilds'
    OBVIOUS
  <2>3. Remembered'
    OBVIOUS
  <2> QED BY <2>1, <2>2, <2>3 DEF DeviceInv
<1>7. ASSUME NEW u \in Users, Device!Answered(u) PROVE DeviceInv'
  <2> USE <1>7 DEF Device!Answered
  <2>1. Device!TypeOK'
    OBVIOUS
  <2>2. OneBuilds'
    OBVIOUS
  <2>3. Remembered'
    OBVIOUS
  <2> QED BY <2>1, <2>2, <2>3 DEF DeviceInv
<1>8. ASSUME NEW u \in Users, Device!Blame(u) PROVE DeviceInv'
  <2> USE <1>8, <1>b DEF Device!Blame
  <2> DEFINE Good == /\ Device!Invalidated = [st |-> "failed", age |-> 0,
                                               failures |-> Device!Invalidated.failures]
                     /\ Device!Invalidated.failures \in 1 .. MaxFailures
                     /\ missed' <= Device!Invalidated.failures
  <2>0. cache' = Device!Invalidated /\ Good
    <3>1. CASE cache.st = "ready" /\ cache.age > MAX_BACKOFF
      <4>1. Device!Invalidated = Device!Cached("failed", 1, 0)
        BY <3>1 DEF Device!Invalidated, Device!failures_after_loss
      <4>2. missed' <= 1
        <5>1. CASE missed = 0
          <6>1. Device!One(0) = 1
            BY LesserOf DEF Device!One
          <6> QED BY <5>1, <6>1
        <5>2. CASE missed > 0
          <6>1. Device!Hanging
            BY <3>1, <5>2 DEF Device!Hanging
          <6> QED BY <6>1
        <5> QED BY <5>1, <5>2
      <4> QED BY <4>1, <4>2
    <3>2. CASE cache.st = "failed" \/ (cache.st = "ready" /\ ~(cache.age > MAX_BACKOFF))
      <4>1. Device!Invalidated = Device!Cached("failed", Device!One(cache.failures), 0)
        <5>1. CASE cache.st = "failed"
          BY <5>1 DEF Device!Invalidated
        <5>2. CASE cache.st = "ready" /\ ~(cache.age > MAX_BACKOFF)
          BY <5>2 DEF Device!Invalidated, Device!failures_after_loss
        <5> QED BY <3>2, <5>1, <5>2
      <4>2. missed' = 1 \/ missed' = Device!One(missed)
        OBVIOUS
      <4> QED BY <4>1, <4>2
    <3>3. CASE cache.st = "untried"
      <4>1. Device!Invalidated = Device!Cached("failed", 1, 0) /\ missed = 0
        BY <3>3 DEF Device!Invalidated
      <4>2. Device!One(0) = 1
        BY LesserOf DEF Device!One
      <4> QED BY <4>1, <4>2
    <3>4. cache' = Device!Invalidated
      OBVIOUS
    <3>5. cache.st \in {"untried", "ready", "failed"}
      OBVIOUS
    <3> HIDE <1>8, <1>a
    <3> HIDE DEF Good
    <3>6. CASE cache.st = "ready"
      <4>1. CASE cache.age > MAX_BACKOFF
        BY <3>1, <3>6, <4>1
      <4>2. CASE ~(cache.age > MAX_BACKOFF)
        BY <3>2, <3>6, <4>2
      <4> QED BY <4>1, <4>2
    <3> QED BY <3>2, <3>3, <3>4, <3>5, <3>6
  <2>1. Device!TypeOK'
    <3>1. cache' \in [st : {"untried", "ready", "failed"}, failures : 0 .. MaxFailures,
                      age : 0 .. MAX_BACKOFF + 1]
      BY <2>0
    <3>2. held' \in [Users -> {None, "shared", "old", "lost"}]
          /\ waited' \in [Users -> 0 .. GPU_WAIT_TIMEOUT]
      BY DEF Device!Orphaned
    <3>3. building' \subseteq Users /\ driver' \in BOOLEAN /\ dead' \in BOOLEAN
      <4>1. building' = building /\ driver' = driver /\ dead' = FALSE
        OBVIOUS
      <4> QED BY <4>1
    <3>4. standing' \in Nat /\ missed' \in 0 .. MaxFailures /\ dying' \in 0 .. MaxFailures
      <4>1. standing' = 0 /\ missed' \in {1, Device!One(missed)} /\ dying' = Device!One(dying)
        OBVIOUS
      <4> QED BY <4>1
    <3> HIDE <1>8, <1>a
    <3> QED BY <3>1, <3>2, <3>3, <3>4
  <2>2. OneBuilds'
    BY <2>0 DEF Device!LockFree
  <2>3. Remembered'
    BY <2>0
  <2> QED BY <2>1, <2>2, <2>3 DEF DeviceInv
<1>9. ASSUME Device!DriverFails PROVE DeviceInv'
  <2> USE <1>9 DEF Device!DriverFails
  <2>0. /\ held' \in [Users -> {None, "shared", "old", "lost"}] /\ dead' \in BOOLEAN
        /\ \A u \in Users : held'[u] = None <=> held[u] = None
    OBVIOUS
  <2>1. Device!TypeOK'
    BY <2>0
  <2>2. OneBuilds'
    BY <2>0
  <2>3. Remembered'
    BY <2>0
  <2> QED BY <2>1, <2>2, <2>3 DEF DeviceInv
<1>10. ASSUME Device!DriverHeals PROVE DeviceInv'
  BY <1>10 DEF Device!DriverHeals, DeviceInv
<1>11. ASSUME Device!Tick PROVE DeviceInv'
  <2> USE <1>11 DEF Device!Tick, Device!LockFree
  <2>0. /\ cache' = [st |-> cache.st, failures |-> cache.failures,
                     age |-> Device!Older(cache.age)]
        /\ Device!Older(cache.age) \in 0 .. MAX_BACKOFF + 1
        /\ Device!Older(cache.age) <= cache.age + 1
    BY Aged
  <2>1. Device!TypeOK'
    BY <2>0
  <2>2. OneBuilds'
    BY <2>0
  <2>3. Remembered'
    BY <2>0
  <2> QED BY <2>1, <2>2, <2>3 DEF DeviceInv
<1> QED BY <1>1, <1>2, <1>3, <1>4, <1>5, <1>6, <1>7, <1>8, <1>9, <1>10, <1>11
        DEF Device!Next, Device!Step, Device!Ask

\* A failure in a row that the cache has forgotten is one more than it was counted for.
LEMMA DeviceStepBacksOff ==
    ASSUME DeviceInv, DeviceInv', [Device!Next]_deviceVars
    PROVE  [Device!BacksOff]_vars
<1>1. standing' <= 1
  BY DEF DeviceInv, Remembered
<1>2. ASSUME Device!Asks, missed > 0 PROVE Device!retry_due(missed, cache.age)
  <2>1. PICK u \in Users : Device!AskBuilds(u)
    <3>1. ~UNCHANGED deviceVars
      BY <1>2 DEF Device!Asks, deviceVars
    <3>2. ~Device!Tick /\ ~Device!DriverFails /\ ~Device!DriverHeals
      BY <1>2 DEF Device!Asks, Device!Tick, Device!DriverFails, Device!DriverHeals
    <3>3. PICK u \in Users : Device!Step(u)
      BY <3>1, <3>2 DEF Device!Next
    <3>4. ~Device!AskReady(u) /\ ~Device!AskFailed(u) /\ ~Device!Answered(u) /\ ~Device!Blame(u)
      BY <1>2 DEF Device!Asks, Device!AskReady, Device!AskFailed, Device!Answered,
                  Device!Blame, Device!vars
    <3>5. ~Device!Built(u) /\ ~Device!BuildFails(u)
      BY <1>2 DEF Device!Asks, Device!Built, Device!BuildFails
    <3> QED BY <3>3, <3>4, <3>5 DEF Device!Step, Device!Ask
  <2>2. missed \in Nat /\ cache.failures \in Nat /\ cache.age \in Int
        /\ missed <= cache.failures
        /\ (cache.st = "untried" => cache.failures = 0)
    BY CliAndCommands DEF DeviceInv, Device!TypeOK, Remembered, Device!DeviceAssumption
  <2>3. cache.st = "failed" /\ Device!retry_due(cache.failures, cache.age)
    BY <1>2, <2>1, <2>2 DEF Device!AskBuilds
  <2> QED BY <2>2, <2>3, BackoffGrows
<1> QED BY <1>1, <1>2 DEF Device!BacksOff
LEMMA CalPart ==
    /\ Init => CalInv
    /\ [Next]_vars => [Cal!Next]_calVars
<1>1. ASSUME Init PROVE CalInv
  <2>1. CASE Cal!Init
    BY <2>1, CalInit DEF Cal!Init
  <2>2. CASE NoCal
    <3>1. Cal!InitWith({None}, {None}, {None})
      BY <2>2 DEF NoCal
    <3> QED BY <3>1, CalInit
  <2> QED BY <1>1, <2>1, <2>2 DEF Init
<1>2. ASSUME [Next]_vars PROVE [Cal!Next]_calVars
  <2>1. CASE CalStep
    BY <2>1 DEF CalStep
  <2>2. CASE ~CalStep
    BY <1>2, <2>2 DEF Next, RunStep, OfDevice, UserStep, ClockStep, DriverStep, OneCommand,
                      vars, calVars
  <2> QED BY <2>1, <2>2
<1> QED BY <1>1, <1>2

LEMMA DevicePart ==
    /\ Init => DeviceInv
    /\ [Next]_vars => [Device!Next]_deviceVars
<1>1. ASSUME Init PROVE DeviceInv
  <2>1. CASE Device!Init
    BY <2>1, DeviceInit DEF Device!Init
  <2>2. CASE NoDevice
    BY <2>2, DeviceInit DEF NoDevice
  <2> QED BY <1>1, <2>1, <2>2 DEF Init
<1>2. ASSUME [Next]_vars PROVE [Device!Next]_deviceVars
  <2>1. ASSUME NEW u \in Users, UserStep(u) PROVE [Device!Next]_deviceVars
    BY <2>1 DEF UserStep, Device!Next
  <2>2. CASE ClockStep \/ DriverStep
    BY <2>2 DEF ClockStep, DriverStep, Device!Next
  <2>3. CASE RunStep \/ CalStep \/ OneCommand \/ UNCHANGED vars
    BY <2>3 DEF RunStep, CalStep, OneCommand, vars, deviceVars
  <2> QED BY <1>2, <2>1, <2>2, <2>3 DEF Next
<1> QED BY <1>1, <1>2

\* Two processes measure the host at once only after a take-over removed a live one's
\* lock, a lock on disk is of a process that measures or of one that is gone, and nobody
\* reads half a calibration, for any set of processes and of those asked first.
THEOREM CalibrationIsAlone == Spec => []MeasuresAlone
<1>1. Init => CalInv
  BY CalPart
<1>2. CalInv /\ [Next]_vars => CalInv'
  BY CalPart, CalKeeps
<1>3. CalInv => MeasuresAlone
  BY CalInvMeasures
<1> QED BY <1>1, <1>2, <1>3, PTL DEF Spec

\* One device is built at a time, and the driver is asked again no sooner than the
\* failures in a row have earned, for any threads, backoff and timeout.
THEOREM DeviceIsAskedLater == Spec => DeviceBacksOff
<1>1. Init => DeviceInv
  BY DevicePart
<1>2. DeviceInv /\ [Next]_vars => DeviceInv' /\ [Device!BacksOff]_vars
  BY DevicePart, DeviceKeeps, DeviceStepBacksOff
<1> QED BY <1>1, <1>2, PTL DEF Spec, DeviceBacksOff
-----------------------------------------------------------------------------
(* The frequencies                                                         *)

LEMMA Quotient ==
    ASSUME NEW a \in Nat, NEW s \in Nat \ {0}
    PROVE  /\ a \div s \in Nat /\ a % s \in 0 .. s - 1
           /\ a = (a \div s) * s + (a % s)
OBVIOUS

LEMMA Smaller ==
    ASSUME NEW a \in Int, NEW b \in Int, NEW s \in Nat \ {0}, a * s < b * s
    PROVE  a < b
OBVIOUS

\* A range that is not refused has a point for each multiple of its step, its end among
\* them when it is one.
LEMMA RangeCounts ==
    ASSUME NEW g \in [source : {"range"}, span : Int, step : Int, err : -Freq!Rounding .. Freq!Rounding,
                      finite : BOOLEAN, room : Int],
           Freq!RangeRefusal(g) = None
    PROVE  /\ Freq!CountOf(g) \in Nat /\ Freq!CountOf(g) <= MAX_FR_POINTS
           /\ g.step \in Nat /\ g.step >= 16
           /\ Freq!CountOf(g) * g.step > g.span
           /\ (Freq!CountOf(g) - 1) * g.step <= g.span + Freq!Tolerance + Freq!Rounding
           /\ g.span % g.step = 0 => (Freq!CountOf(g) - 1) * g.step = g.span
<1>0. /\ None \notin {"start", "step", "end", "order", "resolution", "size"}
      /\ MAX_FR_POINTS \in Nat
  BY CliAndCommands DEF Freq!FrequenciesAssumption
<1>1. g.span \in Int /\ g.step \in Int /\ g.err \in -5 .. 5 /\ g.finite \in BOOLEAN /\ g.room \in Int
  BY DEF Freq!Rounding
<1>2. Freq!RangeError(g) = None /\ ~(Freq!CountOf(g) > MAX_FR_POINTS)
  BY <1>0 DEF Freq!RangeRefusal
<1>3. g.room >= 0 /\ g.step > 0 /\ g.finite /\ g.span >= 0 /\ g.step \notin 1 .. 15
  BY <1>0, <1>1, <1>2 DEF Freq!RangeError, Freq!MinStep
<1>4. g.span \in Nat /\ g.step \in Nat \ {0} /\ g.step >= 16
  BY <1>1, <1>3
<1> DEFINE a == g.span + g.err + 8
           q == a \div g.step
<1>5. a \in Nat /\ g.span < a /\ a <= g.span + 13
  BY <1>1, <1>4
<1> HIDE DEF a
<1>6. /\ q \in Nat /\ a % g.step \in 0 .. g.step - 1 /\ a = q * g.step + (a % g.step)
  BY <1>4, <1>5, Quotient
<1> HIDE DEF q
<1>7. Freq!CountOf(g) = q + 1
  BY DEF Freq!CountOf, Freq!Tolerance, a, q
<1>8. q * g.step \in Int /\ q * g.step <= a /\ a < q * g.step + g.step
  <2>1. q * g.step \in Int /\ a % g.step \in Int /\ 0 <= a % g.step /\ a % g.step < g.step
    BY <1>4, <1>6
  <2> QED BY <1>4, <1>5, <1>6, <2>1
<1>9. (q + 1) * g.step = q * g.step + g.step /\ q + 1 - 1 = q
  BY <1>4, <1>6
<1>10. ASSUME g.span % g.step = 0 PROVE q * g.step = g.span
  <2> DEFINE k == g.span \div g.step
  <2>1. k \in Nat /\ g.span = k * g.step
    <3>1. g.span = k * g.step + (g.span % g.step) /\ k \in Nat
      BY <1>4, Quotient
    <3>2. k * g.step \in Nat
      BY <1>4, <3>1
    <3> QED BY <1>4, <1>10, <3>1, <3>2
  <2> HIDE DEF k
  <2>2. k * g.step < (q + 1) * g.step
    BY <1>4, <1>5, <1>6, <1>8, <1>9, <2>1
  <2>3. (k + 1) * g.step = k * g.step + g.step
    BY <1>4, <2>1
  <2>4. q * g.step < (k + 1) * g.step
    BY <1>4, <1>5, <1>6, <1>8, <2>1, <2>3
  <2>5. k < q + 1 /\ q < k + 1
    BY <1>4, <1>6, <2>1, <2>2, <2>4, Smaller
  <2>6. k = q
    BY <1>6, <2>1, <2>5
  <2> QED BY <2>1, <2>6
<1> QED BY <1>0, <1>1, <1>2, <1>4, <1>5, <1>6, <1>7, <1>8, <1>9, <1>10 DEF Freq!Tolerance, Freq!Rounding
Warnings(E, U, T, n) == {<<"superseded", i>> : i \in E} \cup {<<"unusable", i>> : i \in U}
                        \cup {<<"truncated", n>> : c \in T}

\* What is said of the cards that do not run, and of the one that does.
FreqSaid(g) == IF g.source # "deck" THEN {}
               ELSE Warnings(Freq!Earlier(g.cards),
                             {k \in Freq!Earlier(g.cards) : Freq!Unusable(Freq!Expanded(g.cards[k]))},
                             {d \in Freq!Governing(g.cards) : Freq!Truncated(d)}, Len(g.cards))

\* The list of frequencies is what the source says, whole.
FreqTaken(g, fs) ==
    /\ g.source = "list" => g.points # <<>> /\ ~Freq!Unusable(g.points) /\ fs = g.points
    /\ g.source = "range" => Freq!RangeRefusal(g) = None /\ fs = Freq!RangePoints(g)
    /\ g.source = "deck" => fs = IF g.cards = <<>> THEN <<>> ELSE Freq!Expanded(Freq!Last(g.cards))

FreqInv ==
    /\ asked \in Freq!Described
    /\ freqStage \in {"warn", "read", "judge", "solve", "done"}
    /\ freqStage = "done" <=> freqRefusal # None
    /\ freqs = <<>> \/ FreqTaken(asked, freqs)
    /\ freqStage = "warn" => warned = {}
    /\ freqStage # "warn" => warned = FreqSaid(asked)
    /\ freqStage \in {"judge", "solve"} => FreqTaken(asked, freqs)
    /\ freqStage = "solve" => freqs # <<>> /\ ~Freq!OutOfRoom(freqs)
    /\ freqStage = "done" /\ asked.source = "deck" =>
          asked.cards = <<>> \/ Freq!Unusable(Freq!Expanded(Freq!Last(asked.cards)))

LEMMA FreqInit ==
    ASSUME NEW sweeps, sweeps \subseteq Freq!Described, Freq!InitWith(sweeps)
    PROVE  FreqInv
BY DEF Freq!InitWith, FreqInv

\* A card has a point, and at most as many as are expanded.
LEMMA ExpandedIs ==
    ASSUME NEW c \in Freq!FrCard
    PROVE  /\ Freq!Expanded(c) # <<>>
           /\ Len(Freq!Expanded(c)) \in Nat /\ Len(Freq!Expanded(c)) <= MAX_FR_POINTS
           /\ DOMAIN Freq!Expanded(c) = 1 .. Len(Freq!Expanded(c))
           /\ Len(Freq!Expanded(c)) = Freq!PointsAsked(c) \/ Freq!Truncated(c)
           /\ Freq!PointsAsked(c) \in Nat /\ Len(Freq!Expanded(c)) <= Freq!PointsAsked(c)
           /\ \A i \in DOMAIN Freq!Expanded(c) : Freq!Expanded(c)[i] = Freq!FrequencyAt(c, i - 1)
<1>0. MAX_FR_POINTS \in Nat \ {0}
  BY CliAndCommands DEF Freq!FrequenciesAssumption
<1>1. c.steps \in Nat
  BY DEF Freq!FrCard
<1>2. Freq!PointsAsked(c) \in Nat \ {0}
  BY <1>1 DEF Freq!PointsAsked
<1> DEFINE n == IF Freq!Truncated(c) THEN MAX_FR_POINTS ELSE Freq!PointsAsked(c)
<1>3. n \in Nat \ {0} /\ n <= MAX_FR_POINTS /\ n <= Freq!PointsAsked(c)
  BY <1>0, <1>2 DEF Freq!Truncated
<1>4. n = Freq!PointsAsked(c) \/ Freq!Truncated(c)
  OBVIOUS
<1>5. Freq!Expanded(c) = [i \in 1 .. n |-> Freq!FrequencyAt(c, i - 1)]
  BY DEF Freq!Expanded
<1> HIDE DEF n
<1>6. Len(Freq!Expanded(c)) = n /\ DOMAIN Freq!Expanded(c) = 1 .. n
  BY <1>3, <1>5
<1>7. Freq!Expanded(c) # <<>>
  BY <1>3, <1>6
<1> QED BY <1>2, <1>3, <1>4, <1>5, <1>6, <1>7

LEMMA FreqKeeps ==
    ASSUME FreqInv, [Freq!Next]_freqVars
    PROVE  FreqInv'
<1> USE DEF FreqInv
<1>0. None \notin {"empty", "point", "start", "step", "end", "order", "resolution", "size",
                   "none", "frequency"}
  BY CliAndCommands DEF Freq!FrequenciesAssumption
<1>1. CASE UNCHANGED freqVars
  <2>1. Freq!OutOfRoom(freqs)' = Freq!OutOfRoom(freqs)
    BY <1>1 DEF freqVars, Freq!OutOfRoom
  <2> QED BY <1>1, <2>1 DEF freqVars
<1>2. CASE Freq!Warn
  <2>1. warned' = FreqSaid(asked) /\ freqStage' = "read"
        /\ UNCHANGED <<asked, freqs, freqRefusal>> /\ freqStage = "warn"
    BY <1>2 DEF Freq!Warn, FreqSaid, Warnings
  <2> QED BY <2>1
<1>3. CASE Freq!ReadList
  <2>0. freqStage = "read" /\ asked.source = "list" /\ asked' = asked /\ warned' = warned
    BY <1>3 DEF Freq!ReadList
  <2>1. CASE asked.points = <<>> \/ Freq!Unusable(asked.points)
    <3>1. freqStage' = "done" /\ freqRefusal' \in {"empty", "point"} /\ freqs' = freqs
      BY <1>3, <2>1 DEF Freq!ReadList, Freq!Refused
    <3> QED BY <1>0, <2>0, <3>1
  <2>2. CASE asked.points # <<>> /\ ~Freq!Unusable(asked.points)
    <3>1. freqStage' = "judge" /\ freqRefusal' = freqRefusal /\ freqs' = asked.points
      BY <1>3, <2>2 DEF Freq!ReadList, Freq!Take
    <3>2. FreqTaken(asked, freqs)'
      BY <2>0, <2>2, <3>1 DEF FreqTaken
    <3> QED BY <2>0, <3>1, <3>2
  <2> QED BY <2>1, <2>2
<1>4. CASE Freq!ReadRange
  BY <1>4 DEF Freq!ReadRange, Freq!Refused, Freq!Take, FreqTaken
<1>5. CASE Freq!ReadDeck
  BY <1>5 DEF Freq!ReadDeck, Freq!Take, FreqTaken
<1>6. CASE Freq!Judge
  <2>0. freqStage = "judge" /\ FreqTaken(asked, freqs) /\ UNCHANGED <<asked, warned, freqs>>
    BY <1>6 DEF Freq!Judge, Freq!Refused
  <2>1. Freq!OutOfRoom(freqs)' = Freq!OutOfRoom(freqs)
    BY <2>0 DEF Freq!OutOfRoom
  <2>2. CASE freqs = <<>>
    <3>1. freqStage' = "done" /\ freqRefusal' # None
      BY <1>0, <1>6, <2>2 DEF Freq!Judge, Freq!Refused
    <3>2. asked.source = "deck" => asked.cards = <<>>
      <4> SUFFICES ASSUME asked.source = "deck", asked.cards # <<>> PROVE FALSE
        OBVIOUS
      <4>1. asked.cards \in Seq(Freq!FrCard) /\ freqs = Freq!Expanded(Freq!Last(asked.cards))
        BY <2>0 DEF FreqTaken, Freq!Described
      <4>2. Freq!Last(asked.cards) \in Freq!FrCard
        BY <4>1 DEF Freq!Last
      <4> QED BY <2>2, <4>1, <4>2, ExpandedIs
    <3> QED BY <2>0, <3>1, <3>2
  <2>3. CASE freqs # <<>> /\ Freq!OutOfRoom(freqs)
    <3>1. freqStage' = "done" /\ freqRefusal' # None
      BY <1>0, <1>6, <2>3 DEF Freq!Judge, Freq!Refused
    <3>2. asked.source = "deck" =>
             asked.cards = <<>> \/ Freq!Unusable(Freq!Expanded(Freq!Last(asked.cards)))
      BY <2>0, <2>3 DEF FreqTaken, Freq!OutOfRoom
    <3> QED BY <2>0, <3>1, <3>2
  <2>4. CASE freqs # <<>> /\ ~Freq!OutOfRoom(freqs)
    <3>1. freqStage' = "solve" /\ freqRefusal' = freqRefusal
      BY <1>6, <2>4 DEF Freq!Judge
    <3> QED BY <2>0, <2>1, <2>4, <3>1
  <2> QED BY <2>2, <2>3, <2>4
<1> QED BY <1>1, <1>2, <1>3, <1>4, <1>5, <1>6 DEF Freq!Next

LEMMA FreqCounts == ASSUME FreqInv PROVE Freq!CountsWhatWasTyped
<1> SUFFICES ASSUME asked.source = "range", freqStage \in {"judge", "solve"}
             PROVE  /\ Len(freqs) * asked.step > asked.span
                    /\ (Len(freqs) - 1) * asked.step <= asked.span + Freq!Tolerance + Freq!Rounding
                    /\ asked.span % asked.step = 0 => (Len(freqs) - 1) * asked.step = asked.span
                    /\ \A i \in 1 .. Len(freqs) - 1 : freqs[i + 1] - freqs[i] > 4
  BY DEF Freq!CountsWhatWasTyped
<1> DEFINE n == Freq!CountOf(asked)
           s == asked.step
<1>1. asked \in [source : {"range"}, span : Int, step : Int, err : -Freq!Rounding .. Freq!Rounding,
                 finite : BOOLEAN, room : Int]
  BY DEF FreqInv, Freq!Described
<1>2. Freq!RangeRefusal(asked) = None /\ freqs = Freq!RangePoints(asked)
  BY DEF FreqInv, FreqTaken
<1>3. /\ n \in Nat /\ s \in Nat /\ s >= 16
      /\ n * s > asked.span
      /\ (n - 1) * s <= asked.span + Freq!Tolerance + Freq!Rounding
      /\ asked.span % s = 0 => (n - 1) * s = asked.span
  BY <1>1, <1>2, RangeCounts
<1>4. freqs = [i \in 1 .. n |-> (i - 1) * s]
  BY <1>2 DEF Freq!RangePoints
<1> HIDE DEF n, s
<1>5. Len(freqs) = n
  BY <1>3, <1>4
<1>6. ASSUME NEW i \in 1 .. n - 1 PROVE freqs[i + 1] - freqs[i] > 4
  <2>1. i \in Nat /\ i \in 1 .. n /\ i + 1 \in 1 .. n /\ i + 1 - 1 = i
    BY <1>3
  <2>2. freqs[i + 1] = i * s /\ freqs[i] = (i - 1) * s
    BY <1>4, <2>1
  <2>3. i * s = (i - 1) * s + s /\ (i - 1) * s \in Int
    BY <1>3, <2>1
  <2> QED BY <1>3, <2>2, <2>3
<1> QED BY <1>3, <1>5, <1>6 DEF s

Superseded(said) == {w[2] : w \in {v \in said : v[1] = "superseded"}}

LEMMA SupersededIs ==
    ASSUME NEW E, NEW U, NEW T, NEW n
    PROVE  Superseded(Warnings(E, U, T, n)) = E
<1> DEFINE said == Warnings(E, U, T, n)
<1> USE DEF Warnings
<1> DEFINE labelled == {v \in said : v[1] = "superseded"}
<1>1. ASSUME NEW v \in labelled PROVE v[2] \in E
  <2>1. PICK i \in E : v = <<"superseded", i>>
    <3>1. v \in said /\ v[1] = "superseded"
      OBVIOUS
    <3>2. ASSUME NEW i \in U, v = <<"unusable", i>> PROVE FALSE
      BY <3>1, <3>2
    <3>3. ASSUME NEW c \in T, v = <<"truncated", n>> PROVE FALSE
      BY <3>1, <3>3
    <3> QED BY <3>1, <3>2, <3>3
  <2> QED BY <2>1
<1>2. ASSUME NEW i \in E PROVE \E w \in labelled : w[2] = i
  <2>1. <<"superseded", i>> \in labelled
    OBVIOUS
  <2> QED BY <2>1
<1> HIDE DEF labelled
<1>3. {w[2] : w \in labelled} = E
  BY <1>1, <1>2
<1> QED BY <1>3 DEF labelled, Superseded

LEMMA FreqRuns == ASSUME FreqInv PROVE Freq!RunsWhatWasAsked
<1>1. ASSUME freqStage = "solve", asked.source = "range" PROVE freqs[Len(freqs)] <= asked.room
  <2>1. asked \in [source : {"range"}, span : Int, step : Int, err : -Freq!Rounding .. Freq!Rounding,
                   finite : BOOLEAN, room : Int]
    BY <1>1 DEF FreqInv, Freq!Described
  <2>2. Freq!RangeRefusal(asked) = None /\ freqs = Freq!RangePoints(asked)
    BY <1>1 DEF FreqInv, FreqTaken
  <2>3. Freq!CountOf(asked) \in Nat /\ asked.step \in Nat
    BY <2>1, <2>2, RangeCounts
  <2>4. freqs \in Seq(Int)
    BY <2>2, <2>3 DEF Freq!RangePoints
  <2>5. freqs # <<>> /\ \A i \in DOMAIN freqs : ~(freqs[i] > asked.room)
    BY <1>1 DEF FreqInv, Freq!OutOfRoom
  <2>6. Len(freqs) \in DOMAIN freqs /\ asked.room \in Int
    BY <2>1, <2>4, <2>5
  <2> QED BY <2>4, <2>5, <2>6
<1>2. ASSUME freqStage = "solve", asked.source # "range"
      PROVE  \A i \in DOMAIN freqs : Freq!IsUsable(freqs[i])
  BY <1>2 DEF FreqInv, Freq!OutOfRoom, Freq!Unusable
<1>3. ASSUME freqStage = "solve", asked.source = "list" PROVE freqs = asked.points /\ warned = {}
  BY <1>3 DEF FreqInv, FreqTaken, FreqSaid
<1>4. ASSUME freqStage = "solve", asked.source = "deck", NEW c, c = Freq!Last(asked.cards)
      PROVE  /\ \A i \in DOMAIN freqs : freqs[i] = Freq!FrequencyAt(c, i - 1)
             /\ Len(freqs) = Freq!PointsAsked(c) \/ <<"truncated", Len(asked.cards)>> \in warned
             /\ {w[2] : w \in {v \in warned : v[1] = "superseded"}} = Freq!Earlier(asked.cards)
  <2>1. asked.cards \in Seq(Freq!FrCard) /\ freqs # <<>> /\ FreqTaken(asked, freqs)
        /\ warned = FreqSaid(asked)
    BY <1>4 DEF FreqInv, Freq!Described
  <2>2. asked.cards # <<>> /\ freqs = Freq!Expanded(c)
    BY <1>4, <2>1 DEF FreqTaken
  <2>3. c \in Freq!FrCard
    BY <1>4, <2>1, <2>2 DEF Freq!Last
  <2>4. Len(freqs) = Freq!PointsAsked(c) \/ <<"truncated", Len(asked.cards)>> \in warned
    <3>1. CASE Freq!Truncated(c)
      <4>1. c \in {d \in Freq!Governing(asked.cards) : Freq!Truncated(d)}
        BY <1>4, <2>2, <3>1 DEF Freq!Governing
      <4> QED BY <1>4, <2>1, <4>1 DEF FreqSaid, Warnings
    <3> QED BY <2>2, <2>3, <3>1, ExpandedIs
  <2>5. {w[2] : w \in {v \in warned : v[1] = "superseded"}} = Freq!Earlier(asked.cards)
    <3>1. Superseded(warned) = Freq!Earlier(asked.cards)
      BY <1>4, <2>1, SupersededIs DEF FreqSaid
    <3> QED BY <3>1 DEF Superseded
  <2> QED BY <2>2, <2>3, <2>4, <2>5, ExpandedIs
<1>5. ASSUME asked.source = "deck", freqRefusal # None, asked.cards # <<>>
      PROVE  \E i \in 0 .. Freq!PointsAsked(Freq!Last(asked.cards)) - 1 :
                i < MAX_FR_POINTS /\ ~Freq!IsUsable(Freq!FrequencyAt(Freq!Last(asked.cards), i))
  <2> DEFINE c == Freq!Last(asked.cards)
  <2>1. freqStage = "done" /\ Freq!Unusable(Freq!Expanded(c)) /\ asked.cards \in Seq(Freq!FrCard)
    BY <1>5 DEF FreqInv, Freq!Described
  <2>2. c \in Freq!FrCard
    BY <1>5, <2>1 DEF Freq!Last
  <2> HIDE DEF c
  <2>3. PICK i \in DOMAIN Freq!Expanded(c) : ~Freq!IsUsable(Freq!Expanded(c)[i])
    BY <2>1 DEF Freq!Unusable
  <2>4. /\ i \in 1 .. Len(Freq!Expanded(c)) /\ Len(Freq!Expanded(c)) \in Nat
        /\ Len(Freq!Expanded(c)) <= MAX_FR_POINTS /\ Len(Freq!Expanded(c)) <= Freq!PointsAsked(c)
        /\ Freq!PointsAsked(c) \in Nat /\ Freq!Expanded(c)[i] = Freq!FrequencyAt(c, i - 1)
    BY <2>2, <2>3, ExpandedIs
  <2>5. MAX_FR_POINTS \in Nat
    BY CliAndCommands DEF Freq!FrequenciesAssumption
  <2>6. i - 1 \in 0 .. Freq!PointsAsked(c) - 1 /\ i - 1 < MAX_FR_POINTS
    BY <2>4, <2>5
  <2> QED BY <2>3, <2>4, <2>6 DEF c
<1>6. freqStage = "solve" => freqs # <<>>
  BY DEF FreqInv
<1> QED BY <1>1, <1>2, <1>3, <1>4, <1>5, <1>6 DEF Freq!RunsWhatWasAsked
LEMMA FreqTyped == ASSUME FreqInv PROVE Freq!TypeOK
<1>1. Len(freqs) <= MAX_FR_POINTS \/ asked.source = "list"
  <2>0. MAX_FR_POINTS \in Nat
    BY CliAndCommands DEF Freq!FrequenciesAssumption
  <2>1. CASE freqs = <<>>
    BY <2>0, <2>1
  <2>2. CASE freqs # <<>> /\ asked.source = "range"
    <3>1. asked \in [source : {"range"}, span : Int, step : Int, err : -Freq!Rounding .. Freq!Rounding,
                     finite : BOOLEAN, room : Int]
      BY <2>2 DEF FreqInv, Freq!Described
    <3>2. Freq!RangeRefusal(asked) = None /\ freqs = Freq!RangePoints(asked)
      BY <2>2 DEF FreqInv, FreqTaken
    <3>3. Freq!CountOf(asked) \in Nat /\ Freq!CountOf(asked) <= MAX_FR_POINTS
      BY <3>1, <3>2, RangeCounts
    <3> QED BY <3>2, <3>3 DEF Freq!RangePoints
  <2>3. CASE freqs # <<>> /\ asked.source = "deck"
    <3>1. asked.cards \in Seq(Freq!FrCard) /\ freqs = Freq!Expanded(Freq!Last(asked.cards))
          /\ asked.cards # <<>>
      BY <2>3 DEF FreqInv, FreqTaken, Freq!Described
    <3>2. Freq!Last(asked.cards) \in Freq!FrCard
      BY <3>1 DEF Freq!Last
    <3> QED BY <3>1, <3>2, ExpandedIs
  <2>4. asked.source \in {"list", "range", "deck"}
    BY DEF FreqInv, Freq!Described
  <2> QED BY <2>1, <2>2, <2>3, <2>4
<1> QED BY <1>1 DEF Freq!TypeOK, FreqInv

LEMMA FreqPart ==
    /\ Init => FreqInv
    /\ [Next]_vars => [Freq!Next]_freqVars
<1>1. ASSUME Init PROVE FreqInv
  <2>1. CASE Freq!Init
    <3>1. Sweeps \subseteq Freq!Described
      BY CliAndCommands DEF Freq!FrequenciesAssumption
    <3> QED BY <2>1, <3>1, FreqInit DEF Freq!Init
  <2>2. CASE NoFreq
    <3>1. {[source |-> "list", points |-> <<>>]} \subseteq Freq!Described
      BY DEF Freq!Described
    <3> QED BY <2>2, <3>1, FreqInit DEF NoFreq
  <2> QED BY <1>1, <2>1, <2>2 DEF Init, NoCommand, CommandInit
<1>2. ASSUME [Next]_vars PROVE [Freq!Next]_freqVars
  <2>1. CASE OneCommand
    BY <2>1 DEF OneCommand, CommandStep, freqVars
  <2>2. CASE ~OneCommand
    BY <1>2, <2>2 DEF Next, RunStep, CalStep, OfDevice, UserStep, ClockStep, DriverStep,
                      vars, commandVars, freqVars
  <2> QED BY <2>1, <2>2
<1> QED BY <1>1, <1>2

\* A range has a point for each multiple of its step up to its end, however the arithmetic
\* rounds, and a run solves what its list, range or deck says, for any of them.
THEOREM FrequenciesAreTyped == Spec => []FrequenciesAsTyped
<1>1. Init => FreqInv
  BY FreqPart
<1>2. FreqInv /\ [Next]_vars => FreqInv'
  BY FreqPart, FreqKeeps
<1>3. FreqInv => FrequenciesAsTyped
  BY FreqCounts, FreqRuns DEF FrequenciesAsTyped
<1> QED BY <1>1, <1>2, <1>3, PTL DEF Spec
-----------------------------------------------------------------------------
(* One run: the answers of a point                                         *)

Labels == {"none", "hallen", "pulse", "continuity", "sinusoidal", "mpie", "continuity->pulse",
           "continuity->pulse(residual)", "sinusoidal->hallen(residual)"}
Answers == [ok : BOOLEAN, device : BOOLEAN, remote : BOOLEAN, label : Labels]

Local(l, d) == [ok |-> TRUE, label |-> l, device |-> d, remote |-> FALSE]
Remotely(l, d) == [ok |-> TRUE, label |-> l, device |-> d, remote |-> TRUE]

LEMMA CpuLabelsAre ==
    ASSUME NEW q \in Run!Described, NEW l \in Run!CpuLabels(q)
    PROVE  /\ l \in Labels
           /\ q.solver = "hallen" => l = "hallen"
           /\ q.solver = "pulse" => l = "pulse"
           /\ q.solver = "continuity" =>
                 l \in {"continuity->pulse", "continuity", "continuity->pulse(residual)"}
           /\ q.solver = "sinusoidal" => l \in {"sinusoidal", "sinusoidal->hallen(residual)"}
           /\ q.solver = "mpie" => l = "mpie"
           /\ q.solver \in {"hallen", "pulse", "continuity", "sinusoidal", "mpie"}
<1>1. q.solver \in {"hallen", "pulse", "continuity", "sinusoidal", "mpie"}
  BY DEF Run!Described, Run!Solvers
<1>2. CASE q.solver = "hallen"
  BY <1>2 DEF Run!CpuLabels, Labels
<1>3. CASE q.solver = "pulse"
  BY <1>3 DEF Run!CpuLabels, Labels
<1>4. CASE q.solver = "continuity"
  <2>1. Run!CpuLabels(q) \subseteq {"continuity->pulse", "continuity", "continuity->pulse(residual)"}
    BY <1>4 DEF Run!CpuLabels
  <2> QED BY <1>4, <2>1 DEF Labels
<1>5. CASE q.solver = "sinusoidal"
  BY <1>5 DEF Run!CpuLabels, Labels
<1>6. CASE q.solver = "mpie"
  BY <1>6 DEF Run!CpuLabels, Labels
<1> QED BY <1>1, <1>2, <1>3, <1>4, <1>5, <1>6

\* A point fails, or the CPU answers by a label of its solver, or the device by its own.
LEMMA CpuAnswersAre ==
    ASSUME NEW q, NEW a \in Run!CpuAnswers(q)
    PROVE  a = Run!Failed \/ \E l \in Run!CpuLabels(q) : a = Local(l, FALSE)
BY DEF Run!CpuAnswers, Run!Answer, Local

LEMMA DeviceAnswersAre ==
    ASSUME NEW q, NEW a \in Run!DeviceAnswers(q)
    PROVE  a = Local("hallen", TRUE) \/ a \in Run!CpuAnswers(q)
BY DEF Run!DeviceAnswers, Run!Answer, Local

LEMMA PointAnswersAre ==
    ASSUME NEW q, NEW f, NEW m, NEW a \in Run!PointAnswers(q, f, m)
    PROVE  \/ a = Run!Failed
           \/ ~Run!PointRefused(q) /\ \E l \in Run!CpuLabels(q) : a = Local(l, FALSE)
           \/ Run!ResidentPlan(q, f, m) /\ a = Local("hallen", TRUE)
<1>1. CASE Run!PointRefused(q)
  BY <1>1 DEF Run!PointAnswers
<1>2. CASE ~Run!PointRefused(q) /\ Run!ResidentPlan(q, f, m)
  BY <1>2, DeviceAnswersAre, CpuAnswersAre DEF Run!PointAnswers
<1>3. CASE ~Run!PointRefused(q) /\ ~Run!ResidentPlan(q, f, m)
  BY <1>3, CpuAnswersAre DEF Run!PointAnswers
<1> QED BY <1>1, <1>2, <1>3

LEMMA WorkerAnswersAre ==
    ASSUME NEW q \in Run!Described, NEW f, NEW m, NEW a \in Run!WorkerAnswers(q, f, m)
    PROVE  \/ a \in Answers /\ ~a.ok
           \/ /\ ~Run!WorkerRefused(q)
              /\ \/ \E l \in Run!CpuLabels(q) : a = Remotely(l, FALSE)
                 \/ /\ a = Remotely("hallen", TRUE)
                    /\ q.drive = "voltage" /\ q.route = "plain" /\ q.ground = "free"
                    /\ ~Run!Stamped(q, f)
<1> DEFINE task == [q EXCEPT !.laplace = FALSE, !.device = TRUE]
           answers == IF Run!WorkerRefused(q) THEN {Run!Failed}
                      ELSE IF Run!ResidentPlan(task, f, m) THEN Run!DeviceAnswers(task)
                      ELSE Run!CpuAnswers(task)
<1>1. PICK b \in answers : a = [b EXCEPT !.remote = TRUE]
  BY DEF Run!WorkerAnswers
<1>2. /\ task \in Run!Described /\ task.solver = q.solver /\ task.split = q.split
      /\ task.drive = q.drive /\ task.route = q.route /\ task.ground = q.ground
      /\ task.loaded = q.loaded /\ task.networks = q.networks
  BY DEF Run!Described
<1> HIDE DEF task
<1>3. Run!CpuLabels(task) = Run!CpuLabels(q)
  BY <1>2 DEF Run!CpuLabels
<1>4. Run!ResidentPlan(task, f, m) =>
         q.drive = "voltage" /\ q.route = "plain" /\ q.ground = "free" /\ ~Run!Stamped(q, f)
  BY <1>2 DEF Run!ResidentPlan, Run!ResidentDecline, Run!ResidentClass, Run!Stamped
<1>5. \/ b = Run!Failed
      \/ /\ ~Run!WorkerRefused(q)
         /\ \/ \E l \in Run!CpuLabels(q) : b = Local(l, FALSE)
            \/ b = Local("hallen", TRUE) /\ Run!ResidentPlan(task, f, m)
  <2>1. CASE Run!WorkerRefused(q)
    BY <1>1, <2>1
  <2>2. CASE ~Run!WorkerRefused(q) /\ Run!ResidentPlan(task, f, m)
    <3>1. b \in Run!DeviceAnswers(task)
      BY <1>1, <2>2
    <3>2. b = Local("hallen", TRUE) \/ b \in Run!CpuAnswers(task)
      BY <3>1, DeviceAnswersAre
    <3>3. CASE b \in Run!CpuAnswers(task)
      <4>1. b = Run!Failed \/ \E l \in Run!CpuLabels(task) : b = Local(l, FALSE)
        BY <3>3, CpuAnswersAre
      <4> HIDE DEF answers
      <4> QED BY <1>3, <2>2, <4>1
    <3> QED BY <2>2, <3>2, <3>3
  <2>3. CASE ~Run!WorkerRefused(q) /\ ~Run!ResidentPlan(task, f, m)
    BY <1>1, <1>3, <2>3, CpuAnswersAre
  <2> QED BY <2>1, <2>2, <2>3
<1>6. CASE b = Run!Failed
  <2>1. a = [ok |-> FALSE, label |-> "none", device |-> FALSE, remote |-> TRUE]
    BY <1>1, <1>6 DEF Run!Failed
  <2> QED BY <2>1 DEF Answers, Labels
<1>7. ASSUME NEW l, NEW d, b = Local(l, d) PROVE a = Remotely(l, d)
  BY <1>1, <1>7 DEF Local, Remotely
<1> QED BY <1>4, <1>5, <1>6, <1>7

LEMMA AnswersTyped ==
    ASSUME NEW q \in Run!Described, NEW f, NEW m
    PROVE  Run!PointAnswers(q, f, m) \cup Run!WorkerAnswers(q, f, m) \subseteq Answers
<1>0. /\ \A l \in Labels, d \in BOOLEAN : Local(l, d) \in Answers /\ Remotely(l, d) \in Answers
      /\ "hallen" \in Labels /\ Run!CpuLabels(q) \subseteq Labels
      /\ TRUE \in BOOLEAN /\ FALSE \in BOOLEAN
  <2>1. Run!CpuLabels(q) \subseteq Labels
    BY CpuLabelsAre
  <2> QED BY <2>1 DEF Local, Remotely, Answers, Labels
<1>1. ASSUME NEW a \in Run!PointAnswers(q, f, m) PROVE a \in Answers
  <2>1. Run!Failed \in Answers
    BY DEF Run!Failed, Answers, Labels
  <2>2. \/ a = Run!Failed \/ \E l \in Run!CpuLabels(q) : a = Local(l, FALSE)
        \/ a = Local("hallen", TRUE)
    BY <1>1, PointAnswersAre
  <2> QED BY <1>0, <2>1, <2>2
<1>2. ASSUME NEW a \in Run!WorkerAnswers(q, f, m) PROVE a \in Answers
  <2>1. \/ a \in Answers \/ \E l \in Run!CpuLabels(q) : a = Remotely(l, FALSE)
        \/ a = Remotely("hallen", TRUE)
    BY <1>2, WorkerAnswersAre
  <2> QED BY <1>0, <2>1
<1> QED BY <1>1, <1>2
LEMMA FeaturesAre ==
    ASSUME NEW q \in Run!Described, NEW f, NEW x \in Run!Features(q, f)
    PROVE  \/ x = "drive" /\ q.drive # "voltage"
           \/ x = "path" /\ q.route # "plain"
           \/ x = "ground" /\ q.ground # "free"
           \/ x = "contact" /\ q.ground = "contact"
           \/ x = "load" /\ f \in q.loaded
           \/ x = "laplace" /\ q.laplace
           \/ x = "network" /\ q.networks
           \/ x = "feeds" /\ q.feeds > 1
<1> DEFINE Asks(y) ==
              CASE y = "drive" -> q.drive # "voltage"
                [] y = "path" -> q.route # "plain"
                [] y = "ground" -> q.ground # "free"
                [] y = "contact" -> q.ground = "contact"
                [] y = "load" -> f \in q.loaded
                [] y = "laplace" -> q.laplace
                [] y = "network" -> q.networks
                [] y = "feeds" -> q.feeds > 1
<1>1. /\ x \in {"drive", "path", "ground", "contact", "load", "laplace", "network", "feeds"}
      /\ Asks(x)
  BY DEF Run!Features
<1>2. CASE x = "drive"
  <2>1. Asks("drive") <=> q.drive # "voltage"
    OBVIOUS
  <2> QED BY <1>1, <1>2, <2>1
<1>3. CASE x = "path"
  <2>1. Asks("path") <=> q.route # "plain"
    OBVIOUS
  <2> QED BY <1>1, <1>3, <2>1
<1>4. CASE x = "ground"
  <2>1. Asks("ground") <=> q.ground # "free"
    OBVIOUS
  <2> QED BY <1>1, <1>4, <2>1
<1>5. CASE x = "contact"
  <2>1. Asks("contact") <=> q.ground = "contact"
    OBVIOUS
  <2> QED BY <1>1, <1>5, <2>1
<1>6. CASE x = "load"
  <2>1. Asks("load") <=> f \in q.loaded
    OBVIOUS
  <2> QED BY <1>1, <1>6, <2>1
<1>7. CASE x = "laplace"
  <2>1. Asks("laplace") <=> q.laplace
    BY DEF Run!Described
  <2> QED BY <1>1, <1>7, <2>1
<1>8. CASE x = "network"
  <2>1. Asks("network") <=> q.networks
    BY DEF Run!Described
  <2> QED BY <1>1, <1>8, <2>1
<1>9. CASE x = "feeds"
  <2>1. Asks("feeds") <=> q.feeds > 1
    OBVIOUS
  <2> QED BY <1>1, <1>9, <2>1
<1> QED BY <1>1, <1>2, <1>3, <1>4, <1>5, <1>6, <1>7, <1>8, <1>9

\* What a label's equations hold.
LEMMA EquationsAre ==
    /\ Run!Equations("hallen") =
          {"drive", "path", "ground", "contact", "load", "laplace", "network", "feeds"}
    /\ \A l \in {"sinusoidal", "sinusoidal->hallen(residual)"} :
          Run!Equations(l) = {"ground", "load", "laplace", "feeds"}
    /\ Run!Equations("mpie") = {"path", "ground", "load", "laplace", "feeds"}
    /\ \A l \in {"pulse", "continuity", "continuity->pulse", "continuity->pulse(residual)"} :
          Run!Equations(l) = {"path", "load", "laplace", "feeds"}
BY DEF Run!Equations

LEMMA PointCarries ==
    ASSUME NEW q \in Run!Described, NEW f, NEW m, NEW a \in Run!PointAnswers(q, f, m)
    PROVE  Run!CarriesDeck(q, f, a)
<1>1. CASE a = Run!Failed
  BY <1>1 DEF Run!Failed, Run!CarriesDeck
<1>2. ASSUME ~Run!PointRefused(q), NEW l \in Run!CpuLabels(q), a = Local(l, FALSE)
      PROVE  Run!CarriesDeck(q, f, a)
  <2>1. Run!Held(a) = Run!Equations(l) /\ a.label = l
    BY <1>2 DEF Run!Held, Local
  <2>2. q.solver # "hallen" => q.drive = "voltage" /\ q.ground # "contact" /\ ~q.networks
    BY <1>2 DEF Run!PointRefused, Run!DriveRefused, Run!ContactRefused, Run!NetworksRefused,
                Run!NotHallen
  <2>3. q.solver = "sinusoidal" => q.route = "plain"
    BY <1>2 DEF Run!PointRefused, Run!TopologyRefused
  <2>4. ASSUME NEW x \in Run!Features(q, f) \ Run!Held(a)
        PROVE  x = "ground" /\ Run!Experimental(a)
    <3>1. CASE l = "hallen"
      BY <2>1, <2>4, <3>1, EquationsAre, FeaturesAre
    <3>2. CASE l \in {"pulse", "continuity", "continuity->pulse", "continuity->pulse(residual)"}
      <4>1. q.solver # "hallen"
        BY <3>2, CpuLabelsAre
      <4>2. x \notin {"path", "load", "laplace", "feeds"}
        BY <2>1, <2>4, <3>2, EquationsAre
      <4>3. x = "ground"
        BY <2>2, <2>4, <4>1, <4>2, FeaturesAre
      <4> QED BY <2>1, <3>2, <4>3 DEF Run!Experimental
    <3>3. CASE l \in {"sinusoidal", "sinusoidal->hallen(residual)"}
      <4>1. q.solver = "sinusoidal"
        BY <3>3, CpuLabelsAre
      <4>2. x \notin {"ground", "load", "laplace", "feeds"}
        BY <2>1, <2>4, <3>3, EquationsAre
      <4> QED BY <2>2, <2>3, <2>4, <4>1, <4>2, FeaturesAre
    <3>4. CASE l = "mpie"
      <4>1. q.solver = "mpie"
        BY <3>4, CpuLabelsAre
      <4>2. x \notin {"path", "ground", "load", "laplace", "feeds"}
        BY <2>1, <2>4, <3>4, EquationsAre
      <4> QED BY <2>2, <2>4, <4>1, <4>2, FeaturesAre
    <3>5. l \in {"hallen", "pulse", "continuity", "continuity->pulse",
                 "continuity->pulse(residual)", "sinusoidal", "sinusoidal->hallen(residual)", "mpie"}
      BY CpuLabelsAre
    <3> QED BY <3>1, <3>2, <3>3, <3>4, <3>5
  <2> QED BY <2>4 DEF Run!CarriesDeck
<1>3. ASSUME Run!ResidentPlan(q, f, m), a = Local("hallen", TRUE)
      PROVE  Run!CarriesDeck(q, f, a)
  <2>1. Run!Held(a) = {"feeds"}
    BY <1>3 DEF Run!Held, Local
  <2>2. q.drive = "voltage" /\ q.route = "plain" /\ q.ground = "free" /\ ~q.laplace
        /\ f \notin q.loaded /\ ~q.networks
    BY <1>3 DEF Run!ResidentPlan, Run!ResidentDecline, Run!ResidentClass, Run!Stamped
  <2>3. Run!Features(q, f) \subseteq {"feeds"}
    BY <2>2, FeaturesAre
  <2> QED BY <2>1, <2>3 DEF Run!CarriesDeck
<1>4. \/ a = Run!Failed
      \/ ~Run!PointRefused(q) /\ \E l \in Run!CpuLabels(q) : a = Local(l, FALSE)
      \/ Run!ResidentPlan(q, f, m) /\ a = Local("hallen", TRUE)
  BY PointAnswersAre
<1> QED BY <1>1, <1>2, <1>3, <1>4

\* A worker answers for the decks that are given to workers.
LEMMA WorkerCarries ==
    ASSUME NEW q \in Run!Described, NEW f, NEW m, NEW a \in Run!WorkerAnswers(q, f, m),
           ~q.laplace, q.solver = "hallen", q.feeds <= 1
    PROVE  Run!CarriesDeck(q, f, a)
<1>0. ASSUME NEW x \in Run!Features(q, f) PROVE x \notin {"laplace", "feeds"}
  <2>1. ~(q.feeds > 1)
    BY DEF Run!Described
  <2> QED BY <1>0, <2>1, FeaturesAre
<1>1. CASE ~a.ok
  BY <1>1 DEF Run!CarriesDeck
<1>2. ASSUME NEW l \in Run!CpuLabels(q), a = Remotely(l, FALSE)
      PROVE  Run!CarriesDeck(q, f, a)
  <2>1. l = "hallen"
    BY CpuLabelsAre
  <2>2. Run!Held(a) = Run!Equations("hallen") \ {"laplace", "feeds"}
    BY <1>2, <2>1 DEF Run!Held, Remotely
  <2>3. Run!Features(q, f) \subseteq Run!Equations("hallen")
    BY FeaturesAre, EquationsAre
  <2> QED BY <1>0, <2>2, <2>3 DEF Run!CarriesDeck
<1>3. ASSUME a = Remotely("hallen", TRUE), q.drive = "voltage", q.route = "plain",
             q.ground = "free", ~Run!Stamped(q, f)
      PROVE  Run!CarriesDeck(q, f, a)
  <2>1. f \notin q.loaded /\ ~q.networks
    BY <1>3 DEF Run!Stamped
  <2>2. Run!Features(q, f) = {}
    BY <1>0, <1>3, <2>1, FeaturesAre
  <2> QED BY <2>2 DEF Run!CarriesDeck
<1> QED BY <1>1, <1>2, <1>3, WorkerAnswersAre
-----------------------------------------------------------------------------
(* One run: where it is                                                    *)

Untouched == solved = <<>> /\ busy = {} /\ lanePoint = 0 /\ next = 1

RunTyped == /\ r \in Run!Described
            /\ at \in {"inputs", "hosts", "dial", "batch", "pick", "excitation", "sweep",
                       "emit", "done"}
            /\ mode \in {"cpu", "gpu", "hybrid"}
            /\ lane \in BOOLEAN /\ laned \in BOOLEAN /\ dialled \in BOOLEAN
            /\ lanePoint \in 0 .. N /\ busy \subseteq Run!Points /\ next \in 1 .. N + 1
            /\ solved \in Seq(Run!Solved)
            /\ exit \in {None, 0, 1, 2}

\* What a run has not touched before it comes to it, and the lane of a hybrid run only.
RunShape == /\ at # "done" => exit = None /\ refusal = None /\ printed = <<>>
            /\ at \in {"inputs", "hosts", "dial", "batch", "pick", "excitation"} => Untouched
            /\ at \in {"inputs", "hosts", "dial", "batch", "pick"} => ~lane /\ ~laned
            /\ at \in {"inputs", "hosts", "pick", "excitation"} => ~dialled
            /\ at \in {"dial", "batch"} => ~Run!HostsRefused
            /\ lane => laned
            /\ laned => mode = "hybrid"
            /\ lanePoint # 0 => lane

RunWhere == RunTyped /\ RunShape

LEMMA RunWhereInit ==
    ASSUME NEW runs, runs \subseteq Run!Described, Run!InitWith(runs)
    PROVE  RunWhere
<1> USE CliAndCommands DEF Run!CliAssumption, Run!InitWith
<1>1. r \in Run!Described /\ r.exec \in {"none", "cpu", "gpu", "hybrid"}
  BY DEF Run!Described
<1>2. RunTyped
  <2>1. mode \in {"cpu", "gpu", "hybrid"}
    BY <1>1
  <2>2. lane \in BOOLEAN /\ laned \in BOOLEAN /\ dialled \in BOOLEAN
    OBVIOUS
  <2>3. lanePoint \in 0 .. N /\ next \in 1 .. N + 1
    OBVIOUS
  <2>4. busy \subseteq Run!Points /\ solved \in Seq(Run!Solved)
    OBVIOUS
  <2>5. at = "inputs" /\ exit = None
    OBVIOUS
  <2> HIDE CliAndCommands DEF Run!CliAssumption, Run!InitWith
  <2> QED BY <1>1, <2>1, <2>2, <2>3, <2>4, <2>5 DEF RunTyped
<1>3. RunShape
  BY DEF RunShape, Untouched
<1> QED BY <1>2, <1>3 DEF RunWhere

LEMMA KeptTyped ==
    ASSUME NEW f \in Run!Points, NEW a \in Answers, NEW m \in {"cpu", "gpu"}
    PROVE  Run!Kept(f, a, m) \in Run!Solved
BY DEF Run!Kept, Run!Solved, Answers, Labels

LEMMA RunWhereKeeps ==
    ASSUME RunWhere, [Run!Next]_runVars
    PROVE  RunWhere'
<1>0. N \in Nat \ {0} /\ Threads \in Nat \ {0} /\ RunTyped /\ RunShape
  BY CliAndCommands DEF Run!CliAssumption, RunWhere
<1>a. \A f, m : Run!PointAnswers(r, f, m) \subseteq Answers
               /\ Run!WorkerAnswers(r, f, m) \subseteq Answers
  BY <1>0, AnswersTyped DEF RunTyped
<1> USE <1>0 DEF RunTyped, RunShape
<1>1. CASE UNCHANGED runVars
  BY <1>1 DEF runVars, RunWhere, Untouched, Run!HostsRefused
<1>2. CASE Run!CheckInputs
  <2>1. CASE Run!Failing = {}
    <3>1. at = "inputs" /\ at' \in {"hosts", "pick"}
          /\ UNCHANGED <<r, refusal, exit, mode, lane, laned, lanePoint, busy, next, solved,
                         dialled, printed>>
      BY <1>2, <2>1 DEF Run!CheckInputs, Run!Go, Run!sweepVars
    <3> QED BY <3>1 DEF RunWhere, Untouched
  <2>2. CASE Run!Failing # {}
    <3>1. at' = "done" /\ exit' \in {1, 2}
          /\ UNCHANGED <<r, mode, lane, laned, lanePoint, busy, next, solved, dialled, printed>>
      BY <1>2, <2>2 DEF Run!CheckInputs, Run!Exit, Run!sweepVars
    <3> QED BY <3>1 DEF RunWhere
  <2> QED BY <2>1, <2>2
<1>3. CASE Run!CheckHosts
  <2>1. CASE Run!HostsRefused
    <3>1. at' = "done" /\ exit' = 1
          /\ UNCHANGED <<r, mode, lane, laned, lanePoint, busy, next, solved, dialled, printed>>
      BY <1>3, <2>1 DEF Run!CheckHosts, Run!Exit, Run!sweepVars
    <3> QED BY <3>1 DEF RunWhere
  <2>2. CASE ~Run!HostsRefused
    <3>1. at = "hosts" /\ at' = "dial"
          /\ UNCHANGED <<r, refusal, exit, mode, lane, laned, lanePoint, busy, next, solved,
                         dialled, printed>>
      BY <1>3, <2>2 DEF Run!CheckHosts, Run!Go, Run!sweepVars
    <3>2. ~Run!HostsRefused'
      BY <2>2, <3>1 DEF Run!HostsRefused
    <3> QED BY <3>1, <3>2 DEF RunWhere, Untouched
  <2> QED BY <2>1, <2>2
<1>4. CASE Run!Dial
  <2>1. /\ at = "dial" /\ r' = r /\ dialled' = TRUE
        /\ \/ at' = "batch" /\ refusal' = refusal /\ exit' = exit
           \/ at' = "done" /\ exit' = 1
        /\ UNCHANGED <<mode, lane, laned, lanePoint, busy, next, solved, printed>>
    BY <1>4 DEF Run!Dial, Run!Go, Run!sweepVars
  <2>2. Run!HostsRefused' = Run!HostsRefused
    BY <2>1 DEF Run!HostsRefused
  <2> QED BY <2>1, <2>2 DEF RunWhere, Untouched
<1>5. CASE Run!Batch
  <2>1. /\ at = "batch" /\ at' = "emit"
        /\ UNCHANGED <<r, refusal, exit, mode, lane, laned, lanePoint, busy, next, dialled, printed>>
    BY <1>5 DEF Run!Batch, Run!Go
  <2>2. solved' \in Seq(Run!Solved)
    <3> DEFINE m == IF mode = "gpu" THEN "gpu" ELSE "cpu"
    <3>1. PICK outcome : /\ \A f \in Run!Points : outcome[f] \in Run!WorkerAnswers(r, f, m)
                         /\ solved' = [f \in Run!Points |-> Run!Kept(f, outcome[f], m)]
      BY <1>5 DEF Run!Batch
    <3>2. \A f \in Run!Points : Run!Kept(f, outcome[f], m) \in Run!Solved
      BY <1>a, <3>1, KeptTyped
    <3> QED BY <3>1, <3>2 DEF Run!Points
  <2> QED BY <2>1, <2>2 DEF RunWhere
<1>6. CASE Run!Pick
  <2>1. /\ at = "pick" /\ at' = "excitation" /\ mode' = Run!Picked
        /\ laned' = (Run!Picked = "hybrid" /\ N > 1 /\ Run!DeckClass /\ r.device) /\ lane' = laned'
        /\ UNCHANGED <<r, refusal, exit, lanePoint, busy, next, solved, dialled, printed>>
    BY <1>6 DEF Run!Pick, Run!Go
  <2>2. Run!Picked \in {"cpu", "gpu", "hybrid"}
    BY DEF Run!Picked, Run!Described
  <2>3. laned' \in BOOLEAN
    BY <2>1
  <2> QED BY <2>1, <2>2, <2>3 DEF RunWhere, Untouched
<1>7. CASE Run!Excitation
  <2>1. /\ at = "excitation" /\ r' = r
        /\ \/ at' = "sweep" /\ refusal' = refusal /\ exit' = exit
           \/ at' = "done" /\ exit' = 1
        /\ UNCHANGED <<mode, lane, laned, lanePoint, busy, next, solved, dialled, printed>>
    BY <1>7 DEF Run!Excitation, Run!Exit, Run!Go, Run!sweepVars
  <2> QED BY <2>1 DEF RunWhere
<1>8. CASE Run!Take
  <2>1. /\ at = "sweep" /\ next \in 1 .. N /\ busy' = busy \cup {next} /\ next' = next + 1
        /\ UNCHANGED <<r, at, mode, lane, laned, lanePoint, solved, dialled, printed, refusal, exit>>
    BY <1>8 DEF Run!Take, Run!Left
  <2> QED BY <2>1 DEF RunWhere, Run!Points
<1>9. CASE Run!LaneTakes
  <2>1. /\ at = "sweep" /\ lane /\ next \in 1 .. N /\ lanePoint' = next /\ next' = next + 1
        /\ UNCHANGED <<r, at, mode, lane, laned, busy, solved, dialled, printed, refusal, exit>>
    BY <1>9 DEF Run!LaneTakes, Run!Left
  <2> QED BY <2>1 DEF RunWhere
<1>10. CASE Run!LaneFinishes
  <2>1. PICK a \in Run!PointAnswers(r, lanePoint, "gpu") :
           lane' = (lane /\ a.device) /\ solved' = Append(solved, Run!Kept(lanePoint, a, "gpu"))
    BY <1>10 DEF Run!LaneFinishes, Run!LaneAfter
  <2>2. /\ at = "sweep" /\ lanePoint \in Run!Points /\ lanePoint' = 0
        /\ UNCHANGED <<r, at, mode, laned, busy, next, dialled, printed, refusal, exit>>
    BY <1>10 DEF Run!LaneFinishes, Run!Points
  <2>3. solved' \in Seq(Run!Solved)
    BY <1>a, <2>1, <2>2, KeptTyped
  <2>4. lane' \in BOOLEAN /\ (lane' => lane)
    BY <2>1
  <2> QED BY <2>2, <2>3, <2>4 DEF RunWhere
<1>11. ASSUME NEW f \in busy, Run!Finish(f) PROVE RunWhere'
  <2> DEFINE m == IF mode = "gpu" THEN "gpu" ELSE "cpu"
  <2>1. PICK a \in Run!PointAnswers(r, f, m) : solved' = Append(solved, Run!Kept(f, a, m))
    BY <1>11 DEF Run!Finish
  <2>2. /\ at = "sweep" /\ busy' = busy \ {f}
        /\ UNCHANGED <<r, at, mode, lane, laned, lanePoint, next, dialled, printed, refusal, exit>>
    BY <1>11 DEF Run!Finish
  <2>3. solved' \in Seq(Run!Solved)
    BY <1>a, <2>1, KeptTyped
  <2> QED BY <2>2, <2>3 DEF RunWhere
<1>12. CASE Run!SweepEnds
  <2>1. /\ at = "sweep" /\ at' = "emit"
        /\ UNCHANGED <<r, refusal, exit, mode, lane, laned, lanePoint, busy, next, solved,
                       dialled, printed>>
    BY <1>12 DEF Run!SweepEnds, Run!Go, Run!sweepVars
  <2> QED BY <2>1 DEF RunWhere
<1>13. CASE Run!Emit
  <2>1. /\ at' = "done" /\ exit' \in {0, 1}
        /\ UNCHANGED <<r, mode, lane, laned, lanePoint, busy, next, solved, dialled>>
    BY <1>13 DEF Run!Emit, Run!sweepVars
  <2> QED BY <2>1 DEF RunWhere
<1> QED BY <1>1, <1>2, <1>3, <1>4, <1>5, <1>6, <1>7, <1>8, <1>9, <1>10, <1>11, <1>12, <1>13
        DEF Run!Next
-----------------------------------------------------------------------------
(* One run: its refusals                                                   *)

FilesSet == {"usage", "loads_file", "thresholds", "deck_file", "vars_file", "parse", "nec2d",
             "hosts_file", "sweep_file"}

LEMMA ChecksAre ==
    /\ DOMAIN Run!InputChecks = 1 .. 14
    /\ \A i \in 1 .. 9 : Run!InputChecks[i] = Run!Files[i] /\ Run!Files[i] \in FilesSet
    /\ \A x \in FilesSet : \E i \in 1 .. 9 : Run!Files[i] = x
    /\ Run!Range(Run!Files) = FilesSet
<1>1. DOMAIN Run!InputChecks = 1 .. 14 /\ \A i \in 1 .. 9 : Run!InputChecks[i] = Run!Files[i]
  <2> DEFINE S == {Run!Files[i] : i \in 1 .. 9} \cup {Run!OfTheDeck[i] : i \in 1 .. 5}
  <2>1. Run!Files \in Seq(S) /\ Len(Run!Files) = 9
    BY DEF Run!Files
  <2>2. Run!OfTheDeck \in Seq(S) /\ Len(Run!OfTheDeck) = 5
    BY DEF Run!OfTheDeck
  <2>3. Run!InputChecks = Run!Files \o Run!OfTheDeck
    BY DEF Run!InputChecks
  <2> HIDE DEF S
  <2> DEFINE s == Run!Files
             t == Run!OfTheDeck
  <2>4. s \in Seq(S) /\ t \in Seq(S) /\ Len(s) = 9 /\ Len(t) = 5
    BY <2>1, <2>2
  <2> HIDE DEF s, t
  <2>5. DOMAIN (s \o t) = 1 .. 9 + 5 /\ \A i \in 1 .. 9 : (s \o t)[i] = s[i]
    <3>1. s \in Seq(S) /\ t \in Seq(S)
      BY <2>4
    <3>2. DOMAIN (s \o t) = 1 .. Len(s) + Len(t) /\ \A i \in 1 .. Len(s) : (s \o t)[i] = s[i]
      BY <3>1
    <3> QED BY <2>4, <3>2
  <2>6. Run!InputChecks = s \o t
    BY <2>3 DEF s, t
  <2>7. 9 + 5 = 14
    OBVIOUS
  <2> QED BY <2>5, <2>6, <2>7 DEF s
<1>2. DOMAIN Run!Files = 1 .. 9
  BY DEF Run!Files
<1>3. /\ Run!Files[1] = "usage" /\ Run!Files[2] = "loads_file" /\ Run!Files[3] = "thresholds"
      /\ Run!Files[4] = "deck_file" /\ Run!Files[5] = "vars_file" /\ Run!Files[6] = "parse"
      /\ Run!Files[7] = "nec2d" /\ Run!Files[8] = "hosts_file" /\ Run!Files[9] = "sweep_file"
  BY DEF Run!Files
<1>4. Run!Range(Run!Files) = {Run!Files[i] : i \in 1 .. 9}
  BY <1>2 DEF Run!Range
<1>5. \A i \in 1 .. 9 : i \in {1, 2, 3, 4, 5, 6, 7, 8, 9}
  OBVIOUS
<1>6. \A i \in 1 .. 9 : Run!Files[i] \in FilesSet
  BY <1>3, <1>5 DEF FilesSet
<1>7. \A x \in FilesSet : \E i \in 1 .. 9 : Run!Files[i] = x
  BY <1>3 DEF FilesSet
<1> QED BY <1>1, <1>4, <1>6, <1>7

\* A run that has passed its files has none of them at fault.
FilesJudged == at # "inputs" /\ refusal \notin FilesSet => r.faults \cap (FilesSet \ {"nec2d"}) = {}

RefusedUntouched ==
    refusal \notin {None, "unreachable", "pattern"} =>
        ~dialled /\ solved = <<>> /\ printed = <<>> /\ exit # 0

RunRefusals == FilesJudged /\ RefusedUntouched

\* The first check that fails is one of the files when any of them does.
LEMMA FirstFailing ==
    ASSUME Run!Failing # {}
    PROVE  /\ Run!Min(Run!Failing) \in Run!Failing /\ Run!Failing \subseteq 1 .. 14
           /\ \A i \in Run!Failing : Run!Min(Run!Failing) <= i
<1>1. Run!Failing \subseteq 1 .. 14
  BY ChecksAre DEF Run!Failing
<1>2. \E m \in Run!Failing : \A k \in Run!Failing : m <= k
  <2>1. Run!Failing \subseteq Nat
    BY <1>1
  <2> QED BY <2>1, LeastOf
<1> QED BY <1>1, <1>2 DEF Run!Min

LEMMA CheckInputsJudges ==
    ASSUME Run!CheckInputs, RunWhere
    PROVE  FilesJudged'
<1>0. /\ None \notin FilesSet /\ at = "inputs" /\ refusal = None
      /\ \A i \in 1 .. 14 : i \in Run!Failing <=> Run!Fails(Run!InputChecks[i])
      /\ \A i \in 1 .. 9 : Run!InputChecks[i] \in FilesSet
      /\ \A x \in FilesSet : \E i \in 1 .. 9 : Run!InputChecks[i] = x
  <2>1. None \notin FilesSet
    BY CliAndCommands DEF Run!CliAssumption, FilesSet
  <2>2. at = "inputs" /\ refusal = None
    BY DEF Run!CheckInputs, RunWhere, RunShape
  <2>3. \A i \in 1 .. 14 : i \in Run!Failing <=> Run!Fails(Run!InputChecks[i])
    BY ChecksAre DEF Run!Failing
  <2>5. \A i \in 1 .. 9 : Run!InputChecks[i] \in FilesSet
    BY ChecksAre
  <2>6. \A x \in FilesSet : \E i \in 1 .. 9 : Run!InputChecks[i] = x
    BY ChecksAre
  <2> QED BY <2>1, <2>2, <2>3, <2>5, <2>6
<1>1. ASSUME NEW x \in r.faults, x \in FilesSet \ {"nec2d"}
      PROVE  \E i \in 1 .. 9 : i \in Run!Failing
  <2>1. PICK i \in 1 .. 9 : Run!InputChecks[i] = x
    BY <1>0, <1>1
  <2>2. Run!Fails(x)
    BY <1>1 DEF Run!Fails
  <2> QED BY <1>0, <2>1, <2>2
<1>2. CASE Run!Failing = {}
  <2>1. r' = r /\ refusal' = refusal
    BY <1>2 DEF Run!CheckInputs, Run!Go
  <2> QED BY <1>1, <1>2, <2>1 DEF FilesJudged
<1>3. CASE Run!Failing # {}
  <2>1. r' = r /\ refusal' = Run!InputChecks[Run!Min(Run!Failing)]
    BY <1>3 DEF Run!CheckInputs, Run!Exit
  <2>2. SUFFICES ASSUME refusal' \notin FilesSet, NEW x \in r.faults, x \in FilesSet \ {"nec2d"}
                 PROVE  FALSE
    BY <2>1 DEF FilesJudged
  <2>3. PICK i \in 1 .. 9 : i \in Run!Failing
    BY <1>1, <2>2
  <2>4. Run!Min(Run!Failing) \in 1 .. 14 /\ Run!Min(Run!Failing) <= i
    BY <1>3, <2>3, FirstFailing
  <2>5. Run!Min(Run!Failing) \in 1 .. 9
    BY <2>4
  <2> QED BY <1>0, <2>1, <2>2, <2>5
<1> QED BY <1>2, <1>3

LEMMA RunRefusalsKeep ==
    ASSUME RunWhere, RunRefusals, [Run!Next]_runVars
    PROVE  RunRefusals'
<1>0. /\ None \notin FilesSet
      /\ None \notin {"hosts", "unreachable", "excitation", "pattern"}
      /\ None \notin {0, 1, 2}
  BY CliAndCommands DEF Run!CliAssumption, FilesSet
<1>1. CASE Run!CheckInputs
  <2>1. CASE Run!Failing = {}
    <3>1. refusal' = refusal /\ refusal = None
      BY <1>1, <2>1 DEF Run!CheckInputs, Run!Go, RunWhere, RunShape
    <3> QED BY <1>1, <3>1, CheckInputsJudges DEF RunRefusals, RefusedUntouched
  <2>2. CASE Run!Failing # {}
    <3>1. exit' \in {1, 2} /\ UNCHANGED <<dialled, solved, printed>>
          /\ ~dialled /\ solved = <<>> /\ printed = <<>>
      BY <1>1, <2>2 DEF Run!CheckInputs, Run!Exit, Run!sweepVars, RunWhere, RunShape, Untouched
    <3> QED BY <1>1, <3>1, CheckInputsJudges DEF RunRefusals, RefusedUntouched
  <2> QED BY <2>1, <2>2
<1>2. ASSUME at \notin {"inputs", "done"}, r' = r,
             \/ refusal' \in {None, "unreachable", "pattern"}
             \/ ~dialled' /\ solved' = <<>> /\ printed' = <<>> /\ exit' # 0
      PROVE  RunRefusals'
  <2>1. FilesJudged'
    BY <1>0, <1>2 DEF RunRefusals, FilesJudged, RunWhere, RunShape
  <2> QED BY <1>2, <2>1 DEF RunRefusals, RefusedUntouched
<1>3. CASE UNCHANGED runVars
  BY <1>3 DEF runVars, RunRefusals, FilesJudged, RefusedUntouched
<1>4. CASE Run!CheckHosts
  <2>1. \/ refusal' = None
        \/ exit' = 1 /\ UNCHANGED <<dialled, solved, printed>> /\ ~dialled /\ solved = <<>>
           /\ printed = <<>>
    BY <1>4 DEF Run!CheckHosts, Run!Exit, Run!Go, Run!sweepVars, RunWhere, RunShape, Untouched
  <2>2. at = "hosts" /\ r' = r
    BY <1>4 DEF Run!CheckHosts, Run!Exit, Run!Go
  <2> QED BY <1>2, <2>1, <2>2
<1>5. CASE Run!Excitation
  <2>1. \/ refusal' = None
        \/ exit' = 1 /\ UNCHANGED <<dialled, solved, printed>> /\ ~dialled /\ solved = <<>>
           /\ printed = <<>>
    BY <1>5 DEF Run!Excitation, Run!Exit, Run!Go, Run!sweepVars, RunWhere, RunShape, Untouched
  <2>2. at = "excitation" /\ r' = r
    BY <1>5 DEF Run!Excitation, Run!Exit, Run!Go
  <2> QED BY <1>2, <2>1, <2>2
<1>6. CASE Run!Dial
  BY <1>2, <1>6 DEF Run!Dial, Run!Go, RunWhere, RunShape
<1>7. CASE Run!Batch \/ Run!Pick \/ Run!SweepEnds
  BY <1>2, <1>7 DEF Run!Batch, Run!Pick, Run!SweepEnds, Run!Go, RunWhere, RunShape
<1>8. CASE Run!Take \/ Run!LaneTakes \/ Run!LaneFinishes \/ (\E f \in busy : Run!Finish(f))
  BY <1>2, <1>8 DEF Run!Take, Run!LaneTakes, Run!LaneFinishes, Run!Finish, RunWhere, RunShape
<1>9. CASE Run!Emit
  BY <1>2, <1>9 DEF Run!Emit
<1> QED BY <1>1, <1>3, <1>4, <1>5, <1>6, <1>7, <1>8, <1>9 DEF Run!Next

LEMMA RunRefusalsHold == ASSUME RunWhere, RunRefusals PROVE NothingBeforeRefusal
<1>1. at = "inputs" => refusal = None
  BY DEF RunWhere, RunShape
<1> QED BY <1>1, ChecksAre DEF RunRefusals, FilesJudged, RefusedUntouched, NothingBeforeRefusal,
                               Run!NothingBeforeRefusal

-----------------------------------------------------------------------------
(* One run: its answers                                                    *)

LEMMA DeckKept ==
    ASSUME RunWhere, Run!AnswersTheDeck, [Run!Next]_runVars
    PROVE  Run!AnswersTheDeck'
<1> USE DEF Run!AnswersTheDeck
<1>0. r \in Run!Described /\ solved \in Seq(Run!Solved)
  BY DEF RunWhere, RunTyped
<1>1. ASSUME r' = r, solved' = solved PROVE Run!AnswersTheDeck'
  BY <1>1 DEF Run!CarriesDeck
<1>2. ASSUME r' = r, NEW f, NEW m, NEW k, NEW a \in Run!PointAnswers(r, f, m),
             solved' = Append(solved, Run!Kept(f, a, k))
      PROVE  Run!AnswersTheDeck'
  <2>1. Run!CarriesDeck(r, f, a)
    BY <1>0, PointCarries
  <2>2. /\ DOMAIN solved' = 1 .. Len(solved) + 1 /\ Len(solved) \in Nat
        /\ solved'[Len(solved) + 1] = Run!Kept(f, a, k)
        /\ \A i \in 1 .. Len(solved) : solved'[i] = solved[i] /\ i \in DOMAIN solved
    BY <1>0, <1>2
  <2>3. ASSUME NEW i \in DOMAIN solved'
        PROVE  Run!CarriesDeck(r, solved'[i].point, solved'[i].answer)
    <3>1. CASE i = Len(solved) + 1
      <4>1. solved'[i].point = f /\ solved'[i].answer = a
        BY <2>2, <3>1 DEF Run!Kept
      <4> QED BY <2>1, <4>1
    <3>2. CASE i # Len(solved) + 1
      <4>1. i \in 1 .. Len(solved)
        BY <2>2, <2>3, <3>2
      <4> QED BY <2>2, <4>1
    <3> QED BY <3>1, <3>2
  <2> QED BY <1>2, <2>3
<1>3. CASE Run!Batch
  <2> DEFINE m == IF mode = "gpu" THEN "gpu" ELSE "cpu"
  <2>1. PICK outcome : /\ \A f \in Run!Points : outcome[f] \in Run!WorkerAnswers(r, f, m)
                       /\ solved' = [f \in Run!Points |-> Run!Kept(f, outcome[f], m)]
    BY <1>3 DEF Run!Batch
  <2>2. ~r.laplace /\ r.solver = "hallen" /\ ~(r.feeds > 1) /\ r.feeds \in Nat /\ r' = r
    BY <1>3 DEF Run!Batch, Run!Go, RunWhere, RunTyped, RunShape, Run!HostsRefused, Run!Described
  <2> HIDE DEF m
  <2>3. ASSUME NEW f \in Run!Points
        PROVE  Run!CarriesDeck(r, solved'[f].point, solved'[f].answer)
    <3>1. Run!CarriesDeck(r, f, outcome[f])
      BY <1>0, <2>1, <2>2, WorkerCarries
    <3>2. solved'[f].point = f /\ solved'[f].answer = outcome[f]
      BY <2>1 DEF Run!Kept
    <3> QED BY <3>1, <3>2
  <2>4. DOMAIN solved' = Run!Points
    BY <2>1
  <2> QED BY <2>2, <2>3, <2>4
<1>4. CASE Run!LaneFinishes
  <2>1. r' = r /\ \E a \in Run!PointAnswers(r, lanePoint, "gpu") :
           solved' = Append(solved, Run!Kept(lanePoint, a, "gpu"))
    BY <1>4 DEF Run!LaneFinishes, Run!LaneAfter
  <2> QED BY <1>2, <2>1
<1>5. ASSUME NEW f \in busy, Run!Finish(f) PROVE Run!AnswersTheDeck'
  <2> DEFINE m == IF mode = "gpu" THEN "gpu" ELSE "cpu"
  <2>1. r' = r /\ \E a \in Run!PointAnswers(r, f, m) : solved' = Append(solved, Run!Kept(f, a, m))
    BY <1>5 DEF Run!Finish
  <2> HIDE DEF m
  <2> QED BY <1>2, <2>1
<1>6. CASE UNCHANGED runVars
  BY <1>1, <1>6 DEF runVars
<1>7. CASE Run!CheckInputs \/ Run!CheckHosts \/ Run!Excitation \/ Run!SweepEnds
  BY <1>1, <1>7 DEF Run!CheckInputs, Run!CheckHosts, Run!Excitation, Run!SweepEnds, Run!Go,
                    Run!Exit, Run!sweepVars
<1>8. CASE Run!Dial \/ Run!Pick \/ Run!Emit
  BY <1>1, <1>8 DEF Run!Dial, Run!Pick, Run!Emit, Run!Go, Run!sweepVars
<1>9. CASE Run!Take \/ Run!LaneTakes
  BY <1>1, <1>9 DEF Run!Take, Run!LaneTakes
<1> QED BY <1>3, <1>4, <1>5, <1>6, <1>7, <1>8, <1>9 DEF Run!Next
-----------------------------------------------------------------------------
(* One run: its points                                                     *)

Found == {solved[i].point : i \in DOMAIN solved}
InLane == {lanePoint} \ {0}

\* Each point that was taken from the counter is kept, in flight or with the lane, once.
Accounted == /\ \A i, j \in DOMAIN solved : solved[i].point = solved[j].point => i = j
             /\ busy \subseteq 1 .. next - 1 /\ lanePoint \in 0 .. next - 1
             /\ lanePoint \notin busy /\ Found \cap busy = {} /\ lanePoint \notin Found
             /\ at \notin {"emit", "done"} => Found \cup busy \cup InLane = 1 .. next - 1
             /\ at = "emit" => Found = Run!Points

LEMMA FoundOneMore ==
    ASSUME NEW f, NEW a, NEW m, solved \in Seq(Run!Solved), f \notin Found,
           \A i, j \in DOMAIN solved : solved[i].point = solved[j].point => i = j,
           solved' = Append(solved, Run!Kept(f, a, m))
    PROVE  /\ Found' = Found \cup {f}
           /\ \A i, j \in DOMAIN solved' : solved'[i].point = solved'[j].point => i = j
<1>1. /\ DOMAIN solved' = 1 .. Len(solved) + 1 /\ Len(solved) \in Nat
      /\ DOMAIN solved = 1 .. Len(solved)
      /\ solved'[Len(solved) + 1] = Run!Kept(f, a, m)
      /\ \A i \in 1 .. Len(solved) : solved'[i] = solved[i]
  OBVIOUS
<1>2. solved'[Len(solved) + 1].point = f
  BY <1>1 DEF Run!Kept
<1>3. \A i \in DOMAIN solved' : i \in DOMAIN solved \/ i = Len(solved) + 1
  BY <1>1
<1>4. \A i \in DOMAIN solved : solved'[i].point = solved[i].point /\ solved[i].point # f
                               /\ i \in DOMAIN solved'
  BY <1>1 DEF Found
<1>5. Len(solved) + 1 \in DOMAIN solved'
  BY <1>1
<1>6. Found' = Found \cup {f}
  BY <1>2, <1>3, <1>4, <1>5 DEF Found
<1>7. ASSUME NEW i \in DOMAIN solved', NEW j \in DOMAIN solved',
             solved'[i].point = solved'[j].point
      PROVE  i = j
  BY <1>2, <1>3, <1>4, <1>7
<1> QED BY <1>6, <1>7

LEMMA AccountedKeeps ==
    ASSUME RunWhere, Accounted, [Run!Next]_runVars
    PROVE  Accounted'
<1>0. /\ N \in Nat \ {0} /\ solved \in Seq(Run!Solved) /\ next \in 1 .. N + 1
      /\ busy \subseteq Run!Points /\ lanePoint \in 0 .. N
  BY CliAndCommands DEF Run!CliAssumption, RunWhere, RunTyped
<1> USE <1>0 DEF Accounted
<1>1. ASSUME UNCHANGED <<lanePoint, busy, next, solved>>, at' # "emit", at # "done", at # "emit"
      PROVE  Accounted'
  BY <1>1 DEF Found, InLane
<1>2. CASE UNCHANGED runVars
  BY <1>2 DEF runVars, Found, InLane
<1>3. CASE Run!CheckInputs \/ Run!CheckHosts \/ Run!Excitation
  BY <1>1, <1>3 DEF Run!CheckInputs, Run!CheckHosts, Run!Excitation, Run!Go, Run!Exit,
                    Run!sweepVars
<1>4. CASE Run!Dial \/ Run!Pick
  BY <1>1, <1>4 DEF Run!Dial, Run!Pick, Run!Go, Run!sweepVars
<1>5. CASE Run!Emit
  <2>1. UNCHANGED <<lanePoint, busy, next, solved>> /\ at' = "done"
    BY <1>5 DEF Run!Emit, Run!sweepVars
  <2> QED BY <2>1 DEF Found
<1>6. CASE Run!SweepEnds
  <2>1. UNCHANGED <<lanePoint, busy, next, solved>> /\ at = "sweep" /\ at' = "emit"
        /\ next > N /\ busy = {} /\ lanePoint = 0
    BY <1>6 DEF Run!SweepEnds, Run!Go, Run!sweepVars
  <2>2. Found = Run!Points
    <3>1. next - 1 = N /\ InLane = {}
      BY <2>1 DEF InLane
    <3> QED BY <2>1, <3>1 DEF Run!Points
  <2> QED BY <2>1, <2>2 DEF Found
<1>7. CASE Run!Batch
  <2> DEFINE m == IF mode = "gpu" THEN "gpu" ELSE "cpu"
  <2>1. PICK outcome : solved' = [f \in Run!Points |-> Run!Kept(f, outcome[f], m)]
    BY <1>7 DEF Run!Batch
  <2>2. UNCHANGED <<lanePoint, busy, next>> /\ at' = "emit" /\ Untouched
    BY <1>7 DEF Run!Batch, Run!Go, RunWhere, RunShape
  <2>3. DOMAIN solved' = Run!Points /\ \A f \in Run!Points : solved'[f].point = f
    BY <2>1 DEF Run!Kept
  <2>4. Found' = Run!Points
    <3>1. Found' = {solved'[f].point : f \in DOMAIN solved'}
      BY DEF Found
    <3> HIDE <1>0 DEF Accounted
    <3> QED BY <2>3, <3>1
  <2>5. 0 \notin Run!Points
    BY DEF Run!Points
  <2> QED BY <2>2, <2>3, <2>4, <2>5 DEF Untouched
<1>8. CASE Run!Take
  <2>1. /\ at = "sweep" /\ next \in 1 .. N /\ busy' = busy \cup {next} /\ next' = next + 1
        /\ UNCHANGED <<at, lanePoint, solved>>
    BY <1>8 DEF Run!Take, Run!Left
  <2>2. Found' = Found /\ InLane' = InLane
    BY <2>1 DEF Found, InLane
  <2>3. next \notin Found \cup busy \cup InLane /\ lanePoint # next
    BY <2>1
  <2>4. 1 .. next' - 1 = (1 .. next - 1) \cup {next} /\ lanePoint \in 0 .. next' - 1
    BY <2>1
  <2> QED BY <2>1, <2>2, <2>3, <2>4
<1>9. CASE Run!LaneTakes
  <2>1. /\ at = "sweep" /\ lanePoint = 0 /\ next \in 1 .. N /\ lanePoint' = next
        /\ next' = next + 1 /\ UNCHANGED <<at, busy, solved>>
    BY <1>9 DEF Run!LaneTakes, Run!Left
  <2>2. Found' = Found /\ InLane = {} /\ InLane' = {next}
    BY <2>1 DEF Found, InLane
  <2>3. next \notin Found \cup busy
    BY <2>1
  <2>4. 1 .. next' - 1 = (1 .. next - 1) \cup {next} /\ next \in 0 .. next' - 1
    BY <2>1
  <2> QED BY <2>1, <2>2, <2>3, <2>4
<1>10. CASE Run!LaneFinishes
  <2>1. PICK a : solved' = Append(solved, Run!Kept(lanePoint, a, "gpu"))
    BY <1>10 DEF Run!LaneFinishes, Run!LaneAfter
  <2>2. at = "sweep" /\ lanePoint # 0 /\ lanePoint' = 0 /\ UNCHANGED <<at, busy, next>>
    BY <1>10 DEF Run!LaneFinishes
  <2>3. /\ Found' = Found \cup {lanePoint}
        /\ \A i, j \in DOMAIN solved' : solved'[i].point = solved'[j].point => i = j
    BY <2>1, FoundOneMore
  <2>4. InLane = {lanePoint} /\ InLane' = {}
    BY <2>2 DEF InLane
  <2>5. 0 \in 0 .. next - 1 /\ 0 \notin busy /\ 0 \notin Found'
    <3>1. Found \subseteq 1 .. next - 1
      BY <2>2
    <3> QED BY <2>2, <2>3, <3>1
  <2> QED BY <2>2, <2>3, <2>4, <2>5
<1>11. ASSUME NEW f \in busy, Run!Finish(f) PROVE Accounted'
  <2> DEFINE m == IF mode = "gpu" THEN "gpu" ELSE "cpu"
  <2>1. PICK a : solved' = Append(solved, Run!Kept(f, a, m))
    BY <1>11 DEF Run!Finish
  <2>2. at = "sweep" /\ busy' = busy \ {f} /\ UNCHANGED <<at, lanePoint, next>>
    BY <1>11 DEF Run!Finish
  <2>3. /\ Found' = Found \cup {f}
        /\ \A i, j \in DOMAIN solved' : solved'[i].point = solved'[j].point => i = j
    BY <2>1, FoundOneMore
  <2>4. InLane' = InLane
    BY <2>2 DEF InLane
  <2> QED BY <2>2, <2>3, <2>4
<1> QED BY <1>2, <1>3, <1>4, <1>5, <1>6, <1>7, <1>8, <1>9, <1>10, <1>11 DEF Run!Next

-----------------------------------------------------------------------------
(* One run: its threads and its lane                                       *)

LEMMA RunLesserOf ==
    ASSUME NEW a \in Int, NEW b \in Int
    PROVE  /\ Run!Min({a, b}) = IF a <= b THEN a ELSE b
           /\ Run!Max({a, b}) = IF a >= b THEN a ELSE b
<1>1. Run!Min({a, b}) = Device!Min({a, b}) /\ Run!Max({a, b}) = Device!Max({a, b})
  BY DEF Run!Min, Run!Max, Device!Min, Device!Max
<1> QED BY <1>1, LesserOf, GreaterOf

WorkersOf(q, md, ld) ==
    IF md = "gpu" THEN 1
    ELSE IF ld THEN Run!Max({1, Run!Max({1, Run!Min({q.fit, Threads})}) - 1})
    ELSE Run!Max({1, Run!Min({q.fit, Threads})})

\* At least one thread, and with the lane's no more than the memory holds.
LEMMA WorkersAre ==
    ASSUME NEW q \in Run!Described, NEW md, NEW ld \in BOOLEAN
    PROVE  /\ WorkersOf(q, md, ld) \in Nat /\ 1 <= WorkersOf(q, md, ld)
           /\ Run!Max({q.fit, IF ld THEN 2 ELSE 1}) \in Int
           /\ ~ld \/ md # "gpu" =>
                 WorkersOf(q, md, ld) + (IF ld THEN 1 ELSE 0)
                    <= Run!Max({q.fit, IF ld THEN 2 ELSE 1})
<1> DEFINE fit == q.fit
<1>0. fit \in Nat /\ Threads \in Nat \ {0}
  BY CliAndCommands DEF Run!CliAssumption, Run!Described
<1> HIDE DEF fit
<1> DEFINE fits == IF fit <= Threads THEN fit ELSE Threads
           par == IF 1 >= fits THEN 1 ELSE fits
           fewer == IF 1 >= par - 1 THEN 1 ELSE par - 1
           two == IF ld THEN 2 ELSE 1
<1>1. Run!Max({1, Run!Min({fit, Threads})}) = par
  <2>1. Run!Min({fit, Threads}) = fits /\ fits \in Int
    BY <1>0, RunLesserOf
  <2> HIDE DEF fits
  <2> QED BY <2>1, RunLesserOf
<1>2. par \in Nat /\ 1 <= par /\ (par <= fit \/ par = 1)
  BY <1>0
<1> HIDE DEF par
<1>3. Run!Max({1, par - 1}) = fewer
  <2> DEFINE less == par - 1
  <2>1. less \in Int
    BY <1>2
  <2> HIDE DEF less
  <2>2. Run!Max({1, less}) = IF 1 >= less THEN 1 ELSE less
    BY <2>1, RunLesserOf
  <2> QED BY <2>2 DEF less
<1>4. fewer \in Nat /\ 1 <= fewer /\ (fewer + 1 <= par \/ fewer = 1)
  BY <1>2
<1> HIDE DEF fewer
<1>5. WorkersOf(q, md, ld) = IF md = "gpu" THEN 1 ELSE IF ld THEN fewer ELSE par
  BY <1>1, <1>3 DEF WorkersOf, fit
<1>6. Run!Max({fit, two}) = IF fit >= two THEN fit ELSE two
  <2>1. two \in Int
    OBVIOUS
  <2> HIDE DEF two
  <2> QED BY <1>0, <2>1, RunLesserOf
<1>7. Run!Max({q.fit, IF ld THEN 2 ELSE 1}) = IF fit >= two THEN fit ELSE two
  BY <1>6 DEF fit
<1> QED BY <1>0, <1>2, <1>4, <1>5, <1>7

LEMMA SameCount == ASSUME NEW S PROVE Run!Cardinality(S) = Cardinality(S)
BY DEF Run!Cardinality, Cardinality

BusyFew == IsFiniteSet(busy) /\ Cardinality(busy) <= Run!Workers

LEMMA BusyFewKeeps ==
    ASSUME RunWhere, RunWhere', BusyFew, [Run!Next]_runVars
    PROVE  BusyFew'
<1>0. /\ Run!Workers \in Nat /\ 1 <= Run!Workers /\ Run!Workers' \in Nat /\ 1 <= Run!Workers'
      /\ IsFiniteSet(busy) /\ Cardinality(busy) \in Nat /\ Cardinality(busy) <= Run!Workers
  <2>0. /\ Run!Workers = WorkersOf(r, mode, laned)
        /\ Run!Workers' = WorkersOf(r', mode', laned')
    BY DEF Run!Workers, Run!MaxParallel, WorkersOf
  <2>1. Run!Workers \in Nat /\ 1 <= Run!Workers
    BY <2>0, WorkersAre DEF RunWhere, RunTyped
  <2>2. Run!Workers' \in Nat /\ 1 <= Run!Workers'
    BY <2>0, WorkersAre DEF RunWhere, RunTyped
  <2> QED BY <2>1, <2>2, FS_CardinalityType DEF BusyFew
<1>1. ASSUME UNCHANGED <<mode, laned, r>> PROVE Run!Workers' = Run!Workers
  BY <1>1 DEF Run!Workers, Run!MaxParallel
<1>2. ASSUME UNCHANGED <<mode, laned, r, busy>> PROVE BusyFew'
  BY <1>1, <1>2 DEF BusyFew
<1>3. CASE Run!Pick
  <2>1. busy' = {}
    BY <1>3 DEF Run!Pick, RunWhere, RunShape, Untouched
  <2>2. Cardinality(busy') = 0 /\ IsFiniteSet(busy')
    BY <2>1, FS_EmptySet
  <2> QED BY <1>0, <2>2 DEF BusyFew
<1>4. CASE Run!Take
  <2>1. busy' = busy \cup {next} /\ UNCHANGED <<mode, laned, r>>
        /\ Cardinality(busy) < Run!Workers
    BY <1>4, SameCount DEF Run!Take
  <2>2. IsFiniteSet(busy') /\ Cardinality(busy') <= Cardinality(busy) + 1
        /\ Cardinality(busy') \in Nat
    <3>1. /\ IsFiniteSet(busy \cup {next})
          /\ \/ Cardinality(busy \cup {next}) = Cardinality(busy)
             \/ Cardinality(busy \cup {next}) = Cardinality(busy) + 1
      BY <1>0, FS_AddElement
    <3> QED BY <1>0, <2>1, <3>1
  <2> QED BY <1>0, <1>1, <2>1, <2>2 DEF BusyFew
<1>5. ASSUME NEW f \in busy, Run!Finish(f) PROVE BusyFew'
  <2>1. busy' = busy \ {f} /\ UNCHANGED <<mode, laned, r>>
    BY <1>5 DEF Run!Finish
  <2>2. IsFiniteSet(busy') /\ Cardinality(busy') <= Cardinality(busy)
        /\ Cardinality(busy') \in Nat
    BY <1>0, <2>1, FS_RemoveElement, FS_CardinalityType
  <2> QED BY <1>0, <1>1, <2>1, <2>2 DEF BusyFew
<1>6. CASE UNCHANGED runVars
  BY <1>2, <1>6 DEF runVars
<1>7. CASE Run!CheckInputs \/ Run!CheckHosts \/ Run!Excitation \/ Run!SweepEnds
  BY <1>2, <1>7 DEF Run!CheckInputs, Run!CheckHosts, Run!Excitation, Run!SweepEnds, Run!Go,
                    Run!Exit, Run!sweepVars
<1>8. CASE Run!Dial \/ Run!Batch \/ Run!Emit
  BY <1>2, <1>8 DEF Run!Dial, Run!Batch, Run!Emit, Run!Go, Run!sweepVars
<1>9. CASE Run!LaneTakes \/ Run!LaneFinishes
  BY <1>2, <1>9 DEF Run!LaneTakes, Run!LaneFinishes
<1> QED BY <1>3, <1>4, <1>5, <1>6, <1>7, <1>8, <1>9 DEF Run!Next

LEMMA BudgetHolds == ASSUME RunWhere, BusyFew PROVE Run!WithinBudget
<1>0. /\ IsFiniteSet(busy) /\ Cardinality(busy) \in Nat /\ Cardinality(busy) <= Run!Workers
      /\ Run!Workers \in Nat
      /\ ~laned \/ mode # "gpu" =>
            Run!Workers + (IF laned THEN 1 ELSE 0) <= Run!Max({r.fit, IF laned THEN 2 ELSE 1})
  <2>1. Run!Workers = WorkersOf(r, mode, laned)
    BY DEF Run!Workers, Run!MaxParallel, WorkersOf
  <2> QED BY <2>1, WorkersAre, FS_CardinalityType DEF BusyFew, RunWhere, RunTyped
<1> DEFINE all == busy \cup ({lanePoint} \ {0})
           top == Run!Max({r.fit, IF laned THEN 2 ELSE 1})
<1>1. laned => mode # "gpu"
  BY DEF RunWhere, RunShape
<1>2. top \in Int
  BY WorkersAre DEF RunWhere, RunTyped
<1>3. CASE lanePoint = 0
  <2>1. all = busy
    BY <1>3
  <2>2. Cardinality(busy) <= top
    BY <1>0, <1>1, <1>2
  <2> QED BY <2>1, <2>2, SameCount DEF Run!WithinBudget
<1>4. CASE lanePoint # 0
  <2>1. laned /\ all = busy \cup {lanePoint}
    BY <1>4 DEF RunWhere, RunShape
  <2>2. Cardinality(all) <= Cardinality(busy) + 1 /\ Cardinality(all) \in Nat
    <3>1. \/ Cardinality(busy \cup {lanePoint}) = Cardinality(busy)
          \/ Cardinality(busy \cup {lanePoint}) = Cardinality(busy) + 1
      BY <1>0, FS_AddElement
    <3> HIDE DEF all
    <3>2. Cardinality(all) = Cardinality(busy \cup {lanePoint})
      BY <2>1
    <3> QED BY <1>0, <3>1, <3>2
  <2>3. Cardinality(all) <= top
    BY <1>0, <1>1, <1>2, <2>1, <2>2
  <2> QED BY <2>3, SameCount DEF Run!WithinBudget
<1> QED BY <1>3, <1>4
\* While the lane is open, the device solved every point it was given.
LaneSound ==
    /\ Run!LaneStopsAtTrouble
    /\ lane => \A i \in DOMAIN solved : solved[i].mode = "gpu" => solved[i].answer.device

LEMMA LaneSoundKeeps ==
    ASSUME RunWhere, LaneSound, [Run!Next]_runVars
    PROVE  LaneSound'
<1>0. RunTyped /\ RunShape /\ solved \in Seq(Run!Solved)
  BY DEF RunWhere, RunTyped
<1>1. ASSUME UNCHANGED <<solved, lane, laned>> PROVE LaneSound'
  BY <1>1 DEF LaneSound, Run!LaneStopsAtTrouble
<1>2. ASSUME NEW f, NEW a, NEW m, solved' = Append(solved, Run!Kept(f, a, m))
      PROVE  /\ DOMAIN solved = 1 .. Len(solved) /\ Len(solved) \in Nat
             /\ DOMAIN solved' = 1 .. Len(solved) + 1
             /\ \A i \in DOMAIN solved : solved'[i] = solved[i]
             /\ solved'[Len(solved) + 1].mode = m /\ solved'[Len(solved) + 1].answer = a
  <2>1. /\ DOMAIN solved = 1 .. Len(solved) /\ Len(solved) \in Nat
        /\ DOMAIN solved' = 1 .. Len(solved) + 1
        /\ \A i \in DOMAIN solved : solved'[i] = solved[i]
        /\ solved'[Len(solved) + 1] = Run!Kept(f, a, m)
    BY <1>0, <1>2
  <2> QED BY <2>1 DEF Run!Kept
<1>3. CASE Run!Batch
  <2>1. ~laned /\ ~lane /\ UNCHANGED <<lane, laned>>
    BY <1>0, <1>3 DEF Run!Batch, RunShape
  <2> QED BY <2>1 DEF LaneSound, Run!LaneStopsAtTrouble
<1>4. CASE Run!Pick
  <2>1. solved' = <<>>
    BY <1>0, <1>4 DEF Run!Pick, RunShape, Untouched
  <2>2. DOMAIN solved' = {}
    BY <2>1
  <2> QED BY <2>2 DEF LaneSound, Run!LaneStopsAtTrouble
<1>5. CASE Run!LaneFinishes
  <2>1. PICK a : lane' = (lane /\ a.device) /\ solved' = Append(solved, Run!Kept(lanePoint, a, "gpu"))
    BY <1>5 DEF Run!LaneFinishes, Run!LaneAfter
  <2>2. lane
    BY <1>0, <1>5 DEF Run!LaneFinishes, RunShape
  <2> DEFINE last == Len(solved) + 1
  <2>3. /\ DOMAIN solved = 1 .. Len(solved) /\ Len(solved) \in Nat
        /\ DOMAIN solved' = 1 .. last /\ \A i \in DOMAIN solved : solved'[i] = solved[i]
        /\ solved'[last].mode = "gpu" /\ solved'[last].answer = a
    BY <1>2, <2>1
  <2>4. last \in Nat /\ \A i \in DOMAIN solved' : i <= last /\ (i \in DOMAIN solved \/ i = last)
    BY <2>3
  <2> HIDE DEF last
  <2>5. \A i \in DOMAIN solved' : solved'[i].mode = "gpu" /\ ~solved'[i].answer.device => i = last
    BY <2>2, <2>3, <2>4 DEF LaneSound
  <2>6. lane' => \A i \in DOMAIN solved' : solved'[i].mode = "gpu" => solved'[i].answer.device
    BY <2>1, <2>3, <2>5
  <2>7. Run!LaneStopsAtTrouble'
    BY <2>4, <2>5 DEF Run!LaneStopsAtTrouble
  <2> QED BY <2>6, <2>7 DEF LaneSound
<1>6. ASSUME NEW f \in busy, Run!Finish(f) PROVE LaneSound'
  <2> DEFINE m == IF mode = "gpu" THEN "gpu" ELSE "cpu"
  <2>1. PICK a : solved' = Append(solved, Run!Kept(f, a, m))
    BY <1>6 DEF Run!Finish
  <2>2. UNCHANGED <<lane, laned, mode>>
    BY <1>6 DEF Run!Finish
  <2>3. CASE ~laned
    <3>1. ~lane
      BY <1>0, <2>3 DEF RunShape
    <3> QED BY <2>2, <2>3, <3>1 DEF LaneSound, Run!LaneStopsAtTrouble
  <2>4. CASE laned
    <3>1. m = "cpu"
      BY <1>0, <2>4 DEF RunShape
    <3> DEFINE last == Len(solved) + 1
    <3>2. /\ DOMAIN solved = 1 .. Len(solved) /\ Len(solved) \in Nat
          /\ DOMAIN solved' = 1 .. last /\ \A i \in DOMAIN solved : solved'[i] = solved[i]
          /\ solved'[last].mode = m
      BY <1>2, <2>1
    <3>3. \A i \in DOMAIN solved' : i \in DOMAIN solved \/ i = last
      BY <3>2
    <3> HIDE DEF last, m
    <3>4. \A i \in DOMAIN solved' : solved'[i].mode = "gpu" =>
             i \in DOMAIN solved /\ solved'[i] = solved[i]
      BY <3>1, <3>2, <3>3
    <3> QED BY <2>2, <3>4 DEF LaneSound, Run!LaneStopsAtTrouble
  <2> QED BY <2>3, <2>4
<1>7. CASE UNCHANGED runVars
  BY <1>1, <1>7 DEF runVars
<1>8. CASE Run!CheckInputs \/ Run!CheckHosts \/ Run!Excitation \/ Run!SweepEnds
  BY <1>1, <1>8 DEF Run!CheckInputs, Run!CheckHosts, Run!Excitation, Run!SweepEnds, Run!Go,
                    Run!Exit, Run!sweepVars
<1>9. CASE Run!Dial \/ Run!Emit
  BY <1>1, <1>9 DEF Run!Dial, Run!Emit, Run!Go, Run!sweepVars
<1>10. CASE Run!Take \/ Run!LaneTakes
  BY <1>1, <1>10 DEF Run!Take, Run!LaneTakes
<1> QED BY <1>3, <1>4, <1>5, <1>6, <1>7, <1>8, <1>9, <1>10 DEF Run!Next
-----------------------------------------------------------------------------
(* One run: what it prints                                                 *)

\* p numbers the members of D from 1 to n.
Numbers(p, D, n) == {p[i] : i \in D} = 1 .. n /\ \A i, j \in D : p[i] = p[j] => i = j

LEMMA Numbered ==
    ASSUME NEW D, NEW p, NEW n \in Nat, Numbers(p, D, n)
    PROVE  IsFiniteSet(D) /\ Cardinality(D) = n
<1> USE DEF Numbers
<1> DEFINE q == [i \in D |-> p[i]]
<1>1. q \in Bijection(D, 1 .. n)
  <2>1. q \in [D -> 1 .. n] /\ \A t \in 1 .. n : \E i \in D : q[i] = t
    OBVIOUS
  <2>2. \A i, j \in DOMAIN q : q[i] = q[j] => i = j
    OBVIOUS
  <2> HIDE DEF q
  <2> QED BY <2>1, <2>2 DEF Bijection, Injection, Surjection, IsInjective
<1>2. ExistsBijection(D, 1 .. n)
  BY <1>1 DEF ExistsBijection
<1>3. ExistsBijection(1 .. n, D)
  BY <1>2, Fun_ExistsBijSymmetric
<1>4. IsFiniteSet(1 .. n) /\ Cardinality(1 .. n) = n
  <2>1. IsFiniteSet(1 .. n) /\ Cardinality(1 .. n) = IF 1 > n THEN 0 ELSE n - 1 + 1
    BY FS_Interval
  <2>2. 1 > n => n = 0
    OBVIOUS
  <2> QED BY <2>1, <2>2
<1> QED BY <1>3, <1>4, FS_Bijection

\* When every point is kept once, sorting puts point k in place k.
LEMMA SortedAre ==
    ASSUME solved \in Seq(Run!Solved), Found = Run!Points,
           \A i, j \in DOMAIN solved : solved[i].point = solved[j].point => i = j
    PROVE  /\ Len(solved) = N /\ DOMAIN solved = 1 .. N /\ DOMAIN Run!Sorted = 1 .. N
           /\ \A k \in 1 .. N : \E j \in DOMAIN solved :
                 solved[j].point = k /\ Run!Sorted[k] = solved[j]
<1>0. N \in Nat /\ N # 0
  BY CliAndCommands DEF Run!CliAssumption
<1> DEFINE D == DOMAIN solved
           p == [i \in D |-> solved[i].point]
<1>1. {p[i] : i \in D} = 1 .. N /\ \A i, j \in D : p[i] = p[j] => i = j
  <2>1. {solved[i].point : i \in DOMAIN solved} = 1 .. N
    BY DEF Found, Run!Points
  <2> QED BY <2>1
<1>2. \A i \in D : p[i] \in 1 .. N /\ p[i] = solved[i].point /\ i \in Int
  BY <1>1
<1>3. D = 1 .. Len(solved) /\ Len(solved) \in Nat
  OBVIOUS
<1> HIDE DEF p
<1>4. Len(solved) = N
  <2> HIDE DEF D
  <2>1. Cardinality(D) = N
    <3>1. Numbers(p, D, N)
      BY <1>1 DEF Numbers
    <3> QED BY <1>0, <3>1, Numbered
  <2>2. Cardinality(D) = Len(solved)
    <3> DEFINE len == Len(solved)
    <3>1. D = 1 .. len /\ len \in Nat
      BY <1>3
    <3> HIDE DEF len
    <3>2. Cardinality(1 .. len) = IF 1 > len THEN 0 ELSE len - 1 + 1
      BY <3>1, FS_Interval
    <3>3. 1 > len => len = 0
      BY <3>1
    <3>4. Cardinality(D) = len
      BY <3>1, <3>2, <3>3
    <3> QED BY <3>4 DEF len
  <2> QED BY <2>1, <2>2
<1>5. ASSUME NEW j \in D PROVE Run!Place(j) = p[j]
  <2> DEFINE E == {i \in D : Run!Before(i, j)}
  <2>1. \A i \in D : Run!Before(i, j) <=> p[i] < p[j]
    <3> SUFFICES ASSUME NEW i \in D PROVE Run!Before(i, j) <=> p[i] < p[j]
      OBVIOUS
    <3>1. p[i] = solved[i].point /\ p[j] = solved[j].point /\ (p[i] = p[j] => i = j)
          /\ ~(j < j)
      BY <1>1, <1>2
    <3> QED BY <3>1 DEF Run!Before
  <2>2. E = {i \in D : p[i] < p[j]}
    BY <2>1
  <2>3. p[j] \in 1 .. N
    BY <1>2
  <2>4. {p[i] : i \in E} = 1 .. p[j] - 1
    <3>1. ASSUME NEW i \in E PROVE p[i] \in 1 .. p[j] - 1
      BY <1>0, <1>2, <2>2, <2>3, <3>1
    <3>2. ASSUME NEW k \in 1 .. p[j] - 1 PROVE \E i \in E : p[i] = k
      <4>1. k \in 1 .. N /\ k < p[j]
        BY <1>0, <2>3
      <4>2. PICK i \in D : p[i] = k
        BY <1>1, <4>1
      <4> QED BY <2>2, <4>1, <4>2
    <3> HIDE DEF E
    <3> QED BY <3>1, <3>2
  <2>5. \A a, b \in E : p[a] = p[b] => a = b
    BY <1>1
  <2>6. p[j] - 1 \in Nat
    BY <1>0, <2>3
  <2>7. Run!Place(j) = Cardinality(E) + 1
    BY SameCount DEF Run!Place
  <2> HIDE DEF E
  <2>8. Cardinality(E) = p[j] - 1
    <3> DEFINE m == p[j] - 1
    <3>1. Numbers(p, E, m) /\ m \in Nat
      BY <2>4, <2>5, <2>6 DEF Numbers
    <3> HIDE DEF m
    <3>2. Cardinality(E) = m
      BY <3>1, Numbered
    <3> QED BY <3>2 DEF m
  <2> QED BY <1>0, <2>3, <2>7, <2>8
<1>6. ASSUME NEW k \in 1 .. N
      PROVE  \E j \in D : solved[j].point = k /\ Run!Sorted[k] = solved[j]
  <2> DEFINE here == CHOOSE j \in D : Run!Place(j) = k
  <2>1. \E j \in D : Run!Place(j) = k
    BY <1>1, <1>5
  <2>2. here \in D /\ Run!Place(here) = k
    BY <2>1
  <2>3. Run!Sorted[k] = solved[here]
    BY <1>3, <1>4 DEF Run!Sorted
  <2> HIDE DEF here
  <2> QED BY <1>2, <1>5, <2>2, <2>3
<1>7. DOMAIN Run!Sorted = 1 .. N
  BY <1>3, <1>4 DEF Run!Sorted
<1> QED BY <1>3, <1>4, <1>6, <1>7

\* u keeps, of the numbers up to n, those of the set good, as they come.
Filters(u, n, good) ==
    u = [k \in 0 .. n |-> IF k = 0 THEN <<>>
                          ELSE IF k \in good THEN Append(u[k - 1], k) ELSE u[k - 1]]

\* The numbers up to m of good, in order.
InOrder(w, m, good) == /\ w \in Seq(1 .. m)
                       /\ {w[i] : i \in DOMAIN w} = good \cap (1 .. m)
                       /\ \A i, j \in DOMAIN w : i < j => w[i] < w[j]

LEMMA Filtered ==
    ASSUME NEW n \in Nat, NEW good, NEW u, Filters(u, n, good), NEW k \in 0 .. n
    PROVE  InOrder(u[k], k, good)
<1> DEFINE Right(m) == InOrder(u[m], m, good)
<1>0. u[0] = <<>> /\ \A m \in 1 .. n : u[m] = IF m \in good THEN Append(u[m - 1], m) ELSE u[m - 1]
  <2> DEFINE F == [m \in 0 .. n |-> IF m = 0 THEN <<>>
                                   ELSE IF m \in good THEN Append(u[m - 1], m) ELSE u[m - 1]]
  <2>1. u = F
    BY DEF Filters
  <2>2. F[0] = <<>>
    OBVIOUS
  <2>3. ASSUME NEW m \in 1 .. n
        PROVE  F[m] = IF m \in good THEN Append(u[m - 1], m) ELSE u[m - 1]
    <3>1. m \in 0 .. n /\ m # 0
      OBVIOUS
    <3> QED BY <3>1
  <2> HIDE DEF F
  <2> QED BY <2>1, <2>2, <2>3
<1>1. Right(0)
  <2> DEFINE w == u[0]
  <2>1. w \in Seq(1 .. 0) /\ DOMAIN w = {}
    BY <1>0
  <2>2. good \cap (1 .. 0) = {}
    OBVIOUS
  <2> HIDE DEF w
  <2>3. InOrder(w, 0, good)
    BY <2>1, <2>2 DEF InOrder
  <2> QED BY <2>3 DEF w
<1>2. ASSUME NEW m \in 1 .. n, Right(m - 1) PROVE Right(m)
  <2> DEFINE w == u[m - 1]
  <2>1. /\ w \in Seq(1 .. m - 1) /\ {w[i] : i \in DOMAIN w} = good \cap (1 .. m - 1)
        /\ \A i, j \in DOMAIN w : i < j => w[i] < w[j]
    <3>1. InOrder(w, m - 1, good)
      BY <1>2
    <3> HIDE DEF w
    <3> QED BY <3>1 DEF InOrder
  <2>2. /\ 1 .. m = (1 .. m - 1) \cup {m} /\ m \notin 1 .. m - 1
        /\ \A x \in 1 .. m - 1 : x < m
    OBVIOUS
  <2>3. u[m] = IF m \in good THEN Append(w, m) ELSE w
    BY <1>0
  <2> HIDE DEF w
  <2>4. w \in Seq(1 .. m) /\ DOMAIN w = 1 .. Len(w) /\ Len(w) \in Nat
    <3>1. 1 .. m - 1 \subseteq 1 .. m
      BY <2>2
    <3>2. \A i \in DOMAIN w : w[i] \in 1 .. m
      BY <2>1, <3>1
    <3> QED BY <2>1, <3>2
  <2>5. CASE m \notin good
    <3>1. InOrder(w, m, good)
      BY <2>1, <2>2, <2>4, <2>5 DEF InOrder
    <3> QED BY <2>3, <2>5, <3>1
  <2>6. CASE m \in good
    <3> DEFINE v == Append(w, m)
               last == Len(w) + 1
    <3>1. /\ v \in Seq(1 .. m) /\ DOMAIN v = 1 .. last /\ v[last] = m
          /\ \A i \in DOMAIN w : v[i] = w[i]
      BY <2>2, <2>4
    <3>2. \A i \in DOMAIN v : i \in DOMAIN w \/ i = last
      BY <2>4, <3>1
    <3>3. DOMAIN w \subseteq DOMAIN v /\ last \in DOMAIN v
      BY <2>4, <3>1
    <3>4. \A i \in DOMAIN v : i <= last /\ i \in Int
      BY <2>4, <3>1
    <3>5. last \in Int
      BY <2>4
    <3>6. v = u[m]
      BY <2>3, <2>6
    <3> HIDE DEF v, last
    <3>7. {v[i] : i \in DOMAIN v} = good \cap (1 .. m)
      <4>1. {v[i] : i \in DOMAIN v} = {w[i] : i \in DOMAIN w} \cup {m}
        BY <3>1, <3>2, <3>3
      <4> QED BY <2>1, <2>2, <2>6, <4>1
    <3>8. \A i, j \in DOMAIN v : i < j => v[i] < v[j]
      <4> SUFFICES ASSUME NEW i \in DOMAIN v, NEW j \in DOMAIN v, i < j PROVE v[i] < v[j]
        OBVIOUS
      <4>1. i # last
        BY <3>4, <3>5
      <4>2. i \in DOMAIN w /\ v[i] = w[i] /\ w[i] \in 1 .. m - 1
        BY <2>1, <3>1, <3>2, <4>1
      <4>3. CASE j = last
        BY <2>2, <3>1, <4>2, <4>3
      <4>4. CASE j \in DOMAIN w
        BY <2>1, <3>1, <4>2, <4>4
      <4> QED BY <3>2, <4>3, <4>4
    <3>9. InOrder(v, m, good)
      BY <3>1, <3>7, <3>8 DEF InOrder
    <3> QED BY <3>6, <3>9
  <2> QED BY <2>5, <2>6
<1>3. \A m \in 0 .. n : Right(m)
  <2> DEFINE Bad == {m \in 0 .. n : ~Right(m)}
  <2> SUFFICES ASSUME Bad # {} PROVE FALSE
    OBVIOUS
  <2>1. PICK m \in Bad : \A j \in Bad : m <= j
    <3>1. Bad \subseteq Nat
      OBVIOUS
    <3> HIDE DEF Bad
    <3> QED BY <3>1, LeastOf
  <2>2. m \in 0 .. n /\ ~Right(m)
    OBVIOUS
  <2>3. m # 0
    <3> HIDE DEF Right
    <3> QED BY <1>1, <2>2
  <2>4. m \in 1 .. n /\ m - 1 \in 0 .. n /\ m - 1 \notin Bad
    <3> HIDE DEF Right, Bad
    <3>1. m \in 1 .. n /\ m - 1 \in 0 .. n /\ ~(m <= m - 1)
      BY <2>2, <2>3
    <3> QED BY <2>1, <3>1
  <2>5. Right(m - 1)
    <3> HIDE DEF Right
    <3> QED BY <2>4
  <2> HIDE DEF Right, Bad
  <2> QED BY <1>2, <2>2, <2>4, <2>5
<1> QED BY <1>3
LEMMA FilterExists == ASSUME NEW n \in Nat, NEW good PROVE \E u : Filters(u, n, good)
<1> DEFINE T == Seq(Nat)
           step == [p \in Nat \X T |-> IF p[1] + 1 \in good THEN Append(p[2], p[1] + 1) ELSE p[2]]
<1>1. step \in [Nat \X T -> T]
  <2> SUFFICES ASSUME NEW p \in Nat \X T
               PROVE  (IF p[1] + 1 \in good THEN Append(p[2], p[1] + 1) ELSE p[2]) \in T
    OBVIOUS
  <2>1. p[1] + 1 \in Nat /\ p[2] \in T
    OBVIOUS
  <2>2. Append(p[2], p[1] + 1) \in T
    BY <2>1
  <2> QED BY <2>1, <2>2
<1>2. \A m \in Nat, w \in T : step[<<m, w>>] = IF m + 1 \in good THEN Append(w, m + 1) ELSE w
  OBVIOUS
<1>3. <<>> \in T
  OBVIOUS
<1> HIDE DEF step, T
<1>4. PICK f \in [Nat -> T] : Follows(f, <<>>, step)
  BY <1>1, <1>3, Recursion
<1>5. f[0] = <<>> /\ \A m \in Nat : f[m + 1] = IF m + 1 \in good THEN Append(f[m], m + 1) ELSE f[m]
  <2>1. f[0] = <<>> /\ \A m \in Nat : f[m + 1] = step[<<m, f[m]>>]
    BY <1>4 DEF Follows
  <2>2. \A m \in Nat : f[m] \in T
    OBVIOUS
  <2> QED BY <1>2, <2>1, <2>2
<1> DEFINE u == [k \in 0 .. n |-> f[k]]
           F == [k \in 0 .. n |-> IF k = 0 THEN <<>>
                                  ELSE IF k \in good THEN Append(u[k - 1], k) ELSE u[k - 1]]
<1>6. \A k \in 0 .. n : u[k] = F[k]
  <2> SUFFICES ASSUME NEW k \in 0 .. n PROVE u[k] = F[k]
    OBVIOUS
  <2>1. u[k] = f[k]
    OBVIOUS
  <2>2. CASE k = 0
    BY <1>5, <2>1, <2>2
  <2>3. CASE k # 0
    <3>1. k - 1 \in 0 .. n /\ k - 1 \in Nat /\ (k - 1) + 1 = k
      BY <2>3
    <3>2. u[k - 1] = f[k - 1]
      BY <3>1
    <3>3. F[k] = IF k \in good THEN Append(u[k - 1], k) ELSE u[k - 1]
      BY <2>3
    <3>4. f[k] = IF k \in good THEN Append(f[k - 1], k) ELSE f[k - 1]
      BY <1>5, <3>1
    <3> HIDE DEF u, F
    <3> QED BY <2>1, <3>2, <3>3, <3>4
  <2> QED BY <2>2, <2>3
<1>7. u = F
  <2>1. u = [k \in 0 .. n |-> u[k]] /\ F = [k \in 0 .. n |-> F[k]]
    OBVIOUS
  <2> HIDE DEF u, F
  <2>2. [k \in 0 .. n |-> u[k]] = [k \in 0 .. n |-> F[k]]
    BY <1>6
  <2> QED BY <2>1, <2>2
<1>8. Filters(u, n, good)
  <2>1. F = [k \in 0 .. n |-> IF k = 0 THEN <<>>
                              ELSE IF k \in good THEN Append(u[k - 1], k) ELSE u[k - 1]]
    OBVIOUS
  <2> HIDE DEF u, F
  <2> QED BY <1>7, <2>1 DEF Filters
<1> QED BY <1>8

Well(i) == solved[i].answer.ok

\* What is printed when every point is kept once: those that solved, in order.
LEMMA EmittedAre ==
    ASSUME solved \in Seq(Run!Solved), Found = Run!Points,
           \A i, j \in DOMAIN solved : solved[i].point = solved[j].point => i = j
    PROVE  /\ Run!Emitted \in Seq(Run!Points)
           /\ Run!Range(Run!Emitted) = {solved[i].point : i \in {j \in DOMAIN solved : Well(j)}}
           /\ \A i, j \in DOMAIN Run!Emitted : i < j => Run!Emitted[i] < Run!Emitted[j]
<1> DEFINE good == {k \in 1 .. N : Run!Sorted[k].answer.ok}
<1>0. N \in Nat
  BY CliAndCommands DEF Run!CliAssumption
<1>1. /\ Len(solved) = N /\ DOMAIN solved = 1 .. N
      /\ \A k \in 1 .. N : \E j \in DOMAIN solved :
            solved[j].point = k /\ Run!Sorted[k] = solved[j]
  BY SortedAre
<1>2. \A k \in 1 .. N : Run!Sorted[k].point = k
  BY <1>1
<1> DEFINE U(g) == [n \in 0 .. Len(solved) |->
                       IF n = 0 THEN <<>>
                       ELSE IF Run!Sorted[n].answer.ok
                            THEN Append(g[n - 1], Run!Sorted[n].point) ELSE g[n - 1]]
           F(g) == [k \in 0 .. N |-> IF k = 0 THEN <<>>
                                     ELSE IF k \in good THEN Append(g[k - 1], k) ELSE g[k - 1]]
<1>3. ASSUME NEW g PROVE U(g) = F(g)
  <2>1. ASSUME NEW k \in 0 .. N
        PROVE  (IF k = 0 THEN <<>>
                ELSE IF Run!Sorted[k].answer.ok
                     THEN Append(g[k - 1], Run!Sorted[k].point) ELSE g[k - 1])
               = (IF k = 0 THEN <<>>
                  ELSE IF k \in good THEN Append(g[k - 1], k) ELSE g[k - 1])
    <3>1. k # 0 => k \in 1 .. N
      BY <1>0
    <3> QED BY <1>2, <3>1
  <2> QED BY <1>1, <2>1
<1>4. Run!Emitted = (CHOOSE g : g = U(g))[N]
  BY <1>1 DEF Run!Emitted
<1>5. \E g : g = U(g)
  <2>1. PICK g : Filters(g, N, good)
    BY <1>0, FilterExists
  <2>2. g = F(g)
    BY <2>1 DEF Filters
  <2> HIDE DEF U, F
  <2> QED BY <1>3, <2>2
<1>6. PICK g : g = U(g) /\ Run!Emitted = g[N]
  <2> HIDE DEF U
  <2> QED BY <1>4, <1>5
<1>7. Filters(g, N, good)
  <2>1. g = F(g)
    <3> HIDE DEF U, F
    <3> QED BY <1>3, <1>6
  <2> QED BY <2>1 DEF Filters
<1> DEFINE w == Run!Emitted
<1>8. InOrder(w, N, good)
  <2>1. N \in 0 .. N
    BY <1>0
  <2> HIDE DEF good
  <2> QED BY <1>0, <1>6, <1>7, <2>1, Filtered
<1>9. /\ w \in Seq(1 .. N) /\ {w[i] : i \in DOMAIN w} = good \cap (1 .. N)
      /\ \A i, j \in DOMAIN w : i < j => w[i] < w[j]
  <2> HIDE DEF w, good
  <2> QED BY <1>8 DEF InOrder
<1>10. good = {solved[i].point : i \in {j \in DOMAIN solved : Well(j)}}
  <2> DEFINE S == {j \in DOMAIN solved : Well(j)}
  <2>1. ASSUME NEW k \in good PROVE \E i \in S : solved[i].point = k
    BY <1>1 DEF Well
  <2>2. ASSUME NEW i \in S PROVE solved[i].point \in good
    <3>1. solved[i].point \in 1 .. N
      BY DEF Found, Run!Points
    <3>2. PICK j \in DOMAIN solved : solved[j].point = solved[i].point
                                     /\ Run!Sorted[solved[i].point] = solved[j]
      BY <1>1, <3>1
    <3>3. j = i
      BY <3>2
    <3> QED BY <3>1, <3>2, <3>3 DEF Well
  <2> HIDE DEF S, good
  <2> QED BY <2>1, <2>2 DEF S
<1>11. Run!Range(w) = {w[i] : i \in DOMAIN w}
  BY DEF Run!Range
<1>12. good \cap (1 .. N) = good
  OBVIOUS
<1> HIDE DEF w, good
<1>13. Run!Range(w) = {solved[i].point : i \in {j \in DOMAIN solved : Well(j)}}
  BY <1>9, <1>10, <1>11, <1>12
<1>14. w \in Seq(Run!Points)
  BY <1>9 DEF Run!Points
<1> QED BY <1>9, <1>13, <1>14 DEF w
LEMMA ChecksNamed == \A i \in 1 .. 14 : Run!InputChecks[i] # None
<1> DEFINE S == FilesSet \cup {"undriven", "no_frequency", "geometry", "pre_solve", "laplace_ref"}
<1>1. None \notin S
  BY CliAndCommands DEF Run!CliAssumption, FilesSet
<1>2. Run!Files \in Seq(S)
  BY DEF Run!Files, FilesSet
<1>3. Run!OfTheDeck \in Seq(S)
  BY DEF Run!OfTheDeck
<1> HIDE DEF S
<1>4. Run!InputChecks \in Seq(S)
  BY <1>2, <1>3 DEF Run!InputChecks
<1>5. DOMAIN Run!InputChecks = 1 .. 14
  BY ChecksAre
<1> DEFINE s == Run!InputChecks
<1>6. s \in Seq(S) /\ DOMAIN s = 1 .. 14
  BY <1>4, <1>5
<1> HIDE DEF s
<1>7. \A i \in 1 .. 14 : s[i] # None
  <2>1. s \in Seq(S)
    BY <1>6
  <2>2. DOMAIN s = 1 .. Len(s) /\ \A i \in 1 .. Len(s) : s[i] \in S
    BY <2>1
  <2> QED BY <1>1, <1>6, <2>2
<1> QED BY <1>7 DEF s

RunPrints == Run!PointsComplete /\ printed \in Seq(Run!Points)

LEMMA EmitPrints ==
    ASSUME RunWhere, Accounted, Run!Emit
    PROVE  RunPrints'
<1> DEFINE e == Run!Emitted
           W == {solved[i].point : i \in {j \in DOMAIN solved : Well(j)}}
<1>1. /\ at = "emit" /\ solved \in Seq(Run!Solved) /\ Found = Run!Points
      /\ \A i, j \in DOMAIN solved : solved[i].point = solved[j].point => i = j
      /\ None \notin {0, 1}
  <2>1. at = "emit"
    BY DEF Run!Emit
  <2> QED BY <2>1, CliAndCommands DEF RunWhere, RunTyped, Accounted, Run!CliAssumption
<1>2. /\ e \in Seq(Run!Points) /\ Run!Range(e) = W
      /\ \A i, j \in DOMAIN e : i < j => e[i] < e[j]
  BY <1>1, EmittedAre
<1>3. Len(solved) = N
  BY <1>1, SortedAre
<1>4. UNCHANGED <<r, solved>>
  BY DEF Run!Emit, Run!sweepVars
<1>5. Run!AnyFailed <=> \E i \in DOMAIN solved : ~Well(i)
  BY DEF Run!AnyFailed, Well
<1>6. \/ r.output = "nec2d" /\ printed' = <<>> /\ exit' = 1 /\ (refusal' = None => Run!AnyFailed)
      \/ /\ printed' = e /\ (r.output = "nec2d" => ~Run!AnyFailed)
         /\ exit' = IF Run!AnyFailed THEN 1 ELSE 0
  <2>1. CASE r.output = "nec2d" /\ (Run!AnyFailed \/ Run!RenderRefused)
    <3>1. printed' = <<>> /\ exit' = 1
          /\ refusal' = IF ~Run!AnyFailed /\ Run!RenderRefused THEN "pattern" ELSE None
      BY <2>1 DEF Run!Emit
    <3>2. None # "pattern"
      BY CliAndCommands DEF Run!CliAssumption
    <3> QED BY <2>1, <3>1, <3>2
  <2>2. CASE r.output = "nec2d" /\ ~(Run!AnyFailed \/ Run!RenderRefused)
    BY <2>2 DEF Run!Emit
  <2>3. CASE r.output # "nec2d"
    BY <2>3 DEF Run!Emit
  <2> QED BY <2>1, <2>2, <2>3
<1>7. printed' \in Seq(Run!Points)
  <2> HIDE DEF e
  <2>1. printed' = <<>> \/ printed' = e
    BY <1>6
  <2>2. <<>> \in Seq(Run!Points)
    OBVIOUS
  <2> QED BY <1>2, <2>1, <2>2
<1>8. ASSUME refusal' = None PROVE exit' = 0 <=> \A i \in DOMAIN solved : Well(i)
  BY <1>1, <1>5, <1>6, <1>8
<1>9. ASSUME refusal' = None, ~(r.output = "nec2d" /\ exit' # 0) PROVE printed' = e
  <2> HIDE DEF e
  <2> QED BY <1>6, <1>9
<1>10. \A i \in DOMAIN solved : Well(i) <=> solved[i].answer.ok
  BY DEF Well
<1>11. Run!PointsComplete'
  <2> SUFFICES ASSUME refusal' = None PROVE Run!PointsComplete'
    BY DEF Run!PointsComplete
  <2>1. /\ Len(solved') = N /\ {solved'[i].point : i \in DOMAIN solved'} = Run!Points
        /\ exit' = 0 <=> \A i \in DOMAIN solved' : solved'[i].answer.ok
    BY <1>1, <1>3, <1>4, <1>8, <1>10 DEF Found
  <2>2. CASE r.output = "nec2d" /\ exit' # 0
    <3>1. printed' = <<>>
      <4> HIDE DEF e
      <4> QED BY <1>5, <1>6, <1>1, <2>2
    <3> QED BY <1>4, <2>1, <2>2, <3>1 DEF Run!PointsComplete
  <2>3. CASE ~(r.output = "nec2d" /\ exit' # 0)
    <3>1. printed' = e
      BY <1>9, <2>3
    <3>2. W = {solved[i].point : i \in {j \in DOMAIN solved : solved[j].answer.ok}}
      BY <1>10
    <3> HIDE DEF e, W
    <3>3. /\ Run!Range(printed') = {solved'[i].point : i \in {j \in DOMAIN solved' :
                                                               solved'[j].answer.ok}}
          /\ \A i, j \in DOMAIN printed' : i < j => printed'[i] < printed'[j]
      BY <1>2, <1>4, <3>1, <3>2
    <3> QED BY <1>4, <2>1, <2>3, <3>3 DEF Run!PointsComplete
  <2> QED BY <2>2, <2>3
<1> QED BY <1>7, <1>11 DEF RunPrints

LEMMA RunPrintsKeep ==
    ASSUME RunWhere, RunWhere', Accounted, RunPrints, [Run!Next]_runVars
    PROVE  RunPrints'
<1>1. /\ None \notin {0, 1, 2} \cup {"hosts", "unreachable", "excitation"}
      /\ \A i \in 1 .. 14 : Run!InputChecks[i] # None
  BY CliAndCommands, ChecksNamed DEF Run!CliAssumption
<1>2. ASSUME refusal' # None, printed' = printed PROVE RunPrints'
  BY <1>2 DEF RunPrints, Run!PointsComplete
<1>3. ASSUME at' # "done", printed' = printed PROVE RunPrints'
  <2>1. exit' = None
    BY <1>3 DEF RunWhere, RunShape
  <2> QED BY <1>3, <2>1 DEF RunPrints, Run!PointsComplete
<1>4. CASE UNCHANGED runVars
  BY <1>4 DEF runVars, RunPrints, Run!PointsComplete
<1>5. CASE Run!CheckInputs
  <2>1. CASE Run!Failing = {}
    <3>1. at' # "done" /\ printed' = printed
      BY <1>5, <2>1 DEF Run!CheckInputs, Run!Go
    <3> QED BY <1>3, <3>1
  <2>2. CASE Run!Failing # {}
    <3>1. refusal' = Run!InputChecks[Run!Min(Run!Failing)] /\ printed' = printed
      BY <1>5, <2>2 DEF Run!CheckInputs, Run!Exit
    <3>2. Run!Min(Run!Failing) \in 1 .. 14
      BY <2>2, FirstFailing
    <3> QED BY <1>1, <1>2, <3>1, <3>2
  <2> QED BY <2>1, <2>2
<1>6. CASE Run!CheckHosts
  <2>1. printed' = printed /\ (at' = "dial" \/ refusal' = "hosts")
    BY <1>6 DEF Run!CheckHosts, Run!Go, Run!Exit
  <2> QED BY <1>1, <1>2, <1>3, <2>1
<1>7. CASE Run!Dial
  <2>1. printed' = printed /\ (at' = "batch" \/ refusal' = "unreachable")
    BY <1>7 DEF Run!Dial, Run!Go
  <2> QED BY <1>1, <1>2, <1>3, <2>1
<1>8. CASE Run!Excitation
  <2>1. printed' = printed /\ (at' = "sweep" \/ refusal' = "excitation")
    BY <1>8 DEF Run!Excitation, Run!Go, Run!Exit
  <2> QED BY <1>1, <1>2, <1>3, <2>1
<1>9. CASE Run!Batch \/ Run!Pick \/ Run!SweepEnds
  <2>1. printed' = printed /\ at' # "done"
    BY <1>9 DEF Run!Batch, Run!Pick, Run!SweepEnds, Run!Go
  <2> QED BY <1>3, <2>1
<1>10. CASE Run!Take \/ Run!LaneTakes \/ Run!LaneFinishes
  <2>1. printed' = printed /\ at' # "done"
    BY <1>10 DEF Run!Take, Run!LaneTakes, Run!LaneFinishes
  <2> QED BY <1>3, <2>1
<1>11. ASSUME NEW f \in busy, Run!Finish(f) PROVE RunPrints'
  <2>1. printed' = printed /\ at' # "done"
    BY <1>11 DEF Run!Finish
  <2> QED BY <1>3, <2>1
<1>12. CASE Run!Emit
  BY <1>12, EmitPrints
<1> QED BY <1>4, <1>5, <1>6, <1>7, <1>8, <1>9, <1>10, <1>11, <1>12 DEF Run!Next
-----------------------------------------------------------------------------
(* One run: every step, and what the runs of MCCli check                   *)

RunInv == /\ RunWhere /\ RunRefusals /\ Run!AnswersTheDeck /\ Accounted /\ BusyFew
          /\ LaneSound /\ RunPrints

LEMMA RunInvInit ==
    ASSUME NEW runs, runs \subseteq Run!Described, Run!InitWith(runs)
    PROVE  RunInv
<1>1. RunWhere
  BY RunWhereInit
<1>2. /\ at = "inputs" /\ refusal = None /\ exit = None /\ solved = <<>> /\ busy = {}
      /\ lanePoint = 0 /\ next = 1 /\ printed = <<>> /\ lane = FALSE
  BY DEF Run!InitWith
<1>3. DOMAIN solved = {}
  BY <1>2
<1>4. RunRefusals
  BY <1>2 DEF RunRefusals, FilesJudged, RefusedUntouched
<1>5. Run!AnswersTheDeck /\ LaneSound
  BY <1>3 DEF Run!AnswersTheDeck, LaneSound, Run!LaneStopsAtTrouble
<1>6. RunPrints
  <2>1. printed \in Seq(Run!Points)
    BY <1>2
  <2> QED BY <1>2, <2>1 DEF RunPrints, Run!PointsComplete
<1>7. Accounted
  <2>1. Found = {} /\ InLane = {}
    BY <1>2, <1>3 DEF Found, InLane
  <2>2. 1 .. next - 1 = {} /\ 0 \in 0 .. next - 1
    BY <1>2
  <2> QED BY <1>2, <1>3, <2>1, <2>2 DEF Accounted
<1>8. BusyFew
  <2>1. Run!Workers = WorkersOf(r, mode, laned)
    BY DEF Run!Workers, Run!MaxParallel, WorkersOf
  <2>2. Run!Workers \in Nat /\ 1 <= Run!Workers
    BY <1>1, <2>1, WorkersAre DEF RunWhere, RunTyped
  <2>3. IsFiniteSet(busy) /\ Cardinality(busy) = 0
    BY <1>2, FS_EmptySet
  <2> QED BY <2>2, <2>3 DEF BusyFew
<1> QED BY <1>1, <1>4, <1>5, <1>6, <1>7, <1>8 DEF RunInv

LEMMA RunPart ==
    /\ Init => RunInv
    /\ [Next]_vars => [Run!Next]_runVars
<1>1. ASSUME Init PROVE RunInv
  <2>1. CASE Run!Init
    <3>1. Runs \subseteq Run!Described
      BY CliAndCommands DEF Run!CliAssumption
    <3> QED BY <2>1, <3>1, RunInvInit DEF Run!Init
  <2>2. CASE NoRun
    <3>1. Plain \in Run!Described
      BY DEF Plain, Run!Described, Run!Solvers, Run!Drives, Run!Routes, Run!Grounds
    <3>2. {Plain} \subseteq Run!Described
      BY <3>1
    <3> QED BY <2>2, <3>2, RunInvInit DEF NoRun
  <2> QED BY <1>1, <2>1, <2>2 DEF Init
<1>2. ASSUME [Next]_vars PROVE [Run!Next]_runVars
  <2>1. CASE RunStep
    BY <2>1 DEF RunStep
  <2>2. CASE ~RunStep
    BY <1>2, <2>2 DEF Next, CalStep, OfDevice, UserStep, ClockStep, DriverStep, OneCommand,
                      vars, runVars
  <2> QED BY <2>1, <2>2
<1> QED BY <1>1, <1>2

LEMMA RunInvKeeps == RunInv /\ [Next]_vars => RunInv'
<1> SUFFICES ASSUME RunInv, [Next]_vars PROVE RunInv'
  OBVIOUS
<1>1. [Run!Next]_runVars
  BY RunPart
<1>2. RunWhere'
  BY <1>1, RunWhereKeeps DEF RunInv
<1>3. RunRefusals'
  BY <1>1, RunRefusalsKeep DEF RunInv
<1>4. Run!AnswersTheDeck'
  BY <1>1, DeckKept DEF RunInv
<1>5. Accounted'
  BY <1>1, AccountedKeeps DEF RunInv
<1>6. BusyFew'
  BY <1>1, <1>2, BusyFewKeeps DEF RunInv
<1>7. LaneSound'
  BY <1>1, LaneSoundKeeps DEF RunInv
<1>8. RunPrints'
  BY <1>1, <1>2, RunPrintsKeep DEF RunInv
<1> QED BY <1>2, <1>3, <1>4, <1>5, <1>6, <1>7, <1>8 DEF RunInv

\* A refused run has contacted no host, solved no point and printed nothing, and its files
\* come before its deck, whatever is wrong of it; the refusals for want of a host and of a
\* pattern the pick sent to the GPU, which dial and solve first, excepted.
THEOREM RefusalsComeFirst == Spec => []NothingBeforeRefusal
<1>1. Init => RunInv
  BY RunPart
<1>2. RunInv => NothingBeforeRefusal
  BY RunRefusalsHold DEF RunInv
<1> QED BY <1>1, <1>2, RunInvKeeps, PTL DEF Spec

\* No point is answered of another antenna than the deck and the flags describe, for every
\* deck, solver, mode, worker and way to fall back.
THEOREM DeckIsAnswered == Spec => []AnswersTheDeck
<1>1. Init => RunInv
  BY RunPart
<1>2. RunInv => AnswersTheDeck
  BY DEF RunInv, AnswersTheDeck
<1> QED BY <1>1, <1>2, RunInvKeeps, PTL DEF Spec

\* A run solves each of its points once and prints those that solved in order, for any number
\* of points and threads, within its memory and trying a device in trouble once.
THEOREM PointsAreComplete == Spec => []PointsComplete
<1>1. Init => RunInv
  BY RunPart
<1>2. RunInv => PointsComplete
  BY BudgetHolds DEF RunInv, PointsComplete, LaneSound, RunPrints
<1> QED BY <1>1, <1>2, RunInvKeeps, PTL DEF Spec
-----------------------------------------------------------------------------
(* The resonance search                                                    *)

LEMMA SignsAre ==
    ASSUME NEW a \in Int, NEW b \in Int
    PROVE  /\ a * b \in Int
           /\ a * b < 0 <=> (a < 0 /\ b > 0) \/ (a > 0 /\ b < 0)
           /\ a * b > 0 <=> (a < 0 /\ b < 0) \/ (a > 0 /\ b > 0)
<1>1. a * b \in Int
  OBVIOUS
<1>2. a > 0 /\ b > 0 => a * b > 0
  OBVIOUS
<1>3. a < 0 /\ b < 0 => a * b > 0
  OBVIOUS
<1>4. a > 0 /\ b < 0 => a * b < 0
  OBVIOUS
<1>5. a < 0 /\ b > 0 => a * b < 0
  OBVIOUS
<1>6. a = 0 \/ b = 0 => a * b = 0
  OBVIOUS
<1> DEFINE c == a * b
<1>7. c \in Int /\ (a > 0 /\ b > 0 => c > 0) /\ (a < 0 /\ b < 0 => c > 0)
      /\ (a > 0 /\ b < 0 => c < 0) /\ (a < 0 /\ b > 0 => c < 0) /\ (a = 0 \/ b = 0 => c = 0)
  BY <1>1, <1>2, <1>3, <1>4, <1>5, <1>6
<1> HIDE DEF c
<1>8. c < 0 <=> (a < 0 /\ b > 0) \/ (a > 0 /\ b < 0)
  BY <1>7
<1>9. c > 0 <=> (a < 0 /\ b < 0) \/ (a > 0 /\ b > 0)
  BY <1>7
<1> QED BY <1>1, <1>8, <1>9 DEF c

\* What the probes have seen: reactances, none of them within the tolerance while the search
\* goes on, and one more at most for each iteration.
Probed == /\ DOMAIN seen \subseteq Int /\ IsFiniteSet(DOMAIN seen)
          /\ \A v \in DOMAIN seen : seen[v] \in Int
          /\ searchAt # "done" => /\ \A v \in DOMAIN seen : Search!Abs(seen[v]) > search.tol
                                  /\ found = None /\ searchError = None

\* Where the bracket is.
Bracketed ==
    /\ searchAt \in {"lo", "hi"} => low = search.lo /\ high = search.hi
    /\ searchAt = "lo" => DOMAIN seen = {}
    /\ searchAt = "hi" => DOMAIN seen = {low} /\ low < high
    /\ searchAt \in {"lo", "hi"} => mid = search.lo
    /\ searchAt = "bisect" => /\ search.lo <= low /\ low + 2 <= high /\ high <= search.hi
                              /\ {low, high, mid} \subseteq DOMAIN seen
                              /\ seen[low] * seen[high] < 0
                              /\ Search!Iterations <= search.maxIter + 2

SearchInv == /\ search \in Search!Described /\ search.hi - search.lo # 1
             /\ searchAt \in {"lo", "hi", "bisect", "done"}
             /\ low \in Int /\ high \in Int /\ mid \in Int
             /\ searchError \in {None, "range", "solver", "bracket"}
             /\ found = None \/ found.converged \in BOOLEAN
             /\ Probed /\ Bracketed /\ Search!ResultIsSeen

LEMMA SameSize == ASSUME NEW S PROVE Search!Cardinality(S) = Cardinality(S)
BY DEF Search!Cardinality, Cardinality

LEMMA SearchInit ==
    ASSUME NEW searches, searches \subseteq {s \in Search!Described : s.hi - s.lo # 1},
           Search!InitWith(searches)
    PROVE  SearchInv
<1>1. /\ search \in Search!Described /\ search.hi - search.lo # 1 /\ searchAt = "lo"
      /\ DOMAIN seen = {} /\ low = search.lo /\ high = search.hi /\ mid = search.lo
      /\ found = None /\ searchError = None
  BY DEF Search!InitWith
<1>2. low \in Int /\ high \in Int /\ mid \in Int
  BY <1>1 DEF Search!Described
<1>3. IsFiniteSet({})
  BY FS_EmptySet
<1> QED BY <1>1, <1>2, <1>3 DEF SearchInv, Probed, Bracketed, Search!ResultIsSeen

\* One more probe.
LEMMA ProbeAdds ==
    ASSUME Probed, NEW v \in Int, NEW x \in Int, Search!Probe(v, x)
    PROVE  /\ DOMAIN seen' = DOMAIN seen \cup {v} /\ DOMAIN seen' \subseteq Int
           /\ IsFiniteSet(DOMAIN seen') /\ \A w \in DOMAIN seen' : seen'[w] \in Int
           /\ seen'[v] = x /\ \A w \in DOMAIN seen \ {v} : seen'[w] = seen[w]
           /\ Search!Iterations \in Nat /\ Search!Iterations' \in Nat
           /\ Search!Iterations' <= Search!Iterations + 1
<1>1. seen' = [w \in DOMAIN seen \cup {v} |-> IF w = v THEN x ELSE seen[w]]
  BY DEF Search!Probe
<1>2. DOMAIN seen' = DOMAIN seen \cup {v} /\ \A w \in DOMAIN seen' : seen'[w] \in Int
  BY <1>1 DEF Probed
<1>3. seen'[v] = x /\ \A w \in DOMAIN seen \ {v} : seen'[w] = seen[w]
  BY <1>1
<1> DEFINE D == DOMAIN seen
<1>4. IsFiniteSet(D) /\ D \subseteq Int
  BY DEF Probed
<1>5. Search!Iterations = Cardinality(D) /\ Search!Iterations' = Cardinality(D \cup {v})
  BY <1>2, SameSize DEF Search!Iterations
<1> HIDE DEF D
<1>6. /\ IsFiniteSet(D \cup {v}) /\ Cardinality(D) \in Nat
      /\ \/ Cardinality(D \cup {v}) = Cardinality(D)
         \/ Cardinality(D \cup {v}) = Cardinality(D) + 1
  BY <1>4, FS_AddElement, FS_CardinalityType
<1>7. DOMAIN seen' = D \cup {v}
  BY <1>2 DEF D
<1> QED BY <1>2, <1>3, <1>4, <1>5, <1>6, <1>7 DEF D
LEMMA SearchKeeps ==
    ASSUME SearchInv, [Search!Next]_searchVars
    PROVE  SearchInv'
<1>0. /\ Resolution \in Nat /\ 2 <= Resolution /\ Reactances \subseteq Int
      /\ search.lo \in Int /\ search.hi \in Int /\ search.tol \in Nat /\ search.maxIter \in Nat
      /\ low \in Int /\ high \in Int /\ mid \in Int /\ Probed /\ Bracketed
      /\ search \in Search!Described /\ search.hi - search.lo # 1
      /\ None \notin {"range", "solver", "bracket"}
      /\ Search!Iterations \in Nat
  <2>1. Resolution \in Nat /\ 2 <= Resolution /\ Reactances \subseteq Int
        /\ None \notin {"range", "solver", "bracket"}
    BY CliAndCommands DEF Search!SearchAssumption
  <2>2. Search!Iterations \in Nat
    BY FS_CardinalityType, SameSize DEF Search!Iterations, SearchInv, Probed
  <2> QED BY <2>1, <2>2 DEF SearchInv, Search!Described
<1>a. \A x \in Int : Search!Abs(x) \in Nat /\ (x = 0 => Search!Abs(x) = 0)
  BY DEF Search!Abs
<1>b. \A n \in Int, k \in Nat : -k <= n /\ n <= k => Search!Abs(n) <= k
  BY DEF Search!Abs
<1>1. CASE UNCHANGED searchVars
  BY <1>1 DEF searchVars, SearchInv, Probed, Bracketed, Search!ResultIsSeen, Search!Iterations,
              Search!Straddle
\* A failure, or an answer, of which the invariant says only ResultIsSeen.
<1>2. ASSUME searchAt' = "done", UNCHANGED <<search, low, high>>, mid' \in Int,
             searchError' \in {None, "range", "solver", "bracket"},
             found' = None \/ found'.converged \in BOOLEAN,
             DOMAIN seen' \subseteq Int, IsFiniteSet(DOMAIN seen'),
             \A w \in DOMAIN seen' : seen'[w] \in Int, Search!ResultIsSeen'
      PROVE  SearchInv'
  BY <1>0, <1>2 DEF SearchInv, Probed, Bracketed
<1>3. ASSUME UNCHANGED <<search, seen, low, high, found>>, Search!Iterations <= search.maxIter + 2,
             searchAt # "done",
             searchAt' = "done", mid' \in Int, searchError' \in {"range", "solver"}
      PROVE  SearchInv'
  <2>1. Search!ResultIsSeen'
    BY <1>0, <1>3 DEF Search!ResultIsSeen, Search!Iterations
  <2> QED BY <1>0, <1>2, <1>3, <2>1 DEF Probed
\* A probe that answers within the tolerance ends the search.
<1>4. ASSUME NEW v \in Int, NEW x \in Int, Search!Probe(v, x), Search!Abs(x) <= search.tol,
             Search!Iterations + 1 <= search.maxIter + 2,
             searchAt' = "done", found' = [value |-> v, converged |-> TRUE], searchError = None,
             UNCHANGED <<search, low, high, searchError>>, mid' \in Int
      PROVE  SearchInv'
  <2>1. /\ DOMAIN seen' = DOMAIN seen \cup {v} /\ DOMAIN seen' \subseteq Int
        /\ IsFiniteSet(DOMAIN seen') /\ \A w \in DOMAIN seen' : seen'[w] \in Int
        /\ seen'[v] = x /\ Search!Iterations' \in Nat
        /\ Search!Iterations' <= Search!Iterations + 1
    BY <1>0, <1>4, ProbeAdds
  <2>2. found'.value = v /\ found'.converged = TRUE
    BY <1>4
  <2>3. Search!Iterations' <= search'.maxIter + 2
    BY <1>0, <1>4, <2>1
  <2>4. Search!ResultIsSeen'
    BY <1>0, <1>4, <2>1, <2>2, <2>3 DEF Search!ResultIsSeen
  <2> QED BY <1>0, <1>2, <1>4, <2>1, <2>2, <2>4
<1>5. CASE Search!ProbeLo
  <2>0. searchAt = "lo" /\ low = search.lo /\ high = search.hi /\ DOMAIN seen = {}
        /\ mid = search.lo /\ found = None /\ searchError = None /\ UNCHANGED <<search, mid>>
    BY <1>0, <1>5 DEF Search!ProbeLo, Bracketed, Probed
  <2>1. Search!Iterations = 0
    BY <2>0, FS_EmptySet, SameSize DEF Search!Iterations
  <2>2. CASE Search!Fails("range") \/ Search!Fails("solver")
    BY <1>0, <1>3, <2>0, <2>1, <2>2 DEF Search!Fails
  <2>3. CASE search.lo < search.hi /\ ~(Search!Fails("range") \/ Search!Fails("solver"))
    <3>1. PICK x \in Reactances :
             /\ Search!Probe(low, x)
             /\ IF Search!Abs(x) <= search.tol THEN Search!Result(low, TRUE)
                ELSE searchAt' = "hi" /\ UNCHANGED <<low, high, found, searchError>>
      BY <1>5, <2>3 DEF Search!ProbeLo
    <3>2. x \in Int
      BY <1>0
    <3>3. CASE Search!Abs(x) <= search.tol
      <4>1. searchAt' = "done" /\ found' = [value |-> low, converged |-> TRUE]
            /\ UNCHANGED <<low, high, searchError>> /\ Search!Probe(low, x)
        BY <3>1, <3>3 DEF Search!Result
      <4>2. Search!Iterations + 1 <= search.maxIter + 2
        BY <1>0, <2>1
      <4> QED BY <1>0, <1>4, <2>0, <3>2, <3>3, <4>1, <4>2
    <3>4. CASE ~(Search!Abs(x) <= search.tol)
      <4>1. /\ DOMAIN seen' = {low} /\ IsFiniteSet(DOMAIN seen') /\ seen'[low] = x
            /\ \A w \in DOMAIN seen' : seen'[w] \in Int
        BY <1>0, <2>0, <3>1, <3>2, ProbeAdds
      <4>2. searchAt' = "hi" /\ UNCHANGED <<low, high, found, searchError>>
        BY <3>1, <3>4
      <4>3. Search!Abs(x) > search.tol
        BY <1>0, <1>a, <3>2, <3>4
      <4>4. Probed'
        BY <1>0, <2>0, <4>1, <4>2, <4>3 DEF Probed
      <4>5. Bracketed'
        BY <1>0, <2>0, <2>3, <4>1, <4>2 DEF Bracketed
      <4> QED BY <1>0, <2>0, <4>2, <4>4, <4>5 DEF SearchInv, Search!ResultIsSeen
    <3> QED BY <3>3, <3>4
  <2>4. \/ search.lo < search.hi \/ Search!Fails("range")
    BY <1>5 DEF Search!ProbeLo
  <2> QED BY <2>2, <2>3, <2>4
<1>6. CASE Search!ProbeHi
  <2>0. searchAt = "hi" /\ low = search.lo /\ high = search.hi /\ DOMAIN seen = {low}
        /\ low < high /\ mid = search.lo /\ found = None /\ searchError = None
        /\ UNCHANGED <<search, mid>>
    BY <1>0, <1>6 DEF Search!ProbeHi, Bracketed, Probed
  <2>1. Search!Iterations = 1
    BY <2>0, FS_Singleton, SameSize DEF Search!Iterations
  <2>2. CASE Search!Fails("solver")
    BY <1>0, <1>3, <2>0, <2>1, <2>2 DEF Search!Fails
  <2>3. CASE ~Search!Fails("solver")
    <3>1. PICK x \in Reactances :
             /\ Search!Probe(high, x)
             /\ IF Search!Abs(x) <= search.tol THEN Search!Result(high, TRUE)
                ELSE /\ IF seen[low] * x > 0 THEN searchAt' = "done" /\ searchError' = "bracket"
                        ELSE searchAt' = "bisect" /\ UNCHANGED searchError
                     /\ UNCHANGED <<low, high, found>>
      BY <1>6, <2>3 DEF Search!ProbeHi
    <3>2. x \in Int /\ seen[low] \in Int /\ Search!Abs(seen[low]) > search.tol
      BY <1>0, <2>0 DEF Probed
    <3>3. CASE Search!Abs(x) <= search.tol
      BY <1>0, <1>4, <2>0, <2>1, <3>1, <3>2, <3>3 DEF Search!Result
    <3>4. CASE ~(Search!Abs(x) <= search.tol)
      <4>1. /\ DOMAIN seen' = {low, high} /\ DOMAIN seen' \subseteq Int
            /\ IsFiniteSet(DOMAIN seen')
            /\ seen'[high] = x /\ seen'[low] = seen[low]
            /\ \A w \in DOMAIN seen' : seen'[w] \in Int
            /\ Search!Iterations' \in Nat /\ Search!Iterations' <= 2
        <5>1. /\ DOMAIN seen' = DOMAIN seen \cup {high} /\ DOMAIN seen' \subseteq Int
              /\ IsFiniteSet(DOMAIN seen') /\ \A w \in DOMAIN seen' : seen'[w] \in Int
              /\ seen'[high] = x /\ \A w \in DOMAIN seen \ {high} : seen'[w] = seen[w]
              /\ Search!Iterations' \in Nat /\ Search!Iterations' <= Search!Iterations + 1
          BY <1>0, <3>1, <3>2, ProbeAdds
        <5>2. low \in DOMAIN seen \ {high} /\ DOMAIN seen \cup {high} = {low, high}
          BY <1>0, <2>0
        <5>3. Search!Iterations' <= 2
          BY <2>1, <5>1
        <5> QED BY <5>1, <5>2, <5>3
      <4>2. UNCHANGED <<low, high, found>>
        BY <3>1, <3>4
      <4>3. Search!Abs(x) > search.tol /\ x # 0 /\ seen[low] # 0
        BY <1>0, <1>a, <3>2, <3>4
      <4>5. CASE seen[low] * x > 0
        <5>1. searchAt' = "done" /\ searchError' = "bracket"
          BY <3>1, <3>4, <4>5
        <5>2. Search!ResultIsSeen'
          BY <1>0, <2>0, <4>1, <4>2, <4>5, <5>1 DEF Search!ResultIsSeen
        <5> QED BY <1>0, <1>2, <2>0, <4>1, <4>2, <5>1, <5>2
      <4>6. CASE ~(seen[low] * x > 0)
        <5>1. searchAt' = "bisect" /\ UNCHANGED searchError
          BY <3>1, <3>4, <4>6
        <5>2. seen[low] * x < 0
          BY <3>2, <4>3, <4>6, SignsAre
        <5>3. Probed'
          BY <1>0, <2>0, <3>2, <4>1, <4>2, <4>3, <5>1 DEF Probed
        <5>4. search.lo + 2 <= high
          BY <1>0, <2>0
        <5>5. Bracketed'
          BY <1>0, <2>0, <4>1, <4>2, <5>1, <5>2, <5>4 DEF Bracketed
        <5> QED BY <1>0, <2>0, <4>2, <5>1, <5>3, <5>5 DEF SearchInv, Search!ResultIsSeen
      <4> QED BY <4>5, <4>6
    <3> QED BY <3>3, <3>4
  <2> QED BY <2>2, <2>3
<1>7. CASE Search!Bisect
  <2>0. /\ searchAt = "bisect" /\ search' = search /\ found = None /\ searchError = None
        /\ search.lo <= low /\ low + 2 <= high /\ high <= search.hi
        /\ {low, high, mid} \subseteq DOMAIN seen /\ seen[low] * seen[high] < 0
        /\ Search!Iterations < search.maxIter + 2 /\ mid' = (low + high) \div 2
    BY <1>0, <1>7 DEF Search!Bisect, Bracketed, Probed
  <2>1. /\ mid' \in Int /\ low < mid' /\ mid' < high
        /\ high - low < 2 * Resolution => mid' - low <= Resolution /\ high - mid' <= Resolution
        /\ ~(high - low < 2 * Resolution) => low + 2 <= mid' /\ mid' + 2 <= high
    <3> DEFINE m == (low + high) \div 2
    <3>1. m \in Int /\ low + high - 1 <= 2 * m /\ 2 * m <= low + high
      BY <1>0
    <3> HIDE DEF m
    <3>2. mid' = m
      BY <2>0 DEF m
    <3> QED BY <1>0, <2>0, <3>1, <3>2
  <2>2. CASE Search!Fails("solver")
    BY <1>0, <1>3, <2>0, <2>1, <2>2 DEF Search!Fails
  <2>3. CASE ~Search!Fails("solver")
    <3>1. PICK x \in Reactances :
             /\ Search!Probe(mid', x)
             /\ IF Search!Abs(x) <= search.tol \/ high - low < 2 * Resolution
                THEN Search!Result(mid', TRUE)
                ELSE Search!Halve(mid', x) /\ UNCHANGED <<searchAt, found, searchError>>
      BY <1>7, <2>3 DEF Search!Bisect
    <3>2. /\ x \in Int /\ seen[low] \in Int /\ seen[high] \in Int
          /\ low \in DOMAIN seen /\ high \in DOMAIN seen
      BY <1>0, <2>0 DEF Probed
    <3>3. /\ DOMAIN seen' = DOMAIN seen \cup {mid'} /\ DOMAIN seen' \subseteq Int
          /\ IsFiniteSet(DOMAIN seen') /\ \A w \in DOMAIN seen' : seen'[w] \in Int
          /\ seen'[mid'] = x /\ \A w \in DOMAIN seen \ {mid'} : seen'[w] = seen[w]
          /\ Search!Iterations' \in Nat /\ Search!Iterations' <= search.maxIter + 2
      <4> DEFINE m == mid'
      <4>1. m \in Int /\ Search!Probe(m, x)
        BY <2>1, <3>1
      <4> HIDE DEF m
      <4>2. /\ DOMAIN seen' = DOMAIN seen \cup {m} /\ DOMAIN seen' \subseteq Int
            /\ IsFiniteSet(DOMAIN seen') /\ \A w \in DOMAIN seen' : seen'[w] \in Int
            /\ seen'[m] = x /\ \A w \in DOMAIN seen \ {m} : seen'[w] = seen[w]
            /\ Search!Iterations' \in Nat /\ Search!Iterations' <= Search!Iterations + 1
        BY <1>0, <3>2, <4>1, ProbeAdds
      <4>3. Search!Iterations' <= search.maxIter + 2
        BY <1>0, <2>0, <4>2
      <4> QED BY <4>2, <4>3 DEF m
    <3>4. seen'[low] = seen[low] /\ seen'[high] = seen[high]
      <4>1. low # mid' /\ high # mid'
        BY <1>0, <2>1
      <4> QED BY <3>2, <3>3, <4>1
    <3>5. CASE Search!Abs(x) <= search.tol
      BY <1>0, <1>4, <2>0, <2>1, <3>1, <3>2, <3>5 DEF Search!Result
    <3>6. CASE ~(Search!Abs(x) <= search.tol) /\ high - low < 2 * Resolution
      <4>1. searchAt' = "done" /\ found' = [value |-> mid', converged |-> TRUE]
            /\ UNCHANGED <<low, high, searchError>>
        BY <3>1, <3>6 DEF Search!Result
      <4> DEFINE v == mid'
      <4>2. seen[low] * x <= 0 \/ seen[high] * x <= 0
        BY <2>0, <3>2, SignsAre
      <4>3. \E w \in DOMAIN seen' : Search!Abs(w - v) <= Resolution /\ seen'[v] * seen'[w] <= 0
        <5>1. Search!Abs(low - v) <= Resolution /\ Search!Abs(high - v) <= Resolution
          <6>1. low - v \in Int /\ high - v \in Int /\ -Resolution <= low - v
                /\ low - v <= Resolution /\ -Resolution <= high - v /\ high - v <= Resolution
            <7>1. high - low < 2 * Resolution
              BY <3>6
            <7>2. /\ v \in Int /\ low < v /\ v < high
                  /\ v - low <= Resolution /\ high - v <= Resolution
              BY <2>1, <7>1
            <7> HIDE DEF v
            <7> QED BY <1>0, <7>2
          <6> HIDE DEF v
          <6> QED BY <1>0, <1>b, <6>1
        <5>2. x * seen[low] <= 0 \/ x * seen[high] <= 0
          BY <2>0, <3>2, SignsAre
        <5> QED BY <3>2, <3>3, <3>4, <5>1, <5>2
      <4>4. v \in DOMAIN seen' /\ found'.value = v /\ found'.converged = TRUE
        BY <3>3, <4>1
      <4>5. Search!ResultIsSeen'
        <5>1. Search!Iterations' <= search'.maxIter + 2
          BY <2>0, <3>3
        <5>2. searchError' = None
          BY <2>0, <4>1
        <5> HIDE DEF v
        <5> QED BY <1>0, <4>3, <4>4, <5>1, <5>2 DEF Search!ResultIsSeen, Search!Straddle
      <4> QED BY <1>0, <1>2, <2>0, <2>1, <3>3, <4>1, <4>4, <4>5
    <3>7. CASE ~(Search!Abs(x) <= search.tol) /\ ~(high - low < 2 * Resolution)
      <4>1. Search!Halve(mid', x) /\ UNCHANGED <<searchAt, found, searchError>>
        BY <3>1, <3>7
      <4>2. Search!Abs(x) > search.tol /\ x # 0
        BY <1>0, <1>a, <3>2, <3>7
      <4>3. Probed'
        <5>1. \A w \in DOMAIN seen' : w = mid' \/ w \in DOMAIN seen \ {mid'}
          BY <3>3
        <5>2. \A w \in DOMAIN seen' : Search!Abs(seen'[w]) > search.tol
          BY <1>0, <2>0, <3>3, <4>2, <5>1 DEF Probed
        <5> QED BY <2>0, <3>3, <4>1, <5>2 DEF Probed
      <4>4. CASE seen[low] * x < 0
        <5>1. high' = mid' /\ low' = low
          BY <4>1, <4>4 DEF Search!Halve
        <5>2. high' \in Int /\ low' \in Int /\ search.lo <= low' /\ low' + 2 <= high'
              /\ high' <= search.hi
          BY <1>0, <2>0, <2>1, <3>7, <5>1
        <5>3. seen'[low'] * seen'[high'] < 0 /\ {low', high', mid'} \subseteq DOMAIN seen'
          BY <3>2, <3>3, <3>4, <4>4, <5>1
        <5>4. Bracketed'
          BY <2>0, <3>3, <4>1, <5>2, <5>3 DEF Bracketed
        <5> QED BY <1>0, <2>0, <2>1, <4>1, <4>3, <5>2, <5>4 DEF SearchInv, Search!ResultIsSeen
      <4>5. CASE ~(seen[low] * x < 0)
        <5>1. low' = mid' /\ high' = high
          BY <4>1, <4>5 DEF Search!Halve
        <5>2. high' \in Int /\ low' \in Int /\ search.lo <= low' /\ low' + 2 <= high'
              /\ high' <= search.hi
          BY <1>0, <2>0, <2>1, <3>7, <5>1
        <5>3. x * seen[high] < 0
          BY <2>0, <3>2, <4>2, <4>5, SignsAre
        <5>4. seen'[low'] * seen'[high'] < 0 /\ {low', high', mid'} \subseteq DOMAIN seen'
          BY <3>2, <3>3, <3>4, <5>1, <5>3
        <5>5. Bracketed'
          BY <2>0, <3>3, <4>1, <5>2, <5>4 DEF Bracketed
        <5> QED BY <1>0, <2>0, <2>1, <4>1, <4>3, <5>2, <5>5 DEF SearchInv, Search!ResultIsSeen
      <4> QED BY <4>4, <4>5
    <3> QED BY <3>5, <3>6, <3>7
  <2> QED BY <2>2, <2>3
<1>8. CASE Search!GiveUp
  <2>1. /\ searchAt = "bisect" /\ Search!Iterations = search.maxIter + 2 /\ searchAt' = "done"
        /\ found' = [value |-> mid, converged |-> Search!Abs(seen[mid]) <= search.tol]
        /\ UNCHANGED <<low, high, searchError, search, seen, mid>> /\ searchError = None
    BY <1>0, <1>8 DEF Search!GiveUp, Search!Result, Probed
  <2>2. mid \in DOMAIN seen /\ \A v \in DOMAIN seen : Search!Abs(seen[v]) > search.tol
    BY <1>0, <2>1 DEF Bracketed, Probed
  <2>3. found'.value = mid /\ found'.converged = (Search!Abs(seen[mid]) <= search.tol)
    BY <2>1
  <2>4. Search!Abs(seen[mid]) \in Nat
    BY <1>0, <1>a, <2>2 DEF Probed
  <2>5. found'.converged = FALSE
    <3> DEFINE a == Search!Abs(seen[mid])
               near == a <= search.tol
    <3>1. near \in BOOLEAN /\ found'.converged = near
      BY <2>3
    <3>2. a \in Nat /\ a > search.tol
      BY <2>2, <2>4
    <3> HIDE DEF a
    <3>3. ~near
      BY <1>0, <3>2
    <3> HIDE DEF near
    <3>4. near = FALSE
      BY <3>1, <3>3
    <3> QED BY <3>1, <3>4
  <2>6. Search!ResultIsSeen'
    BY <1>0, <2>1, <2>2, <2>3, <2>5 DEF Search!ResultIsSeen, Search!Iterations
  <2> QED BY <1>0, <1>2, <2>1, <2>5, <2>6 DEF Probed
<1> QED BY <1>1, <1>5, <1>6, <1>7, <1>8 DEF Search!Next
-----------------------------------------------------------------------------
(* The mesh study                                                          *)

\* The first of t are those of s.
Leads(s, t) == Len(s) <= Len(t) /\ \A i \in 1 .. Len(s) : s[i] = t[i]

LEMMA PrefixIs ==
    ASSUME NEW s \in Seq(Nat), NEW t \in Seq(Nat), Leads(s, t)
    PROVE  Study!IsPrefix(s, t)
<1> DEFINE n == Len(s)
<1>1. n \in Nat /\ n <= Len(t) /\ Len(t) \in Nat /\ \A i \in 1 .. n : s[i] = t[i]
  BY DEF Leads
<1>2. SubSeq(s, 1, n) = [i \in 1 .. n |-> s[i]] /\ SubSeq(t, 1, n) = [i \in 1 .. n |-> t[i]]
  BY <1>1
<1>3. SubSeq(s, 1, n) = SubSeq(t, 1, n)
  <2> HIDE DEF n
  <2>1. [i \in 1 .. n |-> s[i]] = [i \in 1 .. n |-> t[i]]
    BY <1>1
  <2> QED BY <1>2, <2>1
<1> QED BY <1>1, <1>3 DEF Study!IsPrefix

LEMMA LeadsOneMore ==
    ASSUME NEW s \in Seq(Nat), NEW t \in Seq(Nat), Leads(s, t), Len(s) < Len(t)
    PROVE  Append(s, t[Len(s) + 1]) \in Seq(Nat) /\ Leads(Append(s, t[Len(s) + 1]), t)
<1> DEFINE n == Len(s)
           w == Append(s, t[n + 1])
<1>1. n \in Nat /\ Len(t) \in Nat /\ n + 1 <= Len(t) /\ \A i \in 1 .. n : s[i] = t[i]
  BY DEF Leads
<1>2. t[n + 1] \in Nat
  BY <1>1
<1>3. w \in Seq(Nat) /\ Len(w) = n + 1 /\ w[n + 1] = t[n + 1] /\ \A i \in 1 .. n : w[i] = s[i]
  BY <1>2
<1> HIDE DEF n, w
<1>4. \A i \in 1 .. n + 1 : w[i] = t[i]
  <2> SUFFICES ASSUME NEW i \in 1 .. n + 1 PROVE w[i] = t[i]
    OBVIOUS
  <2>1. CASE i = n + 1
    BY <1>3, <2>1
  <2>2. CASE i # n + 1
    <3>1. i \in 1 .. n
      BY <1>1, <2>2
    <3> QED BY <1>1, <1>3, <3>1
  <2> QED BY <2>1, <2>2
<1>5. Leads(w, t)
  BY <1>1, <1>3, <1>4 DEF Leads
<1> QED BY <1>3, <1>5 DEF n, w

\* The factors of a study grow.
LEMMA FactorsGrow ==
    ASSUME NEW f \in Seq(Nat), Study!FactorsOk(f), NEW i \in DOMAIN f, NEW j \in DOMAIN f, i <= j
    PROVE  f[i] <= f[j]
<1> DEFINE ratio == f[2] \div f[1]
           len == Len(f)
<1>0. len \in Nat /\ DOMAIN f = 1 .. len /\ \A k \in 1 .. len : f[k] \in Nat
  <2>1. len \in Nat /\ DOMAIN f = 1 .. len
    OBVIOUS
  <2>2. \A k \in 1 .. len : f[k] \in Nat
    BY ElementOfSeq
  <2> QED BY <2>1, <2>2
<1>a. /\ \A k \in 1 .. len - 1 : f[k + 1] = f[k] * ratio
      /\ len >= 2 /\ ratio >= 3
  BY DEF Study!FactorsOk
<1>b. \A k \in DOMAIN f : f[k] % 2 = 1
  BY DEF Study!FactorsOk
<1> HIDE DEF len
<1>2. ratio \in Nat
  <2> DEFINE a == f[1]
             b == f[2]
  <2>0. 1 \in 1 .. len /\ 2 \in 1 .. len
    BY <1>0, <1>a
  <2>1. a \in Nat /\ b \in Nat /\ a % 2 = 1
    BY <1>0, <1>b, <2>0
  <2> HIDE DEF a, b
  <2>2. a # 0
    <3>1. 0 % 2 = 0
      OBVIOUS
    <3> QED BY <2>1, <3>1
  <2>3. b \div a \in Nat
    BY <2>1, <2>2, Quotient
  <2> QED BY <2>3 DEF a, b
<1>1. /\ \A k \in DOMAIN f : f[k] \in Nat
      /\ \A k \in 1 .. len - 1 : f[k + 1] = f[k] * ratio
      /\ len >= 2 /\ ratio >= 3 /\ DOMAIN f = 1 .. len /\ len \in Nat
  BY <1>0, <1>a
<1> HIDE DEF ratio
<1>3. ASSUME NEW k \in 1 .. len - 1 PROVE f[k] <= f[k + 1]
  <2> DEFINE a == f[k]
  <2>0. k \in DOMAIN f
    BY <1>1
  <2>1. a \in Nat /\ f[k + 1] = a * ratio
    BY <1>1, <2>0
  <2> HIDE DEF a
  <2>2. a * (ratio - 1) >= 0 /\ a * ratio = a * (ratio - 1) + a
    <3> DEFINE c == ratio - 1
    <3>1. c \in Nat /\ ratio = c + 1
      BY <1>1, <1>2
    <3> HIDE DEF c
    <3>2. a * c \in Nat /\ a * (c + 1) = a * c + a
      BY <2>1, <3>1
    <3> QED BY <3>1, <3>2 DEF c
  <2>3. a * ratio >= a
    BY <1>1, <1>2, <2>1, <2>2
  <2> QED BY <2>1, <2>3 DEF a
<1> DEFINE Bad == {k \in i .. len : ~(f[i] <= f[k])}
<1>4. Bad = {}
  <2> SUFFICES ASSUME Bad # {} PROVE FALSE
    OBVIOUS
  <2>1. PICK k \in Bad : \A m \in Bad : k <= m
    <3>1. Bad \subseteq Nat
      BY <1>1
    <3> HIDE DEF Bad
    <3> QED BY <3>1, LeastOf
  <2>0. i \in 1 .. len /\ i \in Int /\ f[i] \in Nat
    BY <1>1
  <2>2. k \in i .. len /\ ~(f[i] <= f[k]) /\ k # i
    BY <2>0
  <2>3. k - 1 \in i .. len /\ k - 1 \in 1 .. len - 1 /\ (k - 1) + 1 = k /\ k - 1 < k
        /\ k - 1 \in DOMAIN f /\ k \in DOMAIN f
    <3> HIDE DEF Bad
    <3>1. k \in Int /\ i < k /\ k <= len /\ 1 <= i
      BY <1>1, <2>0, <2>2
    <3> QED BY <1>1, <2>0, <3>1
  <2>4. f[i] <= f[k - 1]
    <3>1. k - 1 \notin Bad
      BY <2>1, <2>3
    <3> QED BY <2>3, <3>1
  <2>5. f[k - 1] <= f[k]
    BY <1>3, <2>3
  <2>6. f[i] \in Nat /\ f[k - 1] \in Nat /\ f[k] \in Nat
    BY <1>1, <2>0, <2>3
  <2>7. f[i] <= f[k]
    <3> DEFINE a == f[i]
               b == f[k - 1]
               c == f[k]
    <3>1. a \in Nat /\ b \in Nat /\ c \in Nat /\ a <= b /\ b <= c
      BY <2>4, <2>5, <2>6
    <3> HIDE DEF a, b, c
    <3>2. a <= c
      BY <3>1
    <3> QED BY <3>2 DEF a, c
  <2> QED BY <2>2, <2>7
<1>5. j \in i .. len
  BY <1>1
<1> QED BY <1>4, <1>5

StudyInv ==
    /\ study \in Study!Described /\ meshStage \in {"args", "refine", "solve", "report", "done"}
    /\ studyRefusal \in {None, "usage", "input", "refine", "size", "deck"}
    /\ studyCode \in {None, 0, 1, 2}
    /\ refined \in Seq(Nat) /\ Leads(refined, study.factors)
    /\ \A i \in 1 .. Len(refined) : Study!Refuses(study.factors[i]) = None
    /\ meshes \in Seq(Nat) /\ Leads(meshes, refined)
    /\ studyRefusal # None =>
          meshStage = "done" /\ meshes = <<>> /\ report = None /\ studyCode \in {1, 2}
    /\ meshStage \in {"args", "refine"} => meshes = <<>> /\ report = None
    /\ meshStage \in {"solve", "report"} \/ meshes # <<>> => Len(refined) = Len(study.factors)
    /\ meshStage = "args" => refined = <<>>
    /\ meshStage = "args" \/ studyRefusal = "usage" \/ Study!FactorsOk(study.factors)
    /\ studyRefusal = "size" => /\ ~study.unrefined /\ Len(refined) < Len(study.factors)
                                /\ Study!Unsized(study.factors[Len(refined) + 1])
LEMMA StudyInit ==
    ASSUME NEW studies, studies \subseteq Study!Described, Study!InitWith(studies)
    PROVE  StudyInv
<1>1. /\ study \in Study!Described /\ meshStage = "args" /\ refined = <<>> /\ meshes = <<>>
      /\ report = None /\ studyRefusal = None /\ studyCode = None
  BY DEF Study!InitWith
<1>2. study.factors \in Seq(Nat)
  BY <1>1 DEF Study!Described
<1>3. refined \in Seq(Nat) /\ meshes \in Seq(Nat) /\ Len(refined) = 0 /\ Len(meshes) = 0
      /\ Len(study.factors) \in Nat
  BY <1>1, <1>2
<1>4. Leads(refined, study.factors) /\ Leads(meshes, refined) /\ 1 .. Len(refined) = {}
  BY <1>3 DEF Leads
<1>5. None # "size"
  BY CliAndCommands DEF Study!StudyAssumption
<1> QED BY <1>1, <1>3, <1>4, <1>5 DEF StudyInv

LEMMA StudyKeeps ==
    ASSUME StudyInv, [Study!Next]_studyVars
    PROVE  StudyInv'
<1>0. None \notin {"usage", "input", "refine", "size", "deck"} /\ study.factors \in Seq(Nat)
  BY CliAndCommands DEF Study!StudyAssumption, StudyInv, Study!Described
<1>1. study' = study
  BY DEF Study!Next, Study!ParseArgs, Study!Refine, Study!SolveMesh, Study!Solved, Study!Report,
         studyVars
<1>2. \A f : Study!Refuses(f)' = Study!Refuses(f) /\ Study!Unsized(f)' = Study!Unsized(f)
  BY <1>1 DEF Study!Refuses, Study!Unsized
<1>3. CASE UNCHANGED studyVars
  BY <1>1, <1>2, <1>3 DEF StudyInv, studyVars
<1>4. CASE Study!ParseArgs
  <2>1. /\ meshStage = "args" /\ UNCHANGED <<study, refined, meshes, report>>
        /\ \/ meshStage' = "done" /\ studyRefusal' = "usage" /\ studyCode' = 2
           \/ /\ Study!FactorsOk(study.factors)
              /\ meshStage' = "done" /\ studyRefusal' = "input" /\ studyCode' = 1
           \/ /\ Study!FactorsOk(study.factors)
              /\ meshStage' = "refine" /\ UNCHANGED <<studyRefusal, studyCode>>
    BY <1>4 DEF Study!ParseArgs, Study!End
  <2>2. studyRefusal = None
    BY <2>1 DEF StudyInv
  <2>3. /\ study' \in Study!Described /\ meshStage' \in {"args", "refine", "solve", "report", "done"}
        /\ studyRefusal' \in {None, "usage", "input", "refine", "size", "deck"}
        /\ studyCode' \in {None, 0, 1, 2} /\ meshes' = <<>> /\ report' = None
        /\ studyRefusal' # "size" /\ meshStage' \notin {"args", "solve", "report"}
        /\ (studyRefusal' # None => meshStage' = "done" /\ studyCode' \in {1, 2})
    BY <1>0, <1>1, <2>1, <2>2 DEF StudyInv
  <2>4. studyRefusal' = "usage" \/ Study!FactorsOk(study'.factors)
    BY <1>1, <2>1
  <2> QED BY <1>1, <1>2, <2>1, <2>3, <2>4 DEF StudyInv
<1>5. CASE Study!Refine
  <2>1. /\ meshStage = "refine" /\ UNCHANGED <<study, meshes, report>> /\ studyRefusal = None
        /\ meshes = <<>> /\ report = None /\ Study!FactorsOk(study.factors)
        /\ refined \in Seq(Nat) /\ Leads(refined, study.factors)
        /\ Len(refined) \in Nat /\ Len(study.factors) \in Nat
        /\ Len(refined) <= Len(study.factors)
        /\ \A i \in 1 .. Len(refined) : Study!Refuses(study.factors[i]) = None
    BY <1>0, <1>5 DEF Study!Refine, StudyInv, Leads
  <2>2. CASE Len(refined) = Len(study.factors)
    <3>1. meshStage' = "solve" /\ UNCHANGED <<refined, studyRefusal, studyCode>>
      BY <1>5, <2>2 DEF Study!Refine
    <3> QED BY <1>0, <1>1, <1>2, <2>1, <2>2, <3>1 DEF StudyInv
  <2>3. CASE Len(refined) # Len(study.factors)
    <3> DEFINE n == Len(refined)
               f == study.factors[n + 1]
    <3>1. n < Len(study.factors)
      BY <2>1, <2>3
    <3>2. CASE Study!Refuses(f) = None
      <4>1. refined' = Append(refined, f) /\ UNCHANGED <<meshStage, studyRefusal, studyCode>>
        BY <1>5, <2>3, <3>2 DEF Study!Refine
      <4>2. refined' \in Seq(Nat) /\ Leads(refined', study.factors)
        BY <1>0, <2>1, <3>1, <4>1, LeadsOneMore
      <4>3. Len(refined') = n + 1
        BY <2>1, <4>1
      <4>4. \A i \in 1 .. n + 1 : Study!Refuses(study.factors[i]) = None
        <5>1. \A i \in 1 .. n + 1 : i \in 1 .. n \/ i = n + 1
          BY <2>1
        <5> QED BY <2>1, <3>2, <5>1
      <4>5. Leads(meshes', refined') /\ meshes' \in Seq(Nat)
        <5>1. meshes' = <<>>
          BY <2>1
        <5>2. Len(meshes') = 0 /\ 1 .. Len(meshes') = {} /\ meshes' \in Seq(Nat)
          BY <5>1
        <5> QED BY <2>1, <4>3, <5>2 DEF Leads
      <4>6. \A i \in 1 .. Len(refined') : (Study!Refuses(study.factors[i]) = None)'
        BY <1>1, <1>2, <4>3, <4>4
      <4> HIDE DEF n, f
      <4> QED BY <1>0, <1>1, <2>1, <4>1, <4>2, <4>5, <4>6 DEF StudyInv
    <3>3. CASE Study!Refuses(f) # None
      <4>1. meshStage' = "done" /\ studyRefusal' = Study!Refuses(f) /\ studyCode' = 1
            /\ UNCHANGED refined
        BY <1>5, <2>3, <3>3 DEF Study!Refine, Study!End
      <4>2. Study!Refuses(f) \in {None, "refine", "size", "deck"}
            /\ (Study!Refuses(f) = "size" => ~study.unrefined /\ Study!Unsized(f))
        <5>1. CASE study.unrefined
          BY <5>1 DEF Study!Refuses
        <5>2. CASE ~study.unrefined /\ Study!Unsized(f)
          <6>1. Study!Refuses(f) = "size"
            BY <5>2 DEF Study!Refuses
          <6> QED BY <5>2, <6>1
        <5>3. CASE ~study.unrefined /\ ~Study!Unsized(f) /\ f \in study.refused
          <6>1. Study!Refuses(f) = "deck"
            BY <5>3 DEF Study!Refuses
          <6> QED BY <6>1
        <5>4. CASE ~study.unrefined /\ ~Study!Unsized(f) /\ f \notin study.refused
          <6>1. Study!Refuses(f) = None
            BY <5>4 DEF Study!Refuses
          <6> QED BY <1>0, <6>1
        <5> HIDE DEF f
        <5> QED BY <5>1, <5>2, <5>3, <5>4
      <4>3. studyRefusal' = "size" =>
               /\ ~study'.unrefined /\ Len(refined') < Len(study'.factors)
               /\ Study!Unsized(study.factors[Len(refined) + 1])'
        BY <1>1, <1>2, <3>1, <4>1, <4>2
      <4>4. \A i \in 1 .. Len(refined') : (Study!Refuses(study.factors[i]) = None)'
        BY <1>1, <1>2, <2>1, <4>1
      <4> DEFINE why == Study!Refuses(f)
      <4>5. studyRefusal' = why /\ why \in {"refine", "size", "deck"}
        BY <3>3, <4>1, <4>2
      <4> HIDE DEF n, f, why
      <4>6. studyRefusal' # "usage" /\ studyRefusal' # None
            /\ studyRefusal' \in {None, "usage", "input", "refine", "size", "deck"}
        BY <1>0, <4>5
      <4> QED BY <1>1, <2>1, <4>1, <4>3, <4>4, <4>6 DEF StudyInv
    <3> QED BY <3>2, <3>3
  <2> QED BY <2>2, <2>3
<1>6. CASE Study!SolveMesh
  <2>1. /\ meshStage = "solve" /\ studyRefusal = None /\ Len(refined) = Len(study.factors)
        /\ UNCHANGED <<study, refined, report, studyRefusal>> /\ Len(meshes) < Len(refined)
        /\ meshes \in Seq(Nat) /\ refined \in Seq(Nat) /\ Leads(meshes, refined)
        /\ Study!FactorsOk(study.factors)
        /\ \A i \in 1 .. Len(refined) : Study!Refuses(study.factors[i]) = None
    BY <1>0, <1>6 DEF Study!SolveMesh, StudyInv
  <2>2. meshes' \in Seq(Nat) /\ Leads(meshes', refined) /\ meshStage' \in {"solve", "report"}
        /\ studyCode' \in {studyCode, 1}
    BY <1>6, <2>1, LeadsOneMore DEF Study!SolveMesh
  <2>3. \A i \in 1 .. Len(refined') : (Study!Refuses(study.factors[i]) = None)'
    BY <1>1, <1>2, <2>1
  <2> QED BY <1>0, <1>1, <2>1, <2>2, <2>3 DEF StudyInv
<1>7. CASE Study!Solved
  <2>1. meshStage = "solve" /\ meshStage' = "report"
        /\ UNCHANGED <<study, refined, meshes, report, studyRefusal, studyCode>>
    BY <1>7 DEF Study!Solved
  <2> QED BY <1>1, <1>2, <2>1 DEF StudyInv
<1>8. CASE Study!Report
  <2>1. meshStage = "report" /\ meshStage' = "done" /\ studyCode' \in {0, 1}
        /\ UNCHANGED <<study, refined, meshes, studyRefusal>> /\ studyRefusal = None
    BY <1>0, <1>8 DEF Study!Report, StudyInv
  <2> QED BY <1>0, <1>1, <1>2, <2>1 DEF StudyInv
<1> QED BY <1>3, <1>4, <1>5, <1>6, <1>7, <1>8 DEF Study!Next

LEMMA StudyTyped == ASSUME StudyInv PROVE Study!TypeOK
<1>1. study.factors \in Seq(Nat)
  BY DEF StudyInv, Study!Described
<1> QED BY <1>1, PrefixIs DEF StudyInv, Study!TypeOK

\* What a size refusal offers is every factor that is not refused, and a study of its own.
LEMMA StudyWhole == ASSUME StudyInv PROVE Study!RefusedWhole
<1>0. None \notin {"usage", "input", "refine", "size", "deck"} /\ study.factors \in Seq(Nat)
      /\ Len(study.factors) \in Nat /\ refined \in Seq(Nat) /\ Len(refined) \in Nat
  BY CliAndCommands DEF Study!StudyAssumption, StudyInv, Study!Described
<1>1. studyRefusal # None => meshes = <<>> /\ report = None /\ studyCode # 0
  BY DEF StudyInv
<1>2. meshes # <<>> => \A i \in DOMAIN study.factors : Study!Refuses(study.factors[i]) = None
  <2>1. meshes # <<>> => Len(refined) = Len(study.factors)
    BY DEF StudyInv
  <2>2. \A i \in 1 .. Len(refined) : Study!Refuses(study.factors[i]) = None
    BY DEF StudyInv
  <2>3. DOMAIN study.factors = 1 .. Len(study.factors)
    BY <1>0
  <2> QED BY <2>1, <2>2, <2>3
<1>3. ASSUME Study!Offered # <<>>
      PROVE  /\ Study!FactorsOk(Study!Offered)
             /\ Study!ToSet(Study!Offered) =
                  {f \in Study!ToSet(study.factors) : Study!Refuses(f) = None}
  <2> DEFINE f == study.factors
             n == Len(refined)
  <2>1. studyRefusal = "size" /\ n >= 2 /\ Study!Offered = refined
    BY <1>3 DEF Study!Offered
  <2>2. /\ ~study.unrefined /\ n < Len(f) /\ Study!Unsized(f[n + 1]) /\ Study!FactorsOk(f)
        /\ n <= Len(f) /\ \A i \in 1 .. n : refined[i] = f[i]
        /\ \A i \in 1 .. n : Study!Refuses(f[i]) = None
    BY <1>0, <2>1 DEF StudyInv, Leads
  <2>3. f \in Seq(Nat) /\ n \in Nat /\ DOMAIN refined = 1 .. n /\ DOMAIN f = 1 .. Len(f)
        /\ Len(f) \in Nat
    BY <1>0
  <2>4. study.sizeLimit \in Nat
    BY DEF StudyInv, Study!Described
  <2>5. n = Len(refined)
    OBVIOUS
  <2> HIDE DEF f, n
  <2>6. Study!FactorsOk(refined)
    <3>1. refined[1] = f[1] /\ refined[2] = f[2]
      BY <2>1, <2>2, <2>3
    <3>2. \A i \in DOMAIN refined : refined[i] = f[i] /\ i \in DOMAIN f
      BY <2>2, <2>3
    <3>3. \A i \in 1 .. n - 1 : refined[i] = f[i] /\ refined[i + 1] = f[i + 1]
                                /\ i \in 1 .. Len(f) - 1
      BY <2>2, <2>3
    <3> DEFINE ratio == f[2] \div f[1]
    <3>4. /\ \A i \in DOMAIN f : f[i] % 2 = 1
          /\ f[2] > f[1] /\ f[2] % f[1] = 0 /\ ratio >= 3
          /\ \A i \in 1 .. Len(f) - 1 : f[i + 1] = f[i] * ratio
      BY <2>2 DEF Study!FactorsOk
    <3>5. refined[2] \div refined[1] = ratio
      BY <3>1
    <3>6. refined[2] > refined[1] /\ refined[2] % refined[1] = 0
      BY <3>1, <3>4
    <3> HIDE DEF ratio
    <3>7. \A i \in DOMAIN refined : refined[i] % 2 = 1
      BY <3>2, <3>4
    <3>8. \A i \in 1 .. Len(refined) - 1 : refined[i + 1] = refined[i] * ratio
      BY <2>5, <3>3, <3>4
    <3> QED BY <2>1, <2>5, <3>4, <3>5, <3>6, <3>7, <3>8 DEF Study!FactorsOk
  <2>7. ASSUME NEW i \in DOMAIN f, Study!Refuses(f[i]) = None PROVE i \in 1 .. n
    <3>1. SUFFICES ASSUME n + 1 <= i PROVE FALSE
      BY <2>3
    <3>2. f[n + 1] <= f[i] /\ f[n + 1] \in Nat /\ f[i] \in Nat
      <4>1. n + 1 \in DOMAIN f
        BY <2>2, <2>3
      <4>2. f[n + 1] \in Nat /\ f[i] \in Nat
        BY <2>3, <4>1, ElementOfSeq
      <4> QED BY <2>2, <2>3, <3>1, <4>1, <4>2, FactorsGrow
    <3>3. f[n + 1] > study.sizeLimit
      BY <2>2 DEF Study!Unsized
    <3>4. f[i] > study.sizeLimit
      <4> DEFINE a == f[n + 1]
                 b == f[i]
                 z == study.sizeLimit
      <4>1. a \in Nat /\ b \in Nat /\ z \in Nat /\ a <= b /\ a > z
        BY <2>4, <3>2, <3>3
      <4> HIDE DEF a, b, z
      <4>2. b > z
        BY <4>1
      <4> QED BY <4>2 DEF b, z
    <3>5. Study!Unsized(f[i])
      BY <3>4 DEF Study!Unsized
    <3>6. Study!Refuses(f[i]) = "size"
      BY <2>2, <3>5 DEF Study!Refuses
    <3> QED BY <1>0, <2>7, <3>6
  <2>8. Study!ToSet(refined) = {x \in Study!ToSet(f) : Study!Refuses(x) = None}
    <3>1. Study!ToSet(refined) = {refined[i] : i \in 1 .. n}
          /\ Study!ToSet(f) = {f[i] : i \in DOMAIN f}
      BY <2>3 DEF Study!ToSet
    <3>2. \A i \in 1 .. n : refined[i] = f[i] /\ i \in DOMAIN f
      BY <2>2, <2>3
    <3> QED BY <2>2, <2>7, <3>1, <3>2
  <2> QED BY <2>1, <2>6, <2>8 DEF f
<1> QED BY <1>1, <1>2, <1>3 DEF Study!RefusedWhole
-----------------------------------------------------------------------------
(* The commands of one command line                                        *)

LEMMA SearchPart ==
    /\ Init => SearchInv
    /\ [Next]_vars => [Search!Next]_searchVars
<1>1. ASSUME Init PROVE SearchInv
  <2>1. CASE Search!Init
    <3>1. Searches \subseteq {s \in Search!Described : s.hi - s.lo # 1}
      BY CliAndCommands DEF Search!SearchAssumption
    <3> QED BY <2>1, <3>1, SearchInit DEF Search!Init
  <2>2. CASE NoSearch
    <3>1. {[lo |-> 0, hi |-> 0, tol |-> 0, maxIter |-> 0]}
            \subseteq {s \in Search!Described : s.hi - s.lo # 1}
      BY DEF Search!Described
    <3> QED BY <2>2, <3>1, SearchInit DEF NoSearch
  <2> QED BY <1>1, <2>1, <2>2 DEF Init, NoCommand, CommandInit
<1>2. ASSUME [Next]_vars PROVE [Search!Next]_searchVars
  <2>1. CASE OneCommand
    BY <2>1 DEF OneCommand, CommandStep, searchVars
  <2>2. CASE ~OneCommand
    BY <1>2, <2>2 DEF Next, RunStep, CalStep, OfDevice, UserStep, ClockStep, DriverStep,
                      vars, commandVars, searchVars
  <2> QED BY <2>1, <2>2
<1> QED BY <1>1, <1>2

LEMMA StudyPart ==
    /\ Init => StudyInv
    /\ [Next]_vars => [Study!Next]_studyVars
<1>1. ASSUME Init PROVE StudyInv
  <2>1. CASE Study!Init
    <3>1. Studies \subseteq Study!Described
      BY CliAndCommands DEF Study!StudyAssumption
    <3> QED BY <2>1, <3>1, StudyInit DEF Study!Init
  <2>2. CASE NoStudy
    <3>1. PlainStudy \in Study!Described
      <4>1. /\ <<1, 3, 9>> \in Seq(Nat) /\ <<>> \in Seq([r : Seq(Int), x : Seq(Int)])
            /\ 1 \in Nat /\ 0 \in Nat /\ 100 \in Nat /\ {} \in SUBSET Nat
        OBVIOUS
      <4> QED BY <4>1 DEF PlainStudy, Study!Described
    <3>2. {PlainStudy} \subseteq Study!Described
      BY <3>1
    <3> QED BY <2>2, <3>2, StudyInit DEF NoStudy
  <2> QED BY <1>1, <2>1, <2>2 DEF Init, NoCommand, CommandInit
<1>2. ASSUME [Next]_vars PROVE [Study!Next]_studyVars
  <2>1. CASE OneCommand
    BY <2>1 DEF OneCommand, CommandStep, studyVars
  <2>2. CASE ~OneCommand
    BY <1>2, <2>2 DEF Next, RunStep, CalStep, OfDevice, UserStep, ClockStep, DriverStep,
                      vars, commandVars, studyVars
  <2> QED BY <2>1, <2>2
<1> QED BY <1>1, <1>2

\* sweep --resonance ends with a value it probed, which is within the tolerance or beside a
\* crossing no wider than the resolution when it says it converged, and out of it after every
\* iteration it had when it does not; whatever the probes answer, on any range.
THEOREM SearchSaysWhatItSaw == Spec => []Search!ResultIsSeen
<1>1. Init => SearchInv
  BY SearchPart
<1>2. SearchInv /\ [Next]_vars => SearchInv'
  BY SearchPart, SearchKeeps
<1>3. SearchInv => Search!ResultIsSeen
  BY DEF SearchInv
<1> QED BY <1>1, <1>2, <1>3, PTL DEF Spec

\* converge solves no mesh before every one is refined and judged, prints nothing for a
\* refusal, and offers in its place a study that is accepted and leaves out nothing but what
\* the size rules refuse; for any list of factors.
THEOREM StudiesAreWhole == Spec => []Study!RefusedWhole
<1>1. Init => StudyInv
  BY StudyPart
<1>2. StudyInv /\ [Next]_vars => StudyInv'
  BY StudyPart, StudyKeeps
<1>3. StudyInv => Study!RefusedWhole
  BY StudyWhole
<1> QED BY <1>1, <1>2, <1>3, PTL DEF Spec
-----------------------------------------------------------------------------
(* Every part has its type                                                 *)

MatchTyped(stop, fail, answer, pts) ==
    /\ stop \in {"args", "child", "match", "done"} /\ fail \in BOOLEAN
    /\ answer \in {None, 0, 1, 2}
    /\ \A i \in DOMAIN pts : DOMAIN pts[i] = {"z", "feeds"}

MatchInv == MatchTyped(matchAt, unmatched, matchCode, points)

LEMMA MatchInit == ASSUME NEW requests, Match!InitWith(requests) PROVE MatchInv
<1>1. matchAt = "args" /\ unmatched = FALSE /\ matchCode = None /\ points = <<>>
  BY DEF Match!InitWith
<1>2. DOMAIN points = {}
  BY <1>1
<1> QED BY <1>1, <1>2 DEF MatchInv, MatchTyped

LEMMA MatchKeeps == MatchInv /\ [Match!Next]_matchVars => MatchInv'
<1> SUFFICES ASSUME MatchInv, [Match!Next]_matchVars PROVE MatchInv'
  OBVIOUS
<1>1. CASE UNCHANGED matchVars
  BY <1>1 DEF matchVars, MatchInv, MatchTyped
<1>2. CASE Match!ParseArgs
  <2>1. unmatched' = unmatched /\ matchAt' \in {"child", "match", "done"}
        /\ matchCode' \in {matchCode, 2}
    BY <1>2 DEF Match!ParseArgs, Match!End
  <2>2. points' = points \/ points' = <<[z |-> request.load, feeds |-> 1]>>
    BY <1>2 DEF Match!ParseArgs, Match!End
  <2>3. \A i \in DOMAIN points' : DOMAIN points'[i] = {"z", "feeds"}
    BY <2>2 DEF MatchInv, MatchTyped
  <2> QED BY <2>1, <2>3 DEF MatchInv, MatchTyped
<1>3. CASE Match!Child
  <2>1. unmatched' = unmatched /\ matchAt' \in {"match", "done"}
        /\ (matchCode' = matchCode \/ matchCode' \in 1 .. 2)
    BY <1>3 DEF Match!Child, Match!End
  <2>2. points' = points
        \/ \E n \in 1 .. MaxPoints : points' \in [1 .. n -> [z : Loads, feeds : 1 .. 2]]
    BY <1>3 DEF Match!Child, Match!End
  <2>3. \A i \in DOMAIN points' : DOMAIN points'[i] = {"z", "feeds"}
    <3>1. CASE points' = points
      BY <3>1 DEF MatchInv, MatchTyped
    <3>2. ASSUME NEW n \in 1 .. MaxPoints, points' \in [1 .. n -> [z : Loads, feeds : 1 .. 2]]
          PROVE  \A i \in DOMAIN points' : DOMAIN points'[i] = {"z", "feeds"}
      <4>1. \A p \in [z : Loads, feeds : 1 .. 2] : DOMAIN p = {"z", "feeds"}
        OBVIOUS
      <4> QED BY <3>2, <4>1
    <3> QED BY <2>2, <3>1, <3>2
  <2>4. matchCode' \in {None, 0, 1, 2}
    BY <2>1 DEF MatchInv, MatchTyped
  <2> QED BY <2>1, <2>3, <2>4 DEF MatchInv, MatchTyped
<1>4. CASE Match!Match
  <2>1. unmatched' \in {unmatched, TRUE} /\ UNCHANGED <<matchAt, points, matchCode>>
    BY <1>4 DEF Match!Match
  <2> QED BY <2>1 DEF MatchInv, MatchTyped
<1>5. CASE Match!Finish
  <2>1. matchAt' = "done" /\ matchCode' \in {0, 1} /\ UNCHANGED <<points, unmatched>>
    BY <1>5 DEF Match!Finish
  <2> QED BY <2>1 DEF MatchInv, MatchTyped
<1> QED BY <1>1, <1>2, <1>3, <1>4, <1>5 DEF Match!Next

LEMMA MatchPart ==
    /\ Init => MatchInv
    /\ [Next]_vars => [Match!Next]_matchVars
<1>1. ASSUME Init PROVE MatchInv
  BY <1>1, MatchInit DEF Init, NoCommand, CommandInit, NoMatch, Match!Init
<1>2. ASSUME [Next]_vars PROVE [Match!Next]_matchVars
  <2>1. CASE OneCommand
    BY <2>1 DEF OneCommand, CommandStep, matchVars
  <2>2. CASE ~OneCommand
    BY <1>2, <2>2 DEF Next, RunStep, CalStep, OfDevice, UserStep, ClockStep, DriverStep,
                      vars, commandVars, matchVars
  <2> QED BY <2>1, <2>2
<1> QED BY <1>1, <1>2
AllInv == RunInv /\ CalInv /\ DeviceInv /\ StudyInv /\ SearchInv /\ MatchInv /\ FreqInv

LEMMA AllInvInit == Init => AllInv
<1> SUFFICES ASSUME Init PROVE AllInv
  OBVIOUS
<1>1. RunInv /\ CalInv /\ DeviceInv
  BY RunPart, CalPart, DevicePart
<1>2. StudyInv /\ SearchInv /\ MatchInv /\ FreqInv
  BY StudyPart, SearchPart, MatchPart, FreqPart
<1> QED BY <1>1, <1>2 DEF AllInv

LEMMA AllInvKeeps == AllInv /\ [Next]_vars => AllInv'
<1> SUFFICES ASSUME AllInv, [Next]_vars PROVE AllInv'
  OBVIOUS
<1>0. RunInv /\ CalInv /\ DeviceInv /\ StudyInv /\ SearchInv /\ MatchInv /\ FreqInv
  BY DEF AllInv
<1>1. RunInv'
  BY <1>0, RunInvKeeps
<1>2. CalInv' /\ DeviceInv'
  BY <1>0, CalPart, CalKeeps, DevicePart, DeviceKeeps
<1>3. StudyInv' /\ SearchInv'
  BY <1>0, StudyPart, StudyKeeps, SearchPart, SearchKeeps
<1>4. MatchInv' /\ FreqInv'
  BY <1>0, MatchPart, MatchKeeps, FreqPart, FreqKeeps
<1> QED BY <1>1, <1>2, <1>3, <1>4 DEF AllInv

\* Whatever is asked of the command line, every variable of the run, the calibration, the
\* device and the commands is of its type; no counter leaves its range.
THEOREM CliIsTyped == Spec => []TypeOK
<1>1. AllInv => TypeOK
  <2> SUFFICES ASSUME AllInv PROVE TypeOK
    OBVIOUS
  <2>1. Run!TypeOK
    <3>1. r \in Run!Described /\ printed \in Seq(Run!Points)
      BY DEF AllInv, RunInv, RunWhere, RunTyped, RunPrints
    <3>2. {r.hosts, r.device} \subseteq BOOLEAN
      BY <3>1 DEF Run!Described
    <3> QED BY <3>1, <3>2 DEF AllInv, RunInv, RunWhere, RunTyped, Run!TypeOK
  <2>2. Cal!TypeOK /\ Device!TypeOK
    BY DEF AllInv, CalInv, DeviceInv
  <2>3. Study!TypeOK /\ Freq!TypeOK
    BY StudyTyped, FreqTyped DEF AllInv
  <2>4. Search!TypeOK /\ Match!TypeOK
    BY DEF AllInv, SearchInv, Search!TypeOK, MatchInv, MatchTyped, Match!TypeOK
  <2> QED BY <2>1, <2>2, <2>3, <2>4 DEF TypeOK, CommandsTypeOK
<1> QED BY <1>1, AllInvInit, AllInvKeeps, PTL DEF Spec
=============================================================================
