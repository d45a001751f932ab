---------------------------- MODULE TokensProofs ----------------------------
(***************************************************************************)
(* Proofs about Tokens, for any unit of the clock, minute, leeway and skew, *)
(* any settings and keys.                                                  *)
(***************************************************************************)
EXTENDS Tokens, TLAPS

\* exp is the clock at the issue, within the skew of the true time, and the
\* lifetime, cut to a second and cast.
Issued(t) ==
  /\ t.exp \in 0..(Word - 1) /\ t.minutes \in Int /\ t.issued \in 0..time /\ t.key \in Pairs
  /\ \E skewed \in -Skew..Skew :
       t.exp = AsUsize((Skew + t.issued + skewed + Lifetime(t)) \div Unit)

IInv ==
  /\ time \in 0..Horizon /\ offset \in -Skew..Skew
  /\ config \in [minutes : Int, private : Pairs, public : Pairs]
  /\ \A t \in tokens : Issued(t)

-----------------------------------------------------------------------------
(* Seconds.                                                                *)

LEMMA DivBounds ==
  ASSUME NEW x \in Int, NEW u \in Nat \ {0}
  PROVE  x \div u \in Int /\ (x \div u) * u <= x /\ x < (x \div u) * u + u
OBVIOUS

LEMMA TimesMonotone ==
  ASSUME NEW x \in Int, NEW y \in Int, NEW u \in Nat, x <= y
  PROVE  x * u \in Int /\ y * u \in Int /\ x * u <= y * u
OBVIOUS

LEMMA LessByDiv ==
  ASSUME NEW x \in Int, NEW y \in Int, NEW u \in Nat \ {0}, x <= y
  PROVE  x \div u <= y \div u
OBVIOUS

LEMMA DivShift ==
  ASSUME NEW x \in Int, NEW k \in Int, NEW u \in Nat \ {0}
  PROVE  (x + k * u) \div u = x \div u + k
OBVIOUS

LEMMA Distributes ==
  ASSUME NEW x \in Int, NEW y \in Int, NEW u \in Nat
  PROVE  (x - y) * u = x * u - y * u /\ (x + y) * u = x * u + y * u
OBVIOUS

LEMMA DivShrinks ==
  ASSUME NEW x \in Int, NEW u \in Nat \ {0}
  PROVE  /\ x \div u \in Int
         /\ x < 0 => x <= x \div u /\ x \div u < 0
         /\ x >= 0 => 0 <= x \div u /\ x \div u <= x
<1>1. x \div u \in Int /\ (x \div u) * u <= x /\ x < (x \div u) * u + u
  BY DivBounds
<1>2. ASSUME NEW d \in Int, d * u <= x, x < d * u + u
      PROVE  (x < 0 => x <= d /\ d < 0) /\ (x >= 0 => 0 <= d /\ d <= x)
  <2>1. ASSUME d >= 0 PROVE d * u >= d /\ d * u \in Int
    BY <2>1
  <2>2. ASSUME d < 0 PROVE d * u + u <= d + 1 /\ d * u \in Int
    <3>1. (-d - 1) * (u - 1) >= 0 /\ (-d - 1) * (u - 1) = -(d * u) + d - u + 1
      BY <2>2
    <3> QED
      BY <3>1
  <2> QED
    BY <1>2, <2>1, <2>2
<1> QED
  BY <1>1, <1>2

LEMMA LifetimeIsInt == \A t : t.minutes \in Int => Lifetime(t) \in Int
BY TokensAssumption DEF Lifetime

\* A time that chrono can express fits usize, cast or not.
LEMMA CastFits ==
  ASSUME NEW clock \in 0..(2 * Skew + Horizon), NEW m \in -MaxMinutes..MaxMinutes
  PROVE  AsUsize((clock + m * Minute * Unit) \div Unit) \in 0..(Word - 1)
<1>0. /\ Minute \in Nat \ {0} /\ Unit \in Nat \ {0} /\ MaxMinutes \in Nat /\ Word \in Nat
      /\ Skew \in Nat /\ Horizon \in Nat
      /\ 2 * Skew + Horizon + MaxMinutes * Minute * Unit < Word
  BY TokensAssumption
<1>1. m \in Int /\ -MaxMinutes \in Int /\ -MaxMinutes <= m /\ m <= MaxMinutes
  BY <1>0
<1>2. /\ (-MaxMinutes) * Minute <= m * Minute /\ m * Minute <= MaxMinutes * Minute
      /\ m * Minute \in Int /\ MaxMinutes * Minute \in Int /\ (-MaxMinutes) * Minute \in Int
  BY <1>0, <1>1, TimesMonotone
<1>3. /\ (-MaxMinutes) * Minute * Unit <= m * Minute * Unit
      /\ m * Minute * Unit <= MaxMinutes * Minute * Unit
      /\ m * Minute * Unit \in Int /\ MaxMinutes * Minute * Unit \in Int
  BY <1>0, <1>2, TimesMonotone
<1>4. (-MaxMinutes) * Minute * Unit = -(MaxMinutes * Minute * Unit)
  BY <1>0
<1> DEFINE x == clock + m * Minute * Unit
<1>5. x \in Int /\ -Word <= x /\ x < Word
  BY <1>0, <1>3, <1>4
<1> HIDE DEF x
<1> QED
  BY <1>0, <1>5, DivShrinks DEF AsUsize, x

\* A time not before 1970 is cast to itself.
LEMMA CastKeeps ==
  ASSUME NEW x \in Int, x >= 0
  PROVE  AsUsize(x \div Unit) = x \div Unit
BY TokensAssumption, DivShrinks DEF AsUsize

LEMMA MinutesAreInt == \A s \in Settings : Minutes(s) \in Int
BY TokensAssumption DEF Minutes

LEMMA ConfigsAreTyped == Configs \subseteq [minutes : Int, private : Pairs, public : Pairs]
BY MinutesAreInt DEF Configs

-----------------------------------------------------------------------------

LEMMA InitIInv == Init => IInv
BY ConfigsAreTyped, TokensAssumption DEF Init, IInv

\* What was said of a token stays true as time passes.
LEMMA StillIssued ==
  ASSUME NEW t, Issued(t), time \in Nat, time' \in Nat, time <= time'
  PROVE  Issued(t)'
BY DEF Issued, Lifetime

LEMMA NextIInv == IInv /\ [Next]_vars => IInv'
<1>. SUFFICES ASSUME IInv, [Next]_vars PROVE IInv'
  OBVIOUS
<1>0. time \in Nat /\ Horizon \in Nat /\ Skew \in Nat
  BY TokensAssumption DEF IInv
<1>1. CASE Tick
  <2>1. time' \in 0..Horizon /\ time <= time' /\ time' \in Nat
    BY <1>0, <1>1 DEF Tick
  <2>. QED
    BY <1>0, <1>1, <2>1, StillIssued DEF Tick, IInv
<1>2. CASE Adjust
  BY <1>0, <1>2, StillIssued DEF Adjust, IInv
<1>3. CASE Restart
  BY <1>0, <1>3, StillIssued, ConfigsAreTyped DEF Restart, IInv
<1>4. CASE Encode
  <2> DEFINE t == Claims(AsUsize((Clock + config.minutes * Minute * Unit) \div Unit),
                         config.private, config.minutes)
  <2>1. /\ tokens' = tokens \cup {t} /\ UNCHANGED <<time, offset, config>>
        /\ config.minutes \in -MaxMinutes..MaxMinutes
    BY <1>4 DEF Encode
  <2>2. /\ t.exp = AsUsize((Clock + config.minutes * Minute * Unit) \div Unit)
        /\ t.minutes = config.minutes /\ t.issued = time /\ t.key = config.private
    BY DEF Claims
  <2>3. Clock = Skew + t.issued + offset
    BY <2>2 DEF Clock
  <2>4. Lifetime(t) = config.minutes * Minute * Unit
    BY <2>2 DEF Lifetime
  <2>5. config.minutes \in Int /\ config.private \in Pairs
    BY DEF IInv
  <2>6. Lifetime(t) \in Int
    BY <2>2, <2>5, LifetimeIsInt
  <2>7. t.exp = AsUsize((Skew + t.issued + offset + Lifetime(t)) \div Unit)
    BY <2>2, <2>3, <2>4
  <2>8. Clock \in 0..(2 * Skew + Horizon)
    BY <1>0 DEF Clock, IInv
  <2>9. t.exp \in 0..(Word - 1)
    BY <2>1, <2>2, <2>8, CastFits
  <2>10. Issued(t)
    BY <1>0, <2>2, <2>5, <2>7, <2>9 DEF Issued, IInv
  <2> HIDE DEF t
  <2>11. \A s \in tokens' : Issued(s)
    BY <2>1, <2>10 DEF IInv
  <2>. QED
    BY <1>0, <2>1, <2>11, StillIssued DEF IInv
<1>5. CASE UNCHANGED vars
  BY <1>0, <1>5, StillIssued DEF vars, IInv
<1>. QED
  BY <1>1, <1>2, <1>3, <1>4, <1>5 DEF Next

\* Every token was issued as the invariant says.
THEOREM Invariance == Spec => []IInv
BY InitIInv, NextIInv, PTL DEF Spec

\* Types, for any settings.
THEOREM TypeCorrect == Spec => []TypeOK
<1>1. IInv => TypeOK
  BY DEF IInv, TypeOK, Issued
<1>. QED
  BY <1>1, Invariance, PTL

-----------------------------------------------------------------------------

\* A token that was to end after 1970 ends as it was to, cut to a second.
LEMMA TokenFacts ==
  ASSUME IInv, NEW t \in tokens, t.issued + Lifetime(t) >= 0
  PROVE  \E skewed \in -Skew..Skew :
           /\ t.exp = (Skew + t.issued + skewed + Lifetime(t)) \div Unit
           /\ Skew + t.issued + skewed + Lifetime(t) \in Int
           /\ skewed \in Int /\ t.issued \in Int /\ Lifetime(t) \in Int /\ t.exp \in Int
<1>1. Issued(t) /\ Skew \in Nat /\ Word \in Nat
  BY TokensAssumption DEF IInv
<1>2. Lifetime(t) \in Int
  BY <1>1, LifetimeIsInt DEF Issued
<1>3. PICK skewed \in -Skew..Skew :
        t.exp = AsUsize((Skew + t.issued + skewed + Lifetime(t)) \div Unit)
  BY <1>1 DEF Issued
<1>4. skewed \in Int /\ t.issued \in Int /\ t.exp \in Int
  BY <1>1 DEF Issued
<1>5. /\ Skew + t.issued + skewed + Lifetime(t) \in Int
      /\ Skew + t.issued + skewed + Lifetime(t) >= 0
  BY <1>1, <1>2, <1>3, <1>4
<1>6. t.exp = (Skew + t.issued + skewed + Lifetime(t)) \div Unit
  BY <1>3, <1>5, CastKeeps
<1>. QED
  BY <1>2, <1>3, <1>4, <1>5, <1>6

\* No token that was to end after 1970 is accepted for longer than its minutes,
\* the leeway, the second it was cut to and what the clock may be off.
THEOREM BoundedLife == Spec => []NeverTooLong
<1>1. IInv => NeverTooLong
  <2>. SUFFICES ASSUME IInv, NEW t \in tokens, t.issued + Lifetime(t) >= 0, Decodes(t)
                PROVE  Age(t) < Lifetime(t) + (Leeway + 1) * Unit + 2 * Skew
    BY DEF NeverTooLong
  <2>0. Unit \in Nat \ {0} /\ Leeway \in Nat /\ Skew \in Nat /\ time \in Int /\ offset \in Int
    BY TokensAssumption DEF IInv
  <2>1. PICK skewed \in -Skew..Skew :
           /\ t.exp = (Skew + t.issued + skewed + Lifetime(t)) \div Unit
           /\ Skew + t.issued + skewed + Lifetime(t) \in Int
           /\ skewed \in Int /\ t.issued \in Int /\ Lifetime(t) \in Int /\ t.exp \in Int
    BY TokenFacts
  <2>2. t.exp * Unit <= Skew + t.issued + skewed + Lifetime(t)
    BY <2>0, <2>1, DivBounds
  <2>3. Clock \in Int /\ Clock = Skew + time + offset
    BY <2>0 DEF Clock
  <2>4. Now \in Int /\ Clock < Now * Unit + Unit
    BY <2>0, <2>3, DivBounds DEF Now
  <2>5. Now - Leeway <= t.exp /\ Now - Leeway \in Int
    BY <2>0, <2>1, <2>4 DEF Decodes
  <2>6. (Now - Leeway) * Unit <= t.exp * Unit
    BY <2>0, <2>1, <2>5, TimesMonotone
  <2>7. (Now - Leeway) * Unit = Now * Unit - Leeway * Unit
    BY <2>0, <2>4, Distributes
  <2>8. (Leeway + 1) * Unit = Leeway * Unit + Unit
    BY <2>0, Distributes
  <2>9. Leeway * Unit \in Int /\ Now * Unit \in Int /\ t.exp * Unit \in Int
    BY <2>0, <2>1, <2>4, TimesMonotone
  <2>10. time + offset < t.issued + skewed + Lifetime(t) + Leeway * Unit + Unit
    BY <2>0, <2>1, <2>2, <2>3, <2>4, <2>6, <2>7, <2>9
  <2>11. skewed - offset <= 2 * Skew
    BY <2>0, <2>1 DEF IInv
  <2>. QED
    BY <2>0, <2>1, <2>8, <2>9, <2>10, <2>11 DEF Age
<1>. QED
  BY <1>1, Invariance, PTL

\* A token is accepted as long as it was issued for, if the leeway makes up for
\* what the clock may be off.
THEOREM FullLife == Spec => []NeverTooShort
<1>1. IInv => NeverTooShort
  <2>. SUFFICES ASSUME IInv, 2 * Skew <= Leeway * Unit, NEW t \in tokens,
                       t.key = config.public, Age(t) <= Lifetime(t)
                PROVE  Decodes(t)
    BY DEF NeverTooShort
  <2>a. t.issued + Lifetime(t) >= 0
    <3>1. t.issued \in 0..time /\ Lifetime(t) \in Int /\ time \in Int
      BY LifetimeIsInt DEF IInv, Issued
    <3> QED
      BY <3>1 DEF Age
  <2>0. Unit \in Nat \ {0} /\ Leeway \in Nat /\ Skew \in Nat /\ time \in Int /\ offset \in Int
    BY TokensAssumption DEF IInv
  <2>1. PICK skewed \in -Skew..Skew :
           /\ t.exp = (Skew + t.issued + skewed + Lifetime(t)) \div Unit
           /\ Skew + t.issued + skewed + Lifetime(t) \in Int
           /\ skewed \in Int /\ t.issued \in Int /\ Lifetime(t) \in Int /\ t.exp \in Int
    BY <2>a, TokenFacts
  <2> DEFINE end == Skew + t.issued + skewed + Lifetime(t)
  <2>2. Leeway * Unit \in Int
    BY <2>0, TimesMonotone
  <2>3. Clock \in Int /\ Clock = Skew + time + offset
    BY <2>0 DEF Clock
  <2>4. offset - skewed <= 2 * Skew
    BY <2>0, <2>1 DEF IInv
  <2>5. Clock <= end + Leeway * Unit /\ end + Leeway * Unit \in Int
    BY <2>0, <2>1, <2>2, <2>3, <2>4 DEF Age
  <2>6. Now <= (end + Leeway * Unit) \div Unit
    BY <2>0, <2>3, <2>5, LessByDiv DEF Now
  <2>7. (end + Leeway * Unit) \div Unit = t.exp + Leeway
    <3>1. end \in Int /\ end \div Unit = t.exp
      BY <2>1
    <3> HIDE DEF end
    <3>2. \A x, k \in Int : (x + k * Unit) \div Unit = x \div Unit + k
      BY <2>0, DivShift
    <3>3. Leeway \in Int
      BY <2>0
    <3>4. (end + Leeway * Unit) \div Unit = end \div Unit + Leeway
      BY <3>1, <3>2, <3>3, Zenon
    <3>. QED
      BY <3>1, <3>4
  <2>8. Now \in Int
    BY <2>0, <2>3, DivBounds DEF Now
  <2>. QED
    BY <2>0, <2>1, <2>6, <2>7, <2>8 DEF Decodes
<1>. QED
  BY <1>1, Invariance, PTL
=============================================================================
