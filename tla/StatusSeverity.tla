--------------------------- MODULE StatusSeverity ---------------------------
(***************************************************************************)
(* The tests of StatusSeverity on the Status that requests are answered    *)
(* with.  A severity is an integer whose low bits are flags; the client    *)
(* takes it as the server sends it.  The tests have no state, and what     *)
(* they tell is proved for every integer.                                  *)
(***************************************************************************)
EXTENDS Integers, TLAPS

(* The answer to a request may be null instead of a status. *)
Statuses == [present : BOOLEAN, severity : Int]

(* `severity & bitmask` is on two's complement integers; \div rounds down, *)
(* so this is the bit of a negative severity too.                          *)
TestSeverity(bitmask, status) ==
  status.present /\ (status.severity \div bitmask) % 2 = 1

IsOk(status)      == status.present /\ status.severity = 0
IsInfo(status)    == TestSeverity(1, status)
IsWarning(status) == TestSeverity(2, status)
IsError(status)   == TestSeverity(4, status)
IsCancel(status)  == TestSeverity(8, status)

(* The flags of a status, added up as the protocol adds them. *)
Weight(flag, passed) == IF passed THEN flag ELSE 0
FlagSum(status) ==
  Weight(1, IsInfo(status)) + Weight(2, IsWarning(status))
    + Weight(4, IsError(status)) + Weight(8, IsCancel(status))
-----------------------------------------------------------------------------
(* The tests together tell the severity, up to what lies beyond its flags: *)
(* the tests passed add up to it modulo 16, for negative severities too.   *)
THEOREM TestsTellSeverity ==
  \A status \in Statuses :
    status.present => (status.severity - FlagSum(status)) % 16 = 0
<1> SUFFICES ASSUME NEW status \in Statuses, status.present
             PROVE  (status.severity - FlagSum(status)) % 16 = 0
  OBVIOUS
<1> DEFINE s       == status.severity
           Bit(n)  == (s \div n) % 2
           flagSum == Bit(1) + 2 * Bit(2) + 4 * Bit(4) + 8 * Bit(8)
<1>1. s \in Int
  BY DEF Statuses
<1>2. FlagSum(status) = flagSum
  <2>1. \A n \in {1, 2, 4, 8} : Weight(n, TestSeverity(n, status)) = n * Bit(n)
    <3>1. \A n \in {1, 2, 4, 8} : Bit(n) \in {0, 1}
      BY <1>1
    <3> HIDE DEF s
    <3> QED
      BY <3>1 DEF Weight, TestSeverity, s
  <2>2. 1 * Bit(1) = Bit(1)
    BY <1>1
  <2> QED
    BY <2>1, <2>2 DEF FlagSum, IsInfo, IsWarning, IsError, IsCancel
<1>3. s = 16 * (s \div 16) + flagSum
  <2>1. s = 2 * (s \div 2) + Bit(1)
    BY <1>1
  <2>2. s \div 2 = 2 * (s \div 4) + Bit(2)
    BY <1>1
  <2>3. s \div 4 = 2 * (s \div 8) + Bit(4)
    BY <1>1
  <2>4. s \div 8 = 2 * (s \div 16) + Bit(8)
    BY <1>1
  <2>5. /\ \A n \in {2, 4, 8, 16} : s \div n \in Int
        /\ \A n \in {1, 2, 4, 8} : Bit(n) \in Int
    BY <1>1
  <2> HIDE DEF s, Bit
  <2> QED
    BY <1>1, <2>1, <2>2, <2>3, <2>4, <2>5
<1>4. \A k \in Int : (16 * k) % 16 = 0
  OBVIOUS
<1> QED
  BY <1>1, <1>2, <1>3, <1>4

(* Ok excludes every flag; and a status that is neither ok nor flagged, so *)
(* that the client's tests tell nothing of it, has a severity outside the  *)
(* protocol's range: within the range, ok is the same as no flag at all.   *)
THEOREM OkIsUnflagged ==
  \A status \in Statuses :
    /\ IsOk(status) => FlagSum(status) = 0
    /\ status.present /\ status.severity \in 0 .. 15 /\ FlagSum(status) = 0
         => IsOk(status)
<1> SUFFICES ASSUME NEW status \in Statuses
             PROVE  /\ IsOk(status) => FlagSum(status) = 0
                    /\ status.present /\ status.severity \in 0 .. 15
                         /\ FlagSum(status) = 0 => IsOk(status)
  OBVIOUS
<1>1. ASSUME IsOk(status) PROVE FlagSum(status) = 0
  BY <1>1 DEF IsOk, FlagSum, Weight, IsInfo, IsWarning, IsError, IsCancel,
     TestSeverity
<1>2. ASSUME status.present, status.severity \in 0 .. 15, FlagSum(status) = 0
      PROVE  IsOk(status)
  <2>1. status.severity % 16 = 0
    BY <1>2, TestsTellSeverity DEF Statuses
  <2> QED
    BY <1>2, <2>1 DEF IsOk
<1> QED
  BY <1>1, <1>2
=============================================================================
