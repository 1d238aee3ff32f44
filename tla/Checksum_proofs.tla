--------------------------- MODULE Checksum_proofs ---------------------------
(* Both versions of ip_checksum agree on every header.                     *)
EXTENDS Checksum, TLAPS

LEMMA Division ==
  ASSUME NEW s \in Int, NEW q \in Int, q = s \div 65536
  PROVE  65536 * q <= s /\ s < 65536 * q + 65536
  BY SMT

(* A number is its low half and its carry.                                 *)
LEMMA Halves ==
  ASSUME NEW s \in Int, NEW c \in Int, c = Carry(s)
  PROVE  /\ 65536 * c <= s /\ s < 65536 * c + 65536
         /\ Low(s) = s - 65536 * c
         /\ Fold(s) = s - 65535 * c
<1>1. c = s \div 65536
  BY SMT DEF Carry, Word
<1>2. 65536 * c <= s /\ s < 65536 * c + 65536
  BY <1>1, Division, SMT
<1>3. Low(s) = s - 65536 * c
  BY SMT DEF Low, Word
<1>4. Fold(s) = (s - 65536 * c) + c
  BY <1>3, SMT DEF Fold
<1>. QED BY <1>2, <1>3, <1>4, SMT

LEMMA CarryInt ==
  ASSUME NEW s \in Int
  PROVE  Carry(s) \in Int
BY SMT DEF Carry, Word

(* A number of 16 bits is left alone by a fold.                            *)
LEMMA SmallFold ==
  ASSUME NEW s \in Int, 0 <= s, s < 65536
  PROVE  Carry(s) = 0 /\ Low(s) = s /\ Fold(s) = s
<1>1. PICK c \in Int : c = Carry(s)
  BY CarryInt, SMT
<1>2. 65536 * c <= s /\ s < 65536 * c + 65536
  BY <1>1, Halves, SMT
<1>3. c = 0
  BY <1>2, SMT
<1>4. Low(s) = s - 65536 * c /\ Fold(s) = s - 65535 * c
  BY <1>1, Halves, SMT
<1>. QED BY <1>1, <1>3, <1>4, SMT

(* The first fold of a header's sum leaves at most nine above 16 bits.     *)
LEMMA FirstFold ==
  ASSUME NEW s \in Int, 0 <= s, s <= 655350
  PROVE  Fold(s) \in Int /\ 0 <= Fold(s) /\ Fold(s) < 65545
<1>1. PICK c \in Int : c = Carry(s)
  BY CarryInt, SMT
<1>2. 65536 * c <= s /\ s < 65536 * c + 65536 /\ Fold(s) = s - 65535 * c
  BY <1>1, Halves, SMT
<1>3. 0 <= c /\ c <= 9
  BY <1>2, SMT
<1>. QED BY <1>2, <1>3, SMT

(* The second fold leaves 16 bits, and is what the first version computes  *)
(* with one more addition.                                                 *)
LEMMA SecondFold ==
  ASSUME NEW s \in Int, 0 <= s, s < 65545
  PROVE  /\ Fold(s) \in Int /\ 0 <= Fold(s) /\ Fold(s) < 65536
         /\ Low(s + Carry(s)) = Fold(s)
<1>1. CASE s < 65536
  <2>1. Carry(s) = 0 /\ Low(s) = s /\ Fold(s) = s
    BY <1>1, SmallFold, SMT
  <2>2. s + Carry(s) = s
    BY <2>1, SMT
  <2>. QED BY <1>1, <2>1, <2>2, SMT
<1>2. CASE 65536 <= s
  <2>1. PICK c \in Int : c = Carry(s)
    BY CarryInt, SMT
  <2>2. 65536 * c <= s /\ s < 65536 * c + 65536 /\ Fold(s) = s - 65535 * c
    BY <2>1, Halves, SMT
  <2>3. c = 1
    BY <1>2, <2>2, SMT
  <2>4. Fold(s) = s - 65535
    BY <2>2, <2>3, SMT
  <2>5. PICK t \in Int : t = s + 1
    BY SMT
  <2>6. PICK d \in Int : d = Carry(t)
    BY CarryInt, SMT
  <2>7. 65536 * d <= t /\ t < 65536 * d + 65536 /\ Low(t) = t - 65536 * d
    BY <2>6, Halves, SMT
  <2>8. d = 1
    BY <1>2, <2>5, <2>7, SMT
  <2>9. Low(t) = s - 65535
    BY <2>5, <2>7, <2>8, SMT
  <2>10. s + Carry(s) = t
    BY <2>1, <2>3, <2>5, SMT
  <2>. QED BY <1>2, <2>4, <2>9, <2>10, SMT
<1>. QED BY <1>1, <1>2, SMT

(* Where the loop is: nothing folded, folded once, or folded twice.        *)
LoopInv ==
  /\ words \in HeaderSums
  /\ sum \in {words, Fold(words), Fold(Fold(words))}

(* What the folds of a header's words are.                                 *)
LEMMA WordsFold ==
  ASSUME words \in HeaderSums
  PROVE  /\ words \in Int /\ Fold(words) \in Int
         /\ Fold(Fold(words)) \in Int
         /\ 0 <= Fold(Fold(words)) /\ Fold(Fold(words)) < 65536
         /\ Low(Fold(words) + Carry(Fold(words))) = Fold(Fold(words))
<1>1. words \in Int /\ 0 <= words /\ words <= 655350
  BY SMT DEF HeaderSums
<1>2. Fold(words) \in Int /\ 0 <= Fold(words) /\ Fold(words) < 65545
  BY <1>1, FirstFold, SMT
<1>. DEFINE once == Fold(words)
<1>3. /\ Fold(once) \in Int /\ 0 <= Fold(once) /\ Fold(once) < 65536
      /\ Low(once + Carry(once)) = Fold(once)
  <2>. HIDE DEF once
  <2>1. ASSUME once \in Int, 0 <= once, once < 65545
        PROVE  /\ Fold(once) \in Int /\ 0 <= Fold(once) /\ Fold(once) < 65536
               /\ Low(once + Carry(once)) = Fold(once)
    BY <2>1, SecondFold, SMT
  <2>. QED BY <1>2, <2>1, SMT DEF once
<1>. QED BY <1>1, <1>2, <1>3, SMT

(* The loop folds at most twice.                                           *)
LEMMA LoopInvariant == Spec => []LoopInv
<1>1. Init => LoopInv
  BY SMT DEF Init, LoopInv
<1>2. LoopInv /\ [Loop]_sumVars => LoopInv'
  <2>1. ASSUME LoopInv, Loop PROVE LoopInv'
    <3>1. words' = words /\ sum' = Fold(sum) /\ Carry(sum) # 0
      BY <2>1, SMT DEF Loop
    <3>2. Carry(Fold(Fold(words))) = 0
      BY <2>1, WordsFold, SmallFold, SMT DEF LoopInv
    <3>3. sum \in {words, Fold(words)}
      BY <2>1, <3>1, <3>2, SMT DEF LoopInv
    <3>. QED BY <2>1, <3>1, <3>3, SMT DEF LoopInv
  <2>2. ASSUME LoopInv, UNCHANGED sumVars PROVE LoopInv'
    BY <2>2, SMT DEF LoopInv, sumVars
  <2>. QED BY <2>1, <2>2, SMT
<1>. QED BY <1>1, <1>2, PTL DEF Spec

(* Both versions compute the same checksum, and every host accepts it      *)
(* (code/cldp_server.c, line 54, and temp/cldp_server.c, line 38).         *)
THEOREM ChecksumsAgree == Spec => []VersionsAgree
<1>1. LoopInv => VersionsAgree
  <2>. SUFFICES ASSUME LoopInv, Carry(sum) = 0
                PROVE  /\ Complement(sum) = FirstVersion(words)
                       /\ Complement(sum) + sum = Word - 1
    BY SMT DEF VersionsAgree
  <2>1. sum \in Int
    BY WordsFold, SMT DEF LoopInv
  <2>2. /\ 65536 * 0 <= sum /\ sum < 65536 * 0 + 65536
        /\ Low(sum) = sum - 65536 * 0
    BY <2>1, Halves, SMT
  <2>3. 0 <= sum /\ sum < 65536 /\ Low(sum) = sum
    BY <2>1, <2>2, SMT
  <2>4. Fold(sum) = sum
    BY <2>1, <2>3, SmallFold, SMT
  <2>5. Fold(Fold(sum)) = sum
    BY <2>4, SMT
  <2>6. Fold(Fold(Fold(words))) = Fold(Fold(words))
    BY WordsFold, SmallFold, SMT DEF LoopInv
  <2>7. sum = Fold(Fold(words))
    BY <2>4, <2>5, <2>6, SMT DEF LoopInv
  <2>8. FirstVersion(words) = (Word - 1) - sum
    BY <2>7, WordsFold, SMT DEF FirstVersion, Complement, LoopInv
  <2>9. Complement(sum) = (Word - 1) - sum
    BY <2>3, SMT DEF Complement
  <2>. QED BY <2>1, <2>8, <2>9, SMT DEF Word
<1>. QED BY <1>1, LoopInvariant, PTL
=============================================================================
