------------------------------ MODULE Checksum ------------------------------
(***************************************************************************)
(* ip_checksum of Assignment_7, after the words are added up.  The final   *)
(* version folds the sum in a loop; the first one (temp/) folds it twice,  *)
(* the second time in 16 bits.  The servers of the final version drop a    *)
(* packet whose checksum is not the one they compute, so both must agree   *)
(* wherever both versions run on one network.                              *)
(***************************************************************************)
EXTENDS Integers

CONSTANT Sums      \* the sums that are tried

Word == 65536

(* A header has ten 16-bit words: ihl is 5 in every packet of both         *)
(* versions.                                                               *)
HeaderSums == {s \in Nat : s <= 655350}

VARIABLES
  words,  \* the sum at the start
  sum     \* the sum in the loop

sumVars == <<words, sum>>

Init ==
  /\ words \in Sums \cap HeaderSums
  /\ sum = words

Carry(s) == s \div Word                \* s >> 16
Low(s)   == s - Word * Carry(s)        \* s & 0xFFFF

Fold(s) == Low(s) + Carry(s)

(* while (sum >> 16) sum = (sum & 0xFFFF) + (sum >> 16)                    *)
Loop ==
  /\ Carry(sum) # 0
  /\ sum' = Fold(sum)
  /\ UNCHANGED words

Spec == Init /\ [][Loop]_sumVars

Complement(s) == (Word - 1) - Low(s)   \* ~s, in 16 bits

(* The first version: one fold, then the carry is added once more.         *)
FoldedOnce(s) == Complement(Fold(s))                             \* mutant
FirstVersion(s) ==
  LET once == Fold(s) IN Complement(once + Carry(once))
-----------------------------------------------------------------------------
(* When the loop ends, both versions give the same checksum, and the words *)
(* and the checksum together fold to sixteen ones, which is what a host    *)
(* looks for in a header (code/cldp_server.c, line 54; temp, line 38).     *)
VersionsAgree == Carry(sum) = 0 =>
  /\ Complement(sum) = FirstVersion(words)
  /\ Complement(sum) + sum = Word - 1
=============================================================================
