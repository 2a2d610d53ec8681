------------------------------ MODULE HashSlot ------------------------------
(***************************************************************************)
(* ClusterConnection::hash_slot (src/src/network/cluster_connection.rs):  *)
(* the slot of a key is CRC16/XMODEM of its hash tag, or of the whole key, *)
(* modulo 16384.  Keys are byte strings over a small alphabet holding the *)
(* two braces; every key up to MaxKeyLen bytes is an initial state, and    *)
(* the one action is the computation of its slot.                          *)
(***************************************************************************)
EXTENDS Integers, Sequences, SequencesExt, FiniteSets, Bitwise

CONSTANTS
  Alphabet,   \* the bytes keys are made of, including "{" and "}"
  MaxKeyLen   \* the longest key

\* ASCII codes of the alphabet's bytes
Ascii == ("a" :> 97) @@ ("b" :> 98) @@ ("{" :> 123) @@ ("}" :> 125)

Keys == UNION {[1..n -> Alphabet] : n \in 0..MaxKeyLen}

NoSlot == -1

-----------------------------------------------------------------------------
(* CRC16/XMODEM (the crc16 crate): polynomial 0x1021, initial value 0, no *)
(* reflection, most significant bit first.                                 *)

RECURSIVE CrcShift(_, _)
CrcShift(crc, n) ==
  IF n = 0 THEN crc
  ELSE LET shifted == (crc * 2) % 65536 IN
       CrcShift(IF crc >= 32768 THEN shifted ^^ 4129 ELSE shifted, n - 1)

Crc16(bytes) ==
  FoldLeft(LAMBDA crc, b : CrcShift(crc ^^ (Ascii[b] * 256), 8), 0, bytes)

-----------------------------------------------------------------------------
(* hash_slot.  Positions are 1-based; the code's s and e are 0-based and  *)
(* e is relative to s + 1.                                                  *)

\* key.find(c) from position `from` on: the first index holding c, or 0
FindFrom(key, c, from) ==
  LET is == {i \in from..Len(key) : key[i] = c} IN
  IF is = {} THEN 0 ELSE Min(is)

\* Mutant: the empty tag is not checked for (e != 0 dropped).
HashTagAllowEmpty(key) ==
  LET s == FindFrom(key, "{", 1)
      e == IF s = 0 THEN 0 ELSE FindFrom(key, "}", s + 1)
  IN  IF s # 0 /\ e # 0 THEN SubSeq(key, s + 1, e - 1) ELSE key

\* the key hash_slot hashes: the bytes between the first "{" and the next
\* "}" when there are some, else the whole key
HashTag(key) ==
  LET s == FindFrom(key, "{", 1)
      e == IF s = 0 THEN 0 ELSE FindFrom(key, "}", s + 1)
  IN  IF s # 0 /\ e # 0 /\ e # s + 1 THEN SubSeq(key, s + 1, e - 1) ELSE key

HashSlotOf(key) == Crc16(HashTag(key)) % 16384

-----------------------------------------------------------------------------

VARIABLES
  key,   \* the key given to hash_slot
  slot   \* its result, NoSlot until computed

vars == <<key, slot>>

Init == key \in Keys /\ slot = NoSlot

\* hash_slot(key)
HashSlot == slot = NoSlot /\ slot' = HashSlotOf(key) /\ UNCHANGED key

\* the slot is known; nothing more happens to this key
Done == slot # NoSlot /\ UNCHANGED vars

Next == HashSlot \/ Done

Spec == Init /\ [][Next]_vars

-----------------------------------------------------------------------------
(* The rule of spec section 6 ("Slot computation"), stated declaratively: *)
(* the effective key is the interior of the pair made of the first "{"   *)
(* and the next "}" when that interior is non-empty, else the whole key.  *)

FirstPair(k) ==
  {ij \in (DOMAIN k) \X (DOMAIN k) :
     /\ ij[1] < ij[2]
     /\ k[ij[1]] = "{" /\ k[ij[2]] = "}"
     /\ \A m \in 1..ij[1] - 1 : k[m] # "{"
     /\ \A m \in ij[1] + 1..ij[2] - 1 : k[m] # "}"}

EffectiveKey(k) ==
  IF \E ij \in FirstPair(k) : ij[2] > ij[1] + 1
  THEN LET ij == CHOOSE p \in FirstPair(k) : TRUE IN SubSeq(k, ij[1] + 1, ij[2] - 1)
  ELSE k

-----------------------------------------------------------------------------
(* Properties.                                                             *)

\* The slot hash_slot computes for any key is CRC16 of the key's effective
\* key of spec section 6: keys sharing a hash tag land on one slot, braces
\* that do not enclose a non-empty first pair are hashed as plain bytes.
SlotFollowsHashTagRule ==
  slot # NoSlot => slot = Crc16(EffectiveKey(key)) % 16384

=============================================================================
