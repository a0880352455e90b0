------------------------------- MODULE Target -------------------------------
(***************************************************************************)
(* domain/target.av with the compact form of domain/block.av and           *)
(* domain/chainwork.av: what bits the next Header must carry, what target  *)
(* they name and how much work that is.                                    *)
(*                                                                         *)
(* The code's numbers are parameters: a byte holds Byte values and not     *)
(* 256, a mantissa Digits of them and not three, a window Interval Headers *)
(* and not 2016.  The code's Int has no width, so nothing wraps.           *)
(***************************************************************************)
EXTENDS Integers

CONSTANTS
  Byte,         \* how many values a byte of the compact form has (256)
  Digits,       \* bytes of mantissa (3)
  MaxSize,      \* bytes of a target (32)
  Interval,     \* Headers in a difficulty window (2016)
  Timespan,     \* what a window should last (1209600 s)
  Late,         \* a gap after which the easiest target may be used (1200 s)
  Limit,        \* Limit[n]: the easiest bits Network n admits
  Network       \* the Networks: "Mainnet", "Testnet", "Regtest"
                \* (Signet keeps Mainnet's rules under its own Limit)

ASSUME TargetShape ==
  /\ Byte \in Nat \ {0, 1} /\ Byte % 2 = 0
  /\ Digits \in Nat \ {0, 1} /\ MaxSize \in Nat /\ MaxSize >= Digits
  /\ Interval \in Nat \ {0, 1}
  /\ Timespan \in Nat \ {0} /\ Timespan % 4 = 0
  /\ Late \in Nat
  /\ Network \subseteq {"Mainnet", "Testnet", "Regtest"}
  /\ Limit \in [Network -> Nat]

Less(x, y) == IF x < y THEN x ELSE y
More(x, y) == IF x < y THEN y ELSE x

(****************************** the compact form *****************************)
(* powerOf(256, n): how many values n bytes have.                          *)
Power[n \in Nat] == IF n = 0 THEN 1 ELSE Byte * Power[n - 1]
Mantissas == Power[Digits]
SizeOf(bits) == bits \div Mantissas
WordOf(bits) == bits % Mantissas
SignBit == Mantissas \div 2

(* targetOf, scaled *)
TargetOf(bits) ==
  IF SizeOf(bits) >= Digits
    THEN WordOf(bits) * Power[SizeOf(bits) - Digits]
    ELSE WordOf(bits) \div Power[Digits - SizeOf(bits)]

(* byteLength: the fewest bytes the target fits in *)
ByteLength(target) ==
  CHOOSE n \in 0 .. MaxSize + 1 :
    /\ target < Power[n]
    /\ n > 0 => target >= Power[n - 1]

(* mantissaOf *)
MantissaOf(target, size) ==
  IF size <= Digits THEN target * Power[Digits - size]
                    ELSE target \div Power[size - Digits]

(* Slip: the sign bit is left in the mantissa.                             *)
Normalised_Signed(mantissa, size) == mantissa + size * Mantissas

(* normalised: a mantissa whose top bit is set would read as negative, so  *)
(* it moves down a byte.                                                   *)
Normalised(mantissa, size) ==
  IF mantissa >= SignBit
    THEN mantissa \div Byte + (size + 1) * Mantissas
    ELSE mantissa + size * Mantissas

CompactOf(target) ==
  Normalised(MantissaOf(target, ByteLength(target)), ByteLength(target))

(* overflowing of domain/block.av: a mantissa shifted past MaxSize bytes.  *)
Overflowing(bits) ==
  /\ WordOf(bits) % SignBit # 0
  /\ \E n \in 1 .. Digits :
       /\ WordOf(bits) % SignBit >= Power[n - 1]
       /\ SizeOf(bits) > MaxSize + Digits - n

CompactFault(bits) == WordOf(bits) >= SignBit \/ Overflowing(bits)

(* limitBits: bits a Header may carry, of MaxSize bytes at most.           *)
ASSUME LimitShape ==
  \A n \in Network : ~ CompactFault(Limit[n]) /\ SizeOf(Limit[n]) <= MaxSize

(* meetsTarget: a Block Id is a number no larger than the target.          *)
MeetsTarget(hash, bits) == ~ CompactFault(bits) /\ hash <= TargetOf(bits)

(************************************ work ***********************************)
(* Slip: a size that only short mantissas may have is refused to all.      *)
Usable_Short(bits) ==
  WordOf(bits) < SignBit /\ SizeOf(bits) <= MaxSize /\ TargetOf(bits) # 0

(* usable, perTarget, ofBits: what one Header of these bits proves.  Its   *)
(* own overflowing asks the size alone (domain/chainwork.av 161).          *)
Usable(bits) ==
  /\ WordOf(bits) < SignBit
  /\ SizeOf(bits) <= MaxSize + Digits - 1
  /\ TargetOf(bits) # 0

WorkOf(bits) ==
  IF Usable(bits) THEN Power[MaxSize] \div (TargetOf(bits) + 1) ELSE 0

(********************************* the rule **********************************)
(* ruleFor, atBoundary, between *)
RuleFor(network, height) ==
  IF height % Interval = 0
    THEN IF network = "Regtest" THEN "same" ELSE "retarget"
    ELSE IF network = "Mainnet" THEN "same" ELSE "minOrLast"

(* clamped: a window's span, between a quarter and four times what it      *)
(* should be.                                                              *)
Clamped(span) == More(Timespan \div 4, Less(4 * Timespan, span))

(* retargeted *)
Retargeted(network, parentBits, firstTime, parentTime) ==
  LET grown == (TargetOf(parentBits) * Clamped(parentTime - firstTime))
                 \div Timespan
  IN CompactOf(Less(grown, TargetOf(Limit[network])))

(* expectedBits, minOrLast *)
ExpectedBits(network, rule, lineage, time) ==
  CASE rule = "same" -> lineage.parentBits
    [] rule = "retarget" -> Retargeted(network, lineage.parentBits,
                                       lineage.firstTime, lineage.parentTime)
    [] rule = "minOrLast" -> IF time > lineage.parentTime + Late
                               THEN Limit[network] ELSE lineage.lastBits
=============================================================================
