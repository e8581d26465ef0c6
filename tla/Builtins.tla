------------------------------ MODULE Builtins ------------------------------
(***************************************************************************)
(* Yul's pure builtins on words of W bits, which the folder (fold.rs) and  *)
(* the concrete semantics apply.  Shift amounts come first.                *)
(***************************************************************************)
EXTENDS Words, Bitwise

Shl(x, y) == IF x >= W THEN 0 ELSE (y * 2^x) % 2^W
Shr(x, y) == IF x >= W THEN 0 ELSE y \div 2^x
BitAnd(x, y) == x & y
Truth(b) == IF b THEN 1 ELSE 0
AsSigned(x) == IF x >= SignBit THEN x - 2^W ELSE x

SignExtend(byte, x) ==
    LET low == x % 2^(byte + 1)
    IN  IF byte >= W - 1 THEN x
        ELSE IF low >= 2^byte THEN low + 2^W - 2^(byte + 1) ELSE low

Builtins2 == {"add", "sub", "mul", "div", "mod", "and", "or", "xor", "shl",
              "shr", "lt", "gt", "eq", "slt", "sgt", "signextend"}
Builtins1 == {"not", "iszero"}

Apply1(op, x) == IF op = "not" THEN MaxWord - x ELSE Truth(x = 0)

Apply2(op, x, y) ==
    CASE op = "add" -> (x + y) % 2^W
      [] op = "sub" -> (x - y) % 2^W
      [] op = "mul" -> (x * y) % 2^W
      [] op = "div" -> IF y = 0 THEN 0 ELSE x \div y
      [] op = "mod" -> IF y = 0 THEN 0 ELSE x % y
      [] op = "and" -> BitAnd(x, y)
      [] op = "or"  -> x | y
      [] op = "xor" -> x ^^ y
      [] op = "shl" -> Shl(x, y)
      [] op = "shr" -> Shr(x, y)
      [] op = "lt"  -> Truth(x < y)
      [] op = "gt"  -> Truth(x > y)
      [] op = "eq"  -> Truth(x = y)
      [] op = "slt" -> Truth(AsSigned(x) < AsSigned(y))
      [] op = "sgt" -> Truth(AsSigned(x) > AsSigned(y))
      [] op = "signextend" -> SignExtend(x, y)
=============================================================================
