------------------------------- MODULE Words -------------------------------
(***************************************************************************)
(* Machine words of W bits and sets of words.  The program works over 256  *)
(* bits and keeps a set of words as sorted ranges (IntervalSet); the       *)
(* modules that reason about contracts use the sets those ranges stand     *)
(* for, at a small W.  A byte is one bit here: what matters about bytes    *)
(* is only that a type may be narrower than the word.  Also the            *)
(* expressions over words, as trees.                                       *)
(***************************************************************************)
EXTENDS Integers, FiniteSets, FiniteSetsExt, Sequences

CONSTANT W

ASSUME WAssumption == W \in Nat /\ W >= 2

MaxWord == 2^W - 1
Word == 0 .. MaxWord
SignBit == 2^(W - 1)

(* The one-sided sets a comparison with the literal k names.               *)
Le(k) == 0 .. k
Lt(k) == 0 .. k - 1
Ge(k) == k .. MaxWord
Gt(k) == k + 1 .. MaxWord
NeTo(k) == Word \ {k}

(* Words whose two's complement reading is below, or above, that of k.     *)
SignedLt(k) == IF k >= SignBit THEN SignBit .. k - 1 ELSE Lt(k) \cup Ge(SignBit)
SignedGt(k) == Word \ (SignedLt(k) \cup {k})

(* The words an intN admits.                                               *)
SignedBits(bits) ==
    LET top == 2^(bits - 1) - 1
    IN  IF bits >= W THEN Word ELSE Le(top) \cup Ge(MaxWord - top)

UnsignedBits(bits) == IF bits >= W THEN Word ELSE Le(2^bits - 1)

Lo(S) == Min(S)
Hi(S) == Max(S)

Single(S) == Cardinality(S) = 1

(* A result that may be missing (an Option, or an Err whose text is not     *)
(* looked at) is a set of at most one element.                             *)
Nothing == {}
Some(x) == {x}
Get(o) == CHOOSE x \in o : TRUE
OrElse(o, other) == IF o # Nothing THEN o ELSE other

(* What a type admits (domain_of).  A type is a pair of its kind and its   *)
(* width; Nothing is the refusal of the kinds that are no set of ranges.   *)
DomainOf(type) ==
    CASE type[1] = "bool"    -> Some(Le(1))
      [] type[1] = "address" -> Some(UnsignedBits(type[2]))
      [] type[1] = "uint" /\ type[2] \in 1 .. W -> Some(UnsignedBits(type[2]))
      [] type[1] = "int" /\ type[2] \in 1 .. W -> Some(SignedBits(type[2]))
      [] type[1] = "bytes32" -> Some(Word)
      [] OTHER -> Nothing

(* A storage slot also knows its contract's enums (<<"enum", n>> has n     *)
(* members) and the bound solc guards a dynamic array's length with.       *)
DomainIn(type) ==
    CASE type[1] = "array" -> Some(Le(type[2]))
      [] type[1] = "enum" /\ type[2] > 0 -> Some(Le(type[2] - 1))
      [] OTHER -> DomainOf(type)

(* An argument of a kind that is no set of ranges takes the whole word.    *)
DomainOrWholeWord(type) ==
    IF DomainOf(type) = Nothing THEN Word ELSE Get(DomainOf(type))

-----------------------------------------------------------------------------
(* Yul expressions (ast.rs): a literal, an identifier, or a call with its  *)
(* arguments.  Rendering one to text is injective on these, so the         *)
(* expression stands for its text wherever the program compares or orders  *)
(* rendered terms.                                                         *)
Lit(n) == <<"lit", n>>
Id(x) == <<"id", x>>
Call(f, args) == <<"call", f, args>>
Call1(f, a) == Call(f, <<a>>)
Call2(f, a, b) == Call(f, <<a, b>>)

IsLit(e) == e[1] = "lit"
IsId(e) == e[1] = "id"
IsCall(e) == e[1] = "call"
IsCallOf(e, f, n) == IsCall(e) /\ e[2] = f /\ Len(e[3]) = n
=============================================================================
