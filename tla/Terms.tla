------------------------------- MODULE Terms -------------------------------
(***************************************************************************)
(* The canonical form of a condition (relation.rs) and what order facts    *)
(* between terms settle together (order.rs).                               *)
(*                                                                         *)
(* A term is an expression whose storage reads are named: <<"storage", l,  *)
(* n>> is variable l as it stood after n writes, <<"cell", l, n, keys>> a  *)
(* cell of mapping l, <<"field", l, n, keys, i>> a struct word in a cell,  *)
(* <<"raw", s, n>> a slot the layout does not name.  The version n keeps a *)
(* term honest about when it was read.                                     *)
(*                                                                         *)
(* names is a record: slots, the labels of literal slots; immutables;      *)
(* versions, writes so far by label; raw, writes so far by unnamed slot.   *)
(***************************************************************************)
EXTENDS Yul, Order

EncodingWrappers == {"identity", "cleanup_t", "prepare_store_t", "convert_t"}
StorageReads == {"sload", "read_from_storage"}
StorageIdioms == StorageReads \cup
                 {"mapping_index_access", "array_length", "convert_array"}

CountOf(counts, x) == IF x \in DOMAIN counts THEN counts[x] ELSE 0
Bump(counts, x) == x :> CountOf(counts, x) + 1 @@ counts

(* The wrappers solc puts around a value that already has its type, and    *)
(* the masks they inline to, are taken off everywhere (typed-domains).     *)
RECURSIVE StripTerm(_)
StripTerm(e) ==
    CASE ~IsCall(e) -> e
      [] Len(e[3]) = 1 /\ e[2] \in EncodingWrappers -> StripTerm(e[3][1])
      [] /\ IsCallOf(e, "and", 2) /\ IsLit(e[3][2])
         /\ e[3][2][2] > 0 /\ (e[3][2][2] & (e[3][2][2] + 1)) = 0
           -> StripTerm(e[3][1])
      [] OTHER -> Call(e[2], MapArgs(StripTerm, e))

(* A chain of mapping accesses down to a literal slot, with its keys.      *)
RECURSIVE MappingChain(_)
MappingChain(e) ==
    CASE IsLit(e) -> Some([slot |-> e[2], keys |-> <<>>])
      [] IsCallOf(e, "mapping", 2)
           -> {[c EXCEPT !.keys = Append(c.keys, e[3][2])] : c \in MappingChain(e[3][1])}
      [] OTHER -> Nothing

(* The declared slot a term's cells belong to: Nothing for a bare slot.    *)
BaseSlot(e) == {c.slot : c \in {d \in MappingChain(e) : d.keys # <<>>}}

NamedChain(e, names) ==
    {c \in MappingChain(e) : c.keys # <<>> /\ c.slot \in DOMAIN names.slots}

(* A word of a struct within a cell: the cell's slot plus a literal.       *)
FieldOf(e, names) ==
    IF ~IsCallOf(e, "add", 2) THEN Nothing
    ELSE UNION {{<<"field", names.slots[c.slot],
                   CountOf(names.versions, names.slots[c.slot]), c.keys, e[3][3 - i][2]>>
                    : c \in NamedChain(e[3][i], names)}
                : i \in {j \in 1 .. 2 : IsLit(e[3][3 - j])}}

ReadTerm(a, names) ==
    LET version(l) == CountOf(names.versions, l)
    IN  CASE IsLit(a) /\ a[2] \in DOMAIN names.slots
               -> <<"storage", names.slots[a[2]], version(names.slots[a[2]])>>
          [] IsLit(a) /\ CountOf(names.raw, a[2]) > 0
               -> <<"raw", a[2], CountOf(names.raw, a[2])>>
          [] FieldOf(a, names) # Nothing -> Get(FieldOf(a, names))
          [] NamedChain(a, names) # Nothing
               -> LET c == Get(NamedChain(a, names))
                  IN  <<"cell", names.slots[c.slot], version(names.slots[c.slot]), c.keys>>
          [] OTHER -> Call1("sload", a)

RECURSIVE NormalTerm(_, _)
NormalTerm(e, names) ==
    IF ~IsCall(e) THEN e
    ELSE LET normal(a) == NormalTerm(a, names)
             args == MapArgs(normal, e)
         IN  CASE e[2] \in StorageReads \cup {"array_length"} /\ Len(args) = 1
                    -> ReadTerm(args[1], names)
               [] e[2] = "mapping_index_access" /\ Len(args) = 2
                    -> Call("mapping", args)
               [] e[2] = "convert_array" /\ Len(args) = 1 -> args[1]
               [] /\ e[2] = "loadimmutable" /\ Len(args) = 1
                  /\ args[1][2] \in DOMAIN names.immutables
                    -> Call1("immutable", Id(names.immutables[args[1][2]]))
               [] OTHER -> Call(e[2], args)

(* The canonical term of an expression whose locals stand for `terms'.     *)
Term(e, terms, names) ==
    NormalTerm(StripTerm(FoldFixpoint(Substitute(e, terms))), names)

-----------------------------------------------------------------------------
(* sub(a, b) <= a is solc's underflow check, and says b <= a.              *)
IsUnderflowCheck(f, x, y) ==
    f = "gt" /\ IsCallOf(x, "sub", 2) /\ StripTerm(x[3][1]) = y

(* The relation a condition is, and whether it is that or its negation; a  *)
(* condition that is no comparison is "not zero".                          *)
RECURSIVE Rel(_, _)
Rel(e, negated) ==
    LET nonzero == Relates(EqKey(e, Lit(0)), negated)
        a == StripTerm(e[3][1])
        b == StripTerm(e[3][2])
    IN  CASE ~IsCall(e) -> nonzero
          [] IsCallOf(e, "iszero", 1) -> Rel(e[3][1], ~negated)
          [] Len(e[3]) # 2 -> nonzero
          [] IsUnderflowCheck(e[2], a, b)
               -> LET y == StripTerm(a[3][2])
                  IN  Relates(IF negated THEN LeKey(y, b) ELSE LtKey(b, y), TRUE)
          [] e[2] = "lt" -> Relates(IF negated THEN LeKey(b, a) ELSE LtKey(a, b), TRUE)
          [] e[2] = "gt" -> Relates(IF negated THEN LeKey(a, b) ELSE LtKey(b, a), TRUE)
          [] e[2] = "eq" -> Relates(EqKey(a, b), ~negated)
          [] OTHER -> nonzero

RelationOf(cond, terms, names) == Rel(Term(cond, terms, names), FALSE)

-----------------------------------------------------------------------------
(* Terms that mention named storage: the variable may be narrower than     *)
(* its word.                                                               *)
RECURSIVE MentionsStorage(_)
MentionsStorage(t) ==
    CASE t[1] \in {"storage", "cell", "field"} -> TRUE
      [] t[1] = "call" -> \E i \in 1 .. Len(t[3]) : MentionsStorage(t[3][i])
      [] OTHER -> FALSE
=============================================================================
