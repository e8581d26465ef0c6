----------------------------- MODULE IntervalSet -----------------------------
(***************************************************************************)
(* Sets of words as the program keeps them (interval.rs): a sequence of    *)
(* closed ranges <<lo, hi>>, sorted, disjoint and never adjacent.  Two     *)
(* sets are compared by their ranges, so a set must have one form only;    *)
(* intersect and complement build theirs without normalising again.        *)
(*                                                                         *)
(* Each loop of the source is an operator, its body, and a function of the *)
(* number of times the body has run.                                       *)
(***************************************************************************)
EXTENDS Integers, Sequences

CONSTANT Top        \* the largest word

ASSUME TopAssumption == Top \in Nat \ {0}

Empty == <<>>
Full == <<<<0, Top>>>>
Between(lo, hi) == IF lo > hi THEN Empty ELSE <<<<lo, hi>>>>

Members(s) == UNION {s[i][1] .. s[i][2] : i \in DOMAIN s}

(* Sorted, no range empty, and at least one word between two ranges.       *)
Canonical(s) ==
    /\ \A i \in 1 .. Len(s) : s[i][1] <= s[i][2]
    /\ \A i \in 1 .. Len(s) - 1 : s[i][2] + 1 < s[i + 1][1]

(* normalize drops the empty ranges and sorts the others: by insertion,    *)
(* each before the first one above it.                                     *)
Before(a, b) == a[1] < b[1] \/ (a[1] = b[1] /\ a[2] < b[2])
Insert(s, r) ==
    LET stops(p) == p = Len(s) \/ Before(r, s[p + 1])
        at == CHOOSE p \in 0 .. Len(s) : stops(p) /\ \A q \in 0 .. p - 1 : ~stops(q)
    IN  [i \in 1 .. Len(s) + 1 |->
            CASE i <= at -> s[i] [] i = at + 1 -> r [] OTHER -> s[i - 1]]
Sorting(raw, out, k) == IF raw[k][1] > raw[k][2] THEN out ELSE Insert(out, raw[k])
Sorted(raw) ==
    LET f[k \in 0 .. Len(raw)] == IF k = 0 THEN Empty ELSE Sorting(raw, f[k - 1], k)
    IN  f[Len(raw)]

(* checked_add: there is no word above Top.                                *)
Follows(hi, lo) == hi < Top /\ hi + 1 = lo

(* Fault: a range that only touches the last one is kept apart.            *)
TouchesOverlapOnly(last, r) == r[1] <= last[2]

Touches(last, r) == r[1] <= last[2] \/ Follows(last[2], r[1])

(* Then it merges each range with the last one where they touch.           *)
Absorb(out, r) ==
    LET last == out[Len(out)]
    IN  IF out # Empty /\ Touches(last, r)
        THEN [out EXCEPT ![Len(out)] =
                 <<last[1], IF r[2] > last[2] THEN r[2] ELSE last[2]>>]
        ELSE Append(out, r)
Merged(s) ==
    LET f[k \in 0 .. Len(s)] == IF k = 0 THEN Empty ELSE Absorb(f[k - 1], s[k])
    IN  f[Len(s)]

Normalize(raw) == Merged(Sorted(raw))

Join(s, t) == Normalize(s \o t)

(* intersect walks both sequences; i and j are where it stands.            *)
Meeting(s, t, at) ==
    LET a == s[at.i]
        b == t[at.j]
        lo == IF a[1] > b[1] THEN a[1] ELSE b[1]
        hi == IF a[2] < b[2] THEN a[2] ELSE b[2]
        first == a[2] < b[2]
    IN  IF at.i > Len(s) \/ at.j > Len(t) THEN at
        ELSE [i |-> IF first THEN at.i + 1 ELSE at.i,
              j |-> IF first THEN at.j ELSE at.j + 1,
              out |-> at.out \o Between(lo, hi)]
Meet(s, t) ==
    LET start == [i |-> 1, j |-> 1, out |-> Empty]
        f[k \in 0 .. Len(s) + Len(t)] ==
            IF k = 0 THEN start ELSE Meeting(s, t, f[k - 1])
    IN  f[Len(s) + Len(t)].out

(* Fault: the word after the last one is zero.                             *)
CursorWrapping(s, i) == IF i = 1 THEN 0 ELSE (s[i - 1][2] + 1) % (Top + 1)

(* Where the i-th gap starts.                                              *)
Cursor(s, i) == IF i = 1 THEN 0 ELSE s[i - 1][2] + 1

(* The gaps before, between and after the ranges; none after Top.          *)
Gaps(s, out, i) ==
    out \o Between(Cursor(s, i), IF i > Len(s) THEN Top ELSE s[i][1] - 1)
Complement(s) ==
    LET f[k \in 0 .. Len(s) + 1] == IF k = 0 THEN Empty ELSE Gaps(s, f[k - 1], k)
    IN  f[Len(s) + 1]

Difference(s, t) == Meet(s, Complement(t))
SubsetOf(s, t) == Difference(s, t) = Empty
DisjointFrom(s, t) == Meet(s, t) = Empty

(* The one canonical form of a set of words.                               *)
RangesOf(S) ==
    Normalize([i \in 1 .. Top + 1 |-> IF i - 1 \in S THEN <<i - 1, i - 1>> ELSE <<1, 0>>])
=============================================================================
