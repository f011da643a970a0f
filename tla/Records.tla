------------------------------- MODULE Records -------------------------------
(***************************************************************************)
(* What the configuration modules of eth2077-types share.  A list is a     *)
(* sequence of records, an error list the set of the errors pushed.  A     *)
(* text is a pair of what trim() leaves (0 for nothing) and its padding.   *)
(***************************************************************************)
EXTENDS Integers, SequencesExt

trim(text)     == text[1]
is_empty(text) == trim(text) = 0

When(condition, error) == IF condition THEN {error} ELSE {}

Count(list, P(_)) == Cardinality({i \in DOMAIN list : P(list[i])})

Total(list, amount(_)) == FoldLeft(LAMBDA sum, r : sum + amount(r), 0, list)

Column(list, field) == [i \in DOMAIN list |-> list[i][field]]

(* The positions of values that an earlier position has. *)
Repeats(list) == {i \in DOMAIN list : \E j \in 1 .. i - 1 : list[j] = list[i]}

(* What is hashed of a list that is sorted first: the values, how often. *)
Sorted(list) == [v \in ToSet(list) |-> Cardinality({i \in DOMAIN list : list[i] = v})]

(* A stable sort: the keys in their order, those of equal keys as listed. *)
ByKey(list, key(_)) ==
    [k \in {key(list[i]) : i \in DOMAIN list} |-> SelectSeq(list, LAMBDA x : key(x) = k)]
=============================================================================
