------------------------------ MODULE Builtins ------------------------------
(***************************************************************************)
(* What the code's sorted(), a running sum, appending to a buffer and an   *)
(* assignment to a dictionary come to.                                     *)
(***************************************************************************)
EXTENDS Naturals, Sequences, FiniteSets

(* sorted() of a set of numbers: before the k-th element come k - 1.       *)
InOrder(S) ==
  [k \in 1..Cardinality(S) |->
     CHOOSE e \in S : Cardinality({d \in S : d < e}) = k - 1]

(* A running sum: what f adds up to before n.                              *)
SumBefore(f, n) ==
  LET sum[k \in 0..n] == IF k = 0 THEN 0 ELSE sum[k - 1] + f[k - 1]
  IN  sum[n]

(* A buffer to which the first n members of s were appended.               *)
Joined(s, n) ==
  LET joined[k \in 0..n] == IF k = 0 THEN <<>> ELSE joined[k - 1] \o s[k]
  IN  joined[n]

(* d[x] = y                                                                *)
Put(d, x, y) == [z \in DOMAIN d \cup {x} |-> IF z = x THEN y ELSE d[z]]
=============================================================================
