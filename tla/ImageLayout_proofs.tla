------------------------- MODULE ImageLayout_proofs -------------------------
(***************************************************************************)
(* Proofs about the block layout (ImageLayout), for any number of inodes,  *)
(* any sizes and any number of pointers in an inode or an indirect block.  *)
(***************************************************************************)
EXTENDS ImageLayout, Lemmas, FiniteSetTheorems, SequenceTheorems, TLAPS

-----------------------------------------------------------------------------
(* The shape of one inode                                                  *)

DirectOf(n) == Least(n, Direct)
SimpleOf(n) == Least(n - DirectOf(n), SigsPerBlock)
RestOf(n) == n - DirectOf(n) - SimpleOf(n)
GroupsOf(n) == CeilDiv(RestOf(n), SigsPerBlock)
InGroupOf(n, j) == Least(RestOf(n) - (j - 1) * SigsPerBlock, SigsPerBlock)

LEMMA Sizes ==
  ASSUME NEW n \in Nat \ {0}
  PROVE  /\ DirectOf(n) \in Nat \ {0} /\ SimpleOf(n) \in Nat /\ RestOf(n) \in Nat
         /\ n = DirectOf(n) + SimpleOf(n) + RestOf(n)
         /\ n > DirectOf(n) <=> SimpleOf(n) > 0
         /\ n > DirectOf(n) <=> n > Direct
         /\ RestOf(n) > 0 => SimpleOf(n) > 0
         /\ SimpleOf(n) <= SigsPerBlock
BY LayoutAssumption DEF DirectOf, SimpleOf, RestOf, Least

LEMMA Groups ==
  ASSUME NEW n \in Nat \ {0}
  PROVE  /\ GroupsOf(n) \in Nat
         /\ RestOf(n) = 0 => GroupsOf(n) = 0
         /\ RestOf(n) > 0 =>
              /\ GroupsOf(n) \in Nat \ {0}
              /\ (GroupsOf(n) - 1) * SigsPerBlock < RestOf(n)
              /\ RestOf(n) <= GroupsOf(n) * SigsPerBlock
         /\ \A j \in 1..GroupsOf(n) :
              /\ InGroupOf(n, j) \in 1..SigsPerBlock
              /\ j < GroupsOf(n) => InGroupOf(n, j) = SigsPerBlock
         /\ RestOf(n) > 0 => 
              InGroupOf(n, GroupsOf(n)) = RestOf(n) - (GroupsOf(n) - 1) * SigsPerBlock
<1>1. PICK r \in Nat, s \in Nat \ {0} : r = RestOf(n) /\ s = SigsPerBlock
  BY Sizes, LayoutAssumption
<1>2. PICK a \in Nat : a = r + s - 1
  BY <1>1
<1>3. PICK g \in Nat, m \in 0..(s - 1) : g = a \div s /\ a = g * s + m
  BY <1>2, DivMod
<1>4. GroupsOf(n) = g
  BY <1>1, <1>2, <1>3 DEF GroupsOf, CeilDiv
<1>5. PICK t \in Nat : t = g * s
  BY <1>3
<1>6. r + s - 1 = t + m
  BY <1>2, <1>3, <1>5
<1>7. r = 0 => g = 0
  <2> SUFFICES ASSUME r = 0, g >= 1 PROVE FALSE
    BY <1>3
  <2>1. t >= s
    BY <1>5
  <2> QED BY <1>6, <2>1
<1>8. r > 0 => g # 0 /\ (g - 1) * s < r /\ r <= g * s /\ (g - 1) * s = t - s
  <2> SUFFICES ASSUME r > 0 PROVE g # 0 /\ (g - 1) * s < r /\ r <= g * s /\ (g - 1) * s = t - s
    OBVIOUS
  <2>1. t > 0 /\ t - s < r /\ r <= t
    BY <1>6
  <2>2. g # 0
    BY <1>5, <2>1
  <2>3. (g - 1) * s = t - s
    BY <1>5
  <2> QED BY <2>1, <2>2, <2>3, <1>5
<1>9. ASSUME NEW j \in 1..g
      PROVE  InGroupOf(n, j) \in 1..s /\ (j < g => InGroupOf(n, j) = s)
  <2>0. r > 0
    BY <1>7
  <2>1. PICK u \in Nat : u = (j - 1) * s
    OBVIOUS
  <2>2. InGroupOf(n, j) = IF r - u <= s THEN r - u ELSE s
    BY <1>1, <2>1 DEF InGroupOf, Least
  <2>3. u <= (g - 1) * s
    BY <2>1
  <2>4. u < r
    <3>1. PICK w \in Nat : w = (g - 1) * s
      OBVIOUS
    <3> QED BY <1>8, <2>0, <2>3, <3>1
  <2>5. j < g => r - u > s
    <3> SUFFICES ASSUME j < g PROVE r - u > s
      OBVIOUS
    <3>1. u + s = j * s
      BY <2>1
    <3>2. j * s <= (g - 1) * s
      OBVIOUS
    <3>3. PICK w \in Nat, v \in Nat : w = (g - 1) * s /\ v = j * s
      OBVIOUS
    <3> QED BY <1>8, <2>0, <3>1, <3>2, <3>3
  <2> QED BY <2>2, <2>4, <2>5
<1>10. r > 0 => InGroupOf(n, g) = r - (g - 1) * s
  <2> SUFFICES ASSUME r > 0 PROVE InGroupOf(n, g) = r - (g - 1) * s
    OBVIOUS
  <2>1. PICK w \in Nat : w = (g - 1) * s
    BY <1>8
  <2>2. r - w <= s
    BY <1>8, <1>5, <2>1
  <2>3. InGroupOf(n, g) = IF r - w <= s THEN r - w ELSE s
    BY <1>1, <2>1 DEF InGroupOf, Least
  <2> QED BY <2>1, <2>2, <2>3
<1> QED BY <1>1, <1>4, <1>7, <1>8, <1>9, <1>10

Ib0(n, b) == b + DirectOf(n)
Ib1(n, b) == b + DirectOf(n) + SimpleOf(n) + 1
GroupAt(n, b, j) == Ib1(n, b) + 1 + (j - 1) * (SigsPerBlock + 1)

(* The runs of blocks, as sequences.                                       *)
DirectRun(n, b) == [k \in 1..DirectOf(n) |-> b + k - 1]
SimpleRun(n, b) == [k \in 1..SimpleOf(n) |-> Ib0(n, b) + k]
GroupRun(n, b, j) == [k \in 1..InGroupOf(n, j) |-> GroupAt(n, b, j) + k]
GroupList(n, b) == [j \in 1..GroupsOf(n) |-> GroupAt(n, b, j)]
LeafGroups(n, b) == [j \in 1..GroupsOf(n) |-> GroupRun(n, b, j)]

LEMMA PlaceIs ==
  ASSUME NEW n, NEW b
  PROVE  /\ Place(n, b).db = DirectRun(n, b)
         /\ Place(n, b).ib = <<IF n > DirectOf(n) THEN Ib0(n, b) ELSE 0,
                               IF RestOf(n) > 0 THEN Ib1(n, b) ELSE 0>>
         /\ Place(n, b).simple = SimpleRun(n, b)
         /\ Place(n, b).groups = GroupList(n, b)
         /\ Place(n, b).leaves = LeafGroups(n, b)
         /\ Place(n, b).next = b + n + GroupsOf(n) + (IF n > DirectOf(n) THEN 1 ELSE 0)
                                     + (IF RestOf(n) > 0 THEN 1 ELSE 0)
BY DEF Place, DirectOf, SimpleOf, RestOf, GroupsOf, InGroupOf, Ib0, Ib1, GroupAt,
       DirectRun, SimpleRun, GroupRun, GroupList, LeafGroups

(* The indirect blocks of an inode of n blocks that starts at block b.     *)
Indirect(n, b) ==
  {x \in {Ib0(n, b)} : n > DirectOf(n)} \cup {x \in {Ib1(n, b)} : RestOf(n) > 0}
  \cup {GroupAt(n, b, j) : j \in 1..GroupsOf(n)}

LEMMA GroupOrder ==
  ASSUME NEW n \in Nat \ {0}, NEW b \in Nat \ {0}
  PROVE  /\ Ib0(n, b) \in Nat \ {0} /\ Ib1(n, b) \in Nat \ {0} /\ Ib0(n, b) < Ib1(n, b)
         /\ \A j \in 1..GroupsOf(n) : GroupAt(n, b, j) \in Nat /\ Ib1(n, b) < GroupAt(n, b, j)
         /\ \A i, j \in 1..GroupsOf(n) : 
              GroupAt(n, b, i) = GroupAt(n, b, j) => i = j
<1>1. PICK s \in Nat \ {0}, x0 \in Nat \ {0}, x1 \in Nat \ {0}, g \in Nat : 
        s = SigsPerBlock + 1 /\ x0 = Ib0(n, b) /\ x1 = Ib1(n, b) /\ x0 < x1
        /\ g = GroupsOf(n)
  <2>1. DirectOf(n) \in Nat /\ SimpleOf(n) \in Nat
    BY Sizes
  <2>2. GroupsOf(n) \in Nat
    BY Groups
  <2>3. Ib0(n, b) \in Nat \ {0} /\ Ib1(n, b) \in Nat \ {0} /\ Ib0(n, b) < Ib1(n, b)
    BY <2>1 DEF Ib0, Ib1
  <2>4. SigsPerBlock + 1 \in Nat \ {0}
    BY LayoutAssumption
  <2> QED BY <2>2, <2>3, <2>4
<1>2. \A j \in 1..g : (j - 1) * s \in Nat
  OBVIOUS
<1>3. \A i, j \in 1..g : (i - 1) * s = (j - 1) * s => i = j
  OBVIOUS
<1>4. \A j \in 1..g : GroupAt(n, b, j) = x1 + 1 + (j - 1) * s
  BY <1>1 DEF GroupAt
<1>5. ASSUME NEW j \in 1..g PROVE GroupAt(n, b, j) \in Nat /\ x1 < GroupAt(n, b, j)
  <2>1. PICK u \in Nat : u = (j - 1) * s
    BY <1>2
  <2> QED BY <1>4, <2>1
<1>6. ASSUME NEW i \in 1..g, NEW j \in 1..g, GroupAt(n, b, i) = GroupAt(n, b, j) PROVE i = j
  <2>1. PICK u \in Nat, v \in Nat : u = (i - 1) * s /\ v = (j - 1) * s
    BY <1>2
  <2>2. u = v
    BY <1>4, <1>6, <2>1
  <2> QED BY <1>3, <2>1, <2>2
<1> QED BY <1>1, <1>5, <1>6

(* Each indirect block has its own records.                                *)
LEMMA RecordsOfIs ==
  ASSUME NEW n \in Nat \ {0}, NEW b \in Nat \ {0}
  PROVE  /\ DOMAIN RecordsOf(Place(n, b)) = Indirect(n, b)
         /\ n > DirectOf(n) => RecordsOf(Place(n, b))[Ib0(n, b)] = Place(n, b).simple
         /\ RestOf(n) > 0 => RecordsOf(Place(n, b))[Ib1(n, b)] = Place(n, b).groups
         /\ \A j \in 1..GroupsOf(n) :
              RecordsOf(Place(n, b))[GroupAt(n, b, j)] = Place(n, b).leaves[j]
<1> DEFINE P == Place(n, b)
           all == ({P.ib[1], P.ib[2]} \cup ToSet(P.groups)) \ {0}
           which(x) == CHOOSE j \in DOMAIN P.groups : P.groups[j] = x
<1>1. /\ P.ib[1] = IF n > DirectOf(n) THEN Ib0(n, b) ELSE 0
      /\ P.ib[2] = IF RestOf(n) > 0 THEN Ib1(n, b) ELSE 0
      /\ DOMAIN P.groups = 1..GroupsOf(n)
      /\ \A j \in 1..GroupsOf(n) : P.groups[j] = GroupAt(n, b, j)
  <2>1. P.ib = <<IF n > DirectOf(n) THEN Ib0(n, b) ELSE 0,
                 IF RestOf(n) > 0 THEN Ib1(n, b) ELSE 0>>
    BY PlaceIs
  <2>2. P.groups = [j \in 1..GroupsOf(n) |-> GroupAt(n, b, j)]
    BY PlaceIs DEF GroupList
  <2> HIDE DEF P
  <2> QED BY <2>1, <2>2
<1>2. RecordsOf(P) = [x \in all |-> IF x = P.ib[1] THEN P.simple
                                    ELSE IF x = P.ib[2] THEN P.groups
                                    ELSE P.leaves[which(x)]]
  BY DEF RecordsOf
<1> HIDE DEF P
<1>0. /\ Ib0(n, b) # 0 /\ Ib1(n, b) # 0 /\ Ib0(n, b) # Ib1(n, b)
      /\ \A j \in 1..GroupsOf(n) : /\ GroupAt(n, b, j) # 0
                                   /\ GroupAt(n, b, j) # Ib0(n, b)
                                   /\ GroupAt(n, b, j) # Ib1(n, b)
  <2>1. \A j \in 1..GroupsOf(n) : GroupAt(n, b, j) \in Nat /\ Ib1(n, b) < GroupAt(n, b, j)
    BY GroupOrder
  <2>2. Ib0(n, b) \in Nat \ {0} /\ Ib1(n, b) \in Nat \ {0} /\ Ib0(n, b) < Ib1(n, b)
    BY GroupOrder
  <2> QED BY <2>1, <2>2
<1>3. all = Indirect(n, b)
  <2>1. ToSet(P.groups) = {GroupAt(n, b, j) : j \in 1..GroupsOf(n)}
    BY <1>1 DEF ToSet
  <2> QED BY <1>0, <1>1, <2>1 DEF Indirect
<1>4. ASSUME NEW j \in 1..GroupsOf(n) PROVE which(GroupAt(n, b, j)) = j
  <2>1. \A i \in DOMAIN P.groups : P.groups[i] = GroupAt(n, b, j) <=> i = j
    BY <1>1, GroupOrder
  <2> QED BY <1>1, <2>1
<1> HIDE DEF all, which
<1>5. ASSUME NEW x \in Indirect(n, b)
      PROVE  RecordsOf(P)[x] = IF x = P.ib[1] THEN P.simple
                               ELSE IF x = P.ib[2] THEN P.groups
                               ELSE P.leaves[which(x)]
  BY <1>2, <1>3
<1>6. n > DirectOf(n) => RecordsOf(P)[Ib0(n, b)] = P.simple
  BY <1>1, <1>5 DEF Indirect
<1>7. RestOf(n) > 0 => RecordsOf(P)[Ib1(n, b)] = P.groups
  <2>1. RestOf(n) > 0 => Ib1(n, b) # P.ib[1] /\ Ib1(n, b) = P.ib[2] /\ Ib1(n, b) \in Indirect(n, b)
    BY <1>0, <1>1 DEF Indirect
  <2> QED BY <1>5, <2>1
<1>8. ASSUME NEW j \in 1..GroupsOf(n) 
      PROVE  RecordsOf(P)[GroupAt(n, b, j)] = P.leaves[j]
  <2>1. GroupAt(n, b, j) # P.ib[1] /\ GroupAt(n, b, j) # P.ib[2]
    BY <1>0, <1>1
  <2>2. GroupAt(n, b, j) \in Indirect(n, b)
    BY DEF Indirect
  <2> QED BY <1>4, <1>5, <2>1, <2>2
<1> QED BY <1>2, <1>3, <1>6, <1>7, <1>8 DEF P

-----------------------------------------------------------------------------
(* The blocks of one payload                                               *)

(* The p-th payload block behind the second indirect block.                *)
LeafAt(n, b, p) ==
  GroupAt(n, b, (p - 1) \div SigsPerBlock + 1) + (((p - 1) % SigsPerBlock) + 1)

(* The k-th payload block.                                                 *)
BlockAt(n, b, k) ==
  IF k <= DirectOf(n) THEN b + k - 1
  ELSE IF k <= DirectOf(n) + SimpleOf(n) THEN Ib0(n, b) + (k - DirectOf(n))
  ELSE LeafAt(n, b, k - DirectOf(n) - SimpleOf(n))

(* A leaf lies in its group, at its own offset behind the second indirect  *)
(* block.                                                                  *)
LEMMA LeafPlace ==
  ASSUME NEW n \in Nat \ {0}, NEW b \in Nat \ {0}, NEW p \in 1..RestOf(n)
  PROVE  \E q \in Nat, m \in 1..SigsPerBlock :
           /\ q = (p - 1) \div SigsPerBlock /\ m = ((p - 1) % SigsPerBlock) + 1
           /\ q + 1 \in 1..GroupsOf(n) /\ m \in 1..InGroupOf(n, q + 1)
           /\ p = q * SigsPerBlock + m
           /\ LeafAt(n, b, p) = GroupAt(n, b, q + 1) + m
           /\ LeafAt(n, b, p) = Ib1(n, b) + 1 + (q * (SigsPerBlock + 1) + m)
           /\ LeafAt(n, b, p) = Ib1(n, b) + 1 + p + q
<1>1. PICK s \in Nat \ {0}, r \in Nat, g \in Nat, x1 \in Nat : 
        s = SigsPerBlock /\ r = RestOf(n) /\ g = GroupsOf(n) /\ x1 = Ib1(n, b)
  BY Sizes, Groups, GroupOrder, LayoutAssumption
<1>2. PICK a \in Nat : a = p - 1
  BY <1>1
<1>3. PICK q \in Nat, c \in 0..(s - 1) : q = a \div s /\ c = a % s /\ a = q * s + c
  BY <1>2, DivMod
<1>4. PICK m \in 1..s : m = c + 1
  BY <1>3
<1>5. PICK t \in Nat : t = q * s
  BY <1>3
<1>6. p = t + m
  BY <1>2, <1>3, <1>4, <1>5
<1>7. g # 0 /\ (g - 1) * s < r /\ r <= g * s /\ r > 0
  BY <1>1, Groups
<1>8. q < g
  <2> SUFFICES ASSUME q >= g PROVE FALSE
    OBVIOUS
  <2>1. t >= g * s
    BY <1>5
  <2>2. PICK w \in Nat : w = g * s
    OBVIOUS
  <2> QED BY <1>1, <1>6, <1>7, <2>1, <2>2
<1>9. m \in 1..InGroupOf(n, q + 1)
  <2>1. CASE q + 1 < g
    BY <1>1, <2>1, Groups
  <2>2. CASE q + 1 = g
    <3>1. InGroupOf(n, g) = r - (g - 1) * s
      BY <1>1, <1>7, Groups
    <3>2. g - 1 = q /\ (g - 1) * s = t
      BY <1>5, <2>2
    <3>3. InGroupOf(n, q + 1) = r - t
      BY <2>2, <3>1, <3>2
    <3> QED BY <1>1, <1>6, <3>3
  <2> QED BY <1>8, <2>1, <2>2
<1>10. LeafAt(n, b, p) = GroupAt(n, b, q + 1) + m
  BY <1>1, <1>2, <1>3, <1>4 DEF LeafAt
<1>11. GroupAt(n, b, q + 1) = x1 + 1 + q * (s + 1)
  <2>1. q + 1 - 1 = q
    OBVIOUS
  <2> QED BY <1>1, <2>1 DEF GroupAt
<1>12. q * (s + 1) = t + q
  BY <1>5
<1>13. LeafAt(n, b, p) = x1 + 1 + (q * (s + 1) + m)
  BY <1>10, <1>11, <1>12
<1>14. LeafAt(n, b, p) = x1 + 1 + p + q
  BY <1>6, <1>12, <1>13
<1>15. q = (p - 1) \div s /\ m = ((p - 1) % s) + 1 /\ p = q * s + m
  BY <1>2, <1>3, <1>4, <1>5, <1>6
<1>16. q + 1 \in 1..g
  BY <1>8
<1> QED BY <1>1, <1>9, <1>10, <1>13, <1>14, <1>15, <1>16

(* Every offset behind the second indirect block is a group or a leaf.     *)
LEMMA OffsetPlace ==
  ASSUME NEW n \in Nat \ {0}, NEW b \in Nat \ {0}, RestOf(n) > 0,
         NEW y \in 0..(RestOf(n) + GroupsOf(n) - 1)
  PROVE  \/ \E j \in 1..GroupsOf(n) : Ib1(n, b) + 1 + y = GroupAt(n, b, j)
         \/ \E p \in 1..RestOf(n) : Ib1(n, b) + 1 + y = LeafAt(n, b, p)
<1>1. PICK s \in Nat \ {0}, r \in Nat, g \in Nat, x1 \in Nat : 
        s = SigsPerBlock /\ r = RestOf(n) /\ g = GroupsOf(n) /\ x1 = Ib1(n, b)
  BY Sizes, Groups, GroupOrder, LayoutAssumption
<1>2. g # 0 /\ (g - 1) * s < r /\ r <= g * s
  BY <1>1, Groups
<1>3. PICK d \in Nat \ {0} : d = s + 1
  OBVIOUS
<1>4. y \in Nat
  BY <1>1
<1>5. PICK q \in Nat, m \in 0..(d - 1) : q = y \div d /\ m = y % d /\ y = q * d + m
  BY <1>3, <1>4, DivMod
<1>6. PICK t \in Nat, u \in Nat : t = q * s /\ u = g * s
  OBVIOUS
<1>7. q * d = t + q /\ y = t + q + m
  <2>1. q * (s + 1) = q * s + q
    OBVIOUS
  <2>2. PICK w \in Nat : w = q * d
    BY <1>3
  <2>3. w = t + q
    BY <1>3, <1>6, <2>1, <2>2
  <2>4. y = w + m
    BY <1>5, <2>2
  <2> QED BY <2>2, <2>3, <2>4
<1>8. q < g
  <2> SUFFICES ASSUME q >= g PROVE FALSE
    OBVIOUS
  <2>1. t >= u
    BY <1>6
  <2>2. y <= r + g - 1
    BY <1>1
  <2> QED BY <1>2, <1>6, <1>7, <2>1, <2>2
<1>9. GroupAt(n, b, q + 1) = x1 + 1 + q * (s + 1)
  <2>1. q + 1 - 1 = q
    OBVIOUS
  <2> QED BY <1>1, <2>1 DEF GroupAt
<1>10. CASE m = 0
  <2>1. q + 1 \in 1..g /\ x1 + 1 + y = GroupAt(n, b, q + 1)
    BY <1>3, <1>7, <1>8, <1>9, <1>10
  <2> QED BY <1>1, <2>1
<1>11. CASE m # 0
  <2>1. PICK p \in Nat : p = t + m /\ p >= 1
    BY <1>11
  <2>2. p <= r
    <3>1. CASE q + 1 < g
      <4>1. (q + 1) * s <= (g - 1) * s
        BY <3>1
      <4>2. (q + 1) * s = t + s /\ m <= s
        BY <1>3, <1>6
      <4>3. PICK v \in Nat : v = (g - 1) * s
        BY <1>2
      <4> QED BY <1>2, <2>1, <4>1, <4>2, <4>3
    <3>2. CASE q + 1 = g
      <4>1. y <= r + q
        BY <1>1, <3>2
      <4> QED BY <1>7, <2>1, <4>1
    <3> QED BY <1>8, <3>1, <3>2
  <2>3. (p - 1) \div s = q /\ (p - 1) % s = m - 1
    <3>1. PICK c \in 0..(s - 1) : c = m - 1
      BY <1>3, <1>11
    <3>2. (q * s + c) \div s = q /\ (q * s + c) % s = c
      BY DivUnique
    <3>3. p - 1 = q * s + c
      BY <1>6, <2>1, <3>1
    <3> QED BY <3>1, <3>2, <3>3
  <2>4. LeafAt(n, b, p) = GroupAt(n, b, q + 1) + m
    <3>1. m - 1 + 1 = m
      OBVIOUS
    <3> QED BY <1>1, <2>3, <3>1 DEF LeafAt
  <2>5. LeafAt(n, b, p) = x1 + 1 + y
    BY <1>3, <1>7, <1>9, <2>4
  <2>6. p \in 1..r
    BY <2>1, <2>2
  <2> QED BY <1>1, <2>5, <2>6
<1> QED BY <1>10, <1>11

LEMMA LeavesApart ==
  ASSUME NEW n \in Nat \ {0}, NEW b \in Nat \ {0}
  PROVE  /\ \A p, o \in 1..RestOf(n) : LeafAt(n, b, p) = LeafAt(n, b, o) => p = o
         /\ \A p \in 1..RestOf(n), j \in 1..GroupsOf(n) :
              LeafAt(n, b, p) # GroupAt(n, b, j)
<1>0. PICK s \in Nat \ {0}, x1 \in Nat : s = SigsPerBlock /\ x1 = Ib1(n, b)
  BY GroupOrder, LayoutAssumption
<1>1. PICK d \in Nat \ {0} : s = SigsPerBlock /\ d = s + 1 /\ x1 = Ib1(n, b)
  BY <1>0
<1>2. ASSUME NEW p \in 1..RestOf(n)
      PROVE  \E q \in Nat, m \in 1..(d - 1) :
               p = q * s + m /\ LeafAt(n, b, p) = x1 + 1 + (q * d + m)
  <2>1. PICK q \in Nat, m \in 1..SigsPerBlock :
          /\ p = q * SigsPerBlock + m
          /\ LeafAt(n, b, p) = Ib1(n, b) + 1 + (q * (SigsPerBlock + 1) + m)
    BY LeafPlace
  <2>2. m \in 1..(d - 1) /\ SigsPerBlock + 1 = d
    BY <1>1
  <2>3. p = q * s + m /\ LeafAt(n, b, p) = x1 + 1 + (q * d + m)
    BY <1>1, <2>1, <2>2
  <2> QED BY <2>2, <2>3
<1>3. ASSUME NEW q \in Nat, NEW m \in 0..(d - 1), NEW v \in Nat, NEW c \in 0..(d - 1),
             q * d + m = v * d + c
      PROVE  q = v /\ m = c
  BY <1>3, DivUnique
<1>4. ASSUME NEW p \in 1..RestOf(n), NEW o \in 1..RestOf(n), 
             LeafAt(n, b, p) = LeafAt(n, b, o)
      PROVE  p = o
  <2>1. PICK q \in Nat, m \in 1..(d - 1) :
          p = q * s + m /\ LeafAt(n, b, p) = x1 + 1 + (q * d + m)
    BY <1>2
  <2>2. PICK v \in Nat, c \in 1..(d - 1) :
          o = v * s + c /\ LeafAt(n, b, o) = x1 + 1 + (v * d + c)
    BY <1>2
  <2>3. PICK t \in Nat, u \in Nat : t = q * d + m /\ u = v * d + c
    BY <1>1
  <2>4. t = u
    BY <1>4, <2>1, <2>2, <2>3
  <2>5. m \in 0..(d - 1) /\ c \in 0..(d - 1)
    BY <1>1
  <2>6. q = v /\ m = c
    BY <1>3, <2>3, <2>4, <2>5
  <2> QED BY <2>1, <2>2, <2>6
<1>5. ASSUME NEW p \in 1..RestOf(n), NEW j \in 1..GroupsOf(n),
             LeafAt(n, b, p) = GroupAt(n, b, j)
      PROVE  FALSE
  <2>1. PICK q \in Nat, m \in 1..(d - 1) : LeafAt(n, b, p) = x1 + 1 + (q * d + m)
    BY <1>2
  <2>2. PICK v \in Nat : v = j - 1
    BY Groups
  <2>3. GroupAt(n, b, j) = x1 + 1 + v * d
    BY <1>1, <2>2 DEF GroupAt
  <2>4. PICK t \in Nat, u \in Nat : t = q * d + m /\ u = v * d
    BY <1>1
  <2>5. t = u
    <3>1. LeafAt(n, b, p) = x1 + 1 + t
      BY <2>1, <2>4
    <3>2. GroupAt(n, b, j) = x1 + 1 + u
      BY <2>3, <2>4
    <3>3. x1 + 1 + t = x1 + 1 + u
      BY <1>5, <3>1, <3>2
    <3> QED BY <3>3
  <2>6. m \in 0..(d - 1) /\ 0 \in 0..(d - 1) /\ v * d = v * d + 0
    BY <1>1, <2>4
  <2>7. m = 0
    BY <1>3, <2>4, <2>5, <2>6
  <2> QED BY <2>7
<1> QED BY <1>4, <1>5

LEMMA LeafSpan ==
  ASSUME NEW n \in Nat \ {0}, NEW b \in Nat \ {0}
  PROVE  /\ \A p \in 1..RestOf(n) :
              LeafAt(n, b, p) \in Nat /\ Ib1(n, b) < LeafAt(n, b, p)
              /\ LeafAt(n, b, p) <= Ib1(n, b) + RestOf(n) + GroupsOf(n)
         /\ \A j \in 1..GroupsOf(n) :
              GroupAt(n, b, j) \in Nat /\ Ib1(n, b) < GroupAt(n, b, j)
              /\ GroupAt(n, b, j) <= Ib1(n, b) + RestOf(n) + GroupsOf(n)
<1>1. PICK s \in Nat \ {0}, r \in Nat, g \in Nat, x1 \in Nat : 
        s = SigsPerBlock /\ r = RestOf(n) /\ g = GroupsOf(n) /\ x1 = Ib1(n, b)
  BY Sizes, Groups, GroupOrder, LayoutAssumption
<1>2. ASSUME NEW p \in 1..r
      PROVE  LeafAt(n, b, p) \in Nat /\ x1 < LeafAt(n, b, p) 
             /\ LeafAt(n, b, p) <= x1 + r + g
  <2>1. PICK q \in Nat : q + 1 \in 1..g /\ LeafAt(n, b, p) = x1 + 1 + p + q
    BY <1>1, LeafPlace
  <2> QED BY <2>1
<1>3. ASSUME NEW j \in 1..g
      PROVE  GroupAt(n, b, j) \in Nat /\ x1 < GroupAt(n, b, j) 
             /\ GroupAt(n, b, j) <= x1 + r + g
  <2>1. PICK v \in Nat : v = j - 1 /\ v < g
    OBVIOUS
  <2>2. GroupAt(n, b, j) = x1 + 1 + v * (s + 1)
    BY <1>1, <2>1 DEF GroupAt
  <2>3. PICK t \in Nat, w \in Int : t = v * s /\ w = (g - 1) * s
    OBVIOUS
  <2>4. v * (s + 1) = v * s + v
    OBVIOUS
  <2>5. GroupAt(n, b, j) = x1 + 1 + t + v
    BY <2>2, <2>3, <2>4
  <2>6. t <= w
    BY <2>1, <2>3
  <2>7. r # 0
    <3>1. g # 0
      OBVIOUS
    <3> QED BY <1>1, <3>1, Groups
  <2>8. w < r
    BY <1>1, <2>3, <2>7, Groups
  <2> QED BY <2>1, <2>5, <2>6, <2>8
<1> QED BY <1>1, <1>2, <1>3

(* The blocks from b to the next free one are the payload's and the        *)
(* indirect ones, each in one role.                                        *)
LEMMA SpanParts ==
  ASSUME NEW n \in Nat \ {0}, NEW b \in Nat \ {0}
  PROVE  /\ Place(n, b).next \in Nat /\ b < Place(n, b).next
         /\ Indirect(n, b) \subseteq b..(Place(n, b).next - 1)
         /\ \A k \in 1..n : BlockAt(n, b, k) \in b..(Place(n, b).next - 1)
                            /\ BlockAt(n, b, k) \notin Indirect(n, b)
         /\ \A k, l \in 1..n : BlockAt(n, b, k) = BlockAt(n, b, l) => k = l
         /\ \A x \in b..(Place(n, b).next - 1) :
              x \in Indirect(n, b) \/ \E k \in 1..n : x = BlockAt(n, b, k)
<1>1. PICK d \in Nat \ {0}, i \in Nat, r \in Nat, g \in Nat, x0 \in Nat, x1 \in Nat, e \in Nat :
        /\ d = DirectOf(n) /\ i = SimpleOf(n) /\ r = RestOf(n) /\ g = GroupsOf(n)
        /\ x0 = Ib0(n, b) /\ x1 = Ib1(n, b)
        /\ e = b + n + g + (IF n > d THEN 1 ELSE 0) + (IF r > 0 THEN 1 ELSE 0)
  <2>1. PICK d \in Nat \ {0}, i \in Nat, r \in Nat, g \in Nat, x0 \in Nat, x1 \in Nat :
          /\ d = DirectOf(n) /\ i = SimpleOf(n) /\ r = RestOf(n) /\ g = GroupsOf(n)
          /\ x0 = Ib0(n, b) /\ x1 = Ib1(n, b)
    BY Sizes, Groups, GroupOrder
  <2>2. PICK e \in Nat : 
          e = b + n + g + (IF n > d THEN 1 ELSE 0) + (IF r > 0 THEN 1 ELSE 0)
    OBVIOUS
  <2> QED BY <2>1, <2>2
<1>2. /\ n = d + i + r /\ (n > d <=> i > 0) /\ (r > 0 => i > 0)
      /\ (r = 0 => g = 0) /\ (r > 0 => g > 0)
      /\ x0 = b + d /\ x1 = b + d + i + 1
  BY <1>1, Sizes, Groups DEF Ib0, Ib1
<1>3. e = Place(n, b).next
  BY <1>1, PlaceIs
<1>4. r > 0 => e = x1 + r + g + 1
  BY <1>1, <1>2
<1>5. r = 0 => e = b + d + i + (IF i > 0 THEN 1 ELSE 0)
  BY <1>1, <1>2
<1>6. \A p \in 1..r : LeafAt(n, b, p) \in Nat /\ x1 < LeafAt(n, b, p) /\ LeafAt(n, b, p) < e
  BY <1>1, <1>4, LeafSpan
<1>7. \A j \in 1..g : GroupAt(n, b, j) \in Nat /\ x1 < GroupAt(n, b, j) /\ GroupAt(n, b, j) < e
  <2> SUFFICES ASSUME NEW j \in 1..g
               PROVE  GroupAt(n, b, j) \in Nat /\ x1 < GroupAt(n, b, j) /\ GroupAt(n, b, j) < e
    OBVIOUS
  <2>1. GroupAt(n, b, j) \in Nat /\ x1 < GroupAt(n, b, j)
        /\ GroupAt(n, b, j) <= x1 + r + g
    BY <1>1, LeafSpan
  <2>2. e = x1 + r + g + 1
    BY <1>2, <1>4
  <2> QED BY <2>1, <2>2
<1>8. \A k \in 1..n :
        /\ k <= d => BlockAt(n, b, k) = b + k - 1
        /\ k > d /\ k <= d + i => BlockAt(n, b, k) = x0 + (k - d)
        /\ k > d + i => BlockAt(n, b, k) = LeafAt(n, b, k - d - i) /\ k - d - i \in 1..r
  BY <1>1, <1>2 DEF BlockAt
<1>9. \A x : x \in Indirect(n, b) <=>
        \/ x = x0 /\ i > 0
        \/ x = x1 /\ r > 0
        \/ \E j \in 1..g : x = GroupAt(n, b, j)
  BY <1>1, <1>2 DEF Indirect
<1>10. \A p, o \in 1..r : LeafAt(n, b, p) = LeafAt(n, b, o) => p = o
  BY <1>1, LeavesApart
<1>11. \A p \in 1..r, j \in 1..g : LeafAt(n, b, p) # GroupAt(n, b, j)
  BY <1>1, LeavesApart
<1>12. b < e
  BY <1>2, <1>4, <1>5
<1>13. Indirect(n, b) \subseteq b..(e - 1)
  BY <1>2, <1>4, <1>5, <1>7, <1>9
<1>14. ASSUME NEW k \in 1..n
       PROVE  BlockAt(n, b, k) \in b..(e - 1) /\ BlockAt(n, b, k) \notin Indirect(n, b)
  <2>1. CASE k <= d
    <3>1. BlockAt(n, b, k) = b + k - 1
      BY <1>8, <2>1
    <3> QED BY <2>1, <3>1, <1>2, <1>4, <1>5, <1>7, <1>9
  <2>2. CASE k > d /\ k <= d + i
    <3>1. BlockAt(n, b, k) = x0 + (k - d)
      BY <1>8, <2>2
    <3> QED BY <2>2, <3>1, <1>2, <1>4, <1>5, <1>7, <1>9
  <2>3. CASE k > d + i
    <3>1. PICK p \in 1..r : BlockAt(n, b, k) = LeafAt(n, b, p)
      BY <1>8, <2>3
    <3> QED BY <3>1, <1>2, <1>6, <1>9, <1>11
  <2> QED BY <2>1, <2>2, <2>3
<1>15. ASSUME NEW k \in 1..n, NEW l \in 1..n, BlockAt(n, b, k) = BlockAt(n, b, l)
       PROVE  k = l
  <2> DEFINE K(v, a) == \/ v <= d /\ a = b + v - 1 
                        \/ v > d /\ v <= d + i /\ a = x0 + (v - d)
                        \/ v > d + i /\ a > x1 /\ a \in Nat
  <2>1. \A v \in 1..n : K(v, BlockAt(n, b, v))
    BY <1>6, <1>8
  <2>2. PICK a \in Nat : a = BlockAt(n, b, k) /\ a = BlockAt(n, b, l)
    BY <1>14, <1>15
  <2>3. K(k, a) /\ K(l, a)
    BY <2>1, <2>2
  <2>4. CASE k > d + i /\ l > d + i
    <3>1. PICK p \in 1..r, o \in 1..r : p = k - d - i /\ o = l - d - i 
                                        /\ LeafAt(n, b, p) = LeafAt(n, b, o)
      BY <1>8, <2>2, <2>4
    <3>2. p = o
      BY <1>10, <3>1
    <3> QED BY <3>1, <3>2
  <2>5. CASE ~(k > d + i /\ l > d + i)
    BY <1>2, <2>3, <2>5
  <2> QED BY <2>4, <2>5
<1>16. ASSUME NEW x \in b..(e - 1)
       PROVE  x \in Indirect(n, b) \/ \E k \in 1..n : x = BlockAt(n, b, k)
  <2>1. CASE x < x0
    <3>1. x - b + 1 \in 1..n /\ x - b + 1 <= d /\ x = b + (x - b + 1) - 1
      BY <1>2, <2>1
    <3> QED BY <1>8, <3>1
  <2>2. CASE x = x0
    BY <1>2, <1>4, <1>5, <1>9, <2>2
  <2>3. CASE x > x0 /\ x < x1
    <3>1. PICK k \in 1..n : k = x - b
      BY <1>2, <1>4, <1>5, <2>3
    <3>2. k > d /\ k <= d + i /\ x = x0 + (k - d)
      BY <1>2, <2>3, <3>1
    <3> QED BY <1>8, <3>2
  <2>4. CASE x = x1
    BY <1>2, <1>4, <1>5, <1>9, <2>4
  <2>5. CASE x > x1
    <3>1. r > 0
      BY <1>2, <1>5, <2>5
    <3>2. PICK y \in 0..(r + g - 1) : x = x1 + 1 + y
      BY <1>4, <2>5, <3>1
    <3>3. (\E j \in 1..g : x = GroupAt(n, b, j)) \/ (\E p \in 1..r : x = LeafAt(n, b, p))
      BY <1>1, <3>1, <3>2, OffsetPlace
    <3>4. CASE \E p \in 1..r : x = LeafAt(n, b, p)
      <4>1. PICK p \in 1..r : x = LeafAt(n, b, p)
        BY <3>4
      <4>2. PICK k \in 1..n : k = d + i + p /\ k > d + i /\ k - d - i = p
        BY <1>2
      <4> QED BY <1>8, <4>1, <4>2
    <3> QED BY <1>9, <3>3, <3>4
  <2> QED BY <1>2, <2>1, <2>2, <2>3, <2>4, <2>5
<1> QED BY <1>3, <1>12, <1>13, <1>14, <1>15, <1>16

-----------------------------------------------------------------------------
(* What a reader collects                                                  *)

LEMMA TakeAll ==
  ASSUME NEW s \in Seq(Nat), NEW n \in Nat, Len(s) <= n
  PROVE  SubSeq(s, 1, Least(Len(s), n)) = s
<1>1. Least(Len(s), n) = Len(s)
  BY DEF Least
<1> QED BY <1>1, SubSeqFull

(* A function on 1..n is a sequence.                                       *)
LEMMA Listed ==
  ASSUME NEW n \in Nat, NEW s, s = [k \in 1..n |-> s[k]], \A k \in 1..n : s[k] \in Nat
  PROVE  s \in Seq(Nat) /\ Len(s) = n /\ (n = 0 => s = << >>)
<1>1. s \in Seq(Nat) /\ Len(s) = n
  OBVIOUS
<1>2. n = 0 => s = << >>
  BY <1>1, EmptySeq
<1> QED BY <1>1, <1>2

(* Three sequences, one after the other.                                   *)
InTurn(ds, ss, gs) ==
  [k \in 1..(Len(ds) + Len(ss) + Len(gs)) |->
     IF k <= Len(ds) THEN ds[k]
     ELSE IF k <= Len(ds) + Len(ss) THEN ss[k - Len(ds)]
     ELSE gs[k - Len(ds) - Len(ss)]]

LEMMA JoinThree ==
  ASSUME NEW ds \in Seq(Nat), NEW ss \in Seq(Nat), NEW gs \in Seq(Nat)
  PROVE  /\ ds \o ss \o gs \in Seq(Nat)
         /\ Len(ds \o ss \o gs) = Len(ds) + Len(ss) + Len(gs)
         /\ ds \o ss \o gs = InTurn(ds, ss, gs)
<1> PICK d \in Nat, i \in Nat, r \in Nat : d = Len(ds) /\ i = Len(ss) /\ r = Len(gs)
  OBVIOUS
<1>0. /\ ds \o ss \in Seq(Nat) /\ Len(ds \o ss) = Len(ds) + Len(ss)
      /\ \A k \in 1..(Len(ds) + Len(ss)) :
           (ds \o ss)[k] = IF k <= Len(ds) THEN ds[k] ELSE ss[k - Len(ds)]
  BY ConcatProperties
<1>1. PICK front \in Seq(Nat) : 
        /\ front = ds \o ss /\ Len(front) = d + i
        /\ \A k \in 1..(d + i) : front[k] = IF k <= d THEN ds[k] ELSE ss[k - d]
  <2> DEFINE u == ds \o ss
  <2>1. /\ u \in Seq(Nat) /\ Len(u) = d + i
        /\ \A k \in 1..(d + i) : u[k] = IF k <= d THEN ds[k] ELSE ss[k - d]
    BY <1>0
  <2> QED BY <2>1
<1>2. /\ front \o gs \in Seq(Nat) /\ Len(front \o gs) = Len(front) + Len(gs)
      /\ \A k \in 1..(Len(front) + Len(gs)) :
           (front \o gs)[k] = IF k <= Len(front) THEN front[k] ELSE gs[k - Len(front)]
  BY ConcatProperties
<1>3. PICK all \in Seq(Nat) :
        /\ all = front \o gs /\ Len(all) = d + i + r
        /\ \A k \in 1..(d + i + r) :
             all[k] = IF k <= d + i THEN front[k] ELSE gs[k - (d + i)]
  <2> DEFINE u == front \o gs
  <2>1. /\ u \in Seq(Nat) /\ Len(u) = d + i + r
        /\ \A k \in 1..(d + i + r) :
             u[k] = IF k <= d + i THEN front[k] ELSE gs[k - (d + i)]
    <3> HIDE DEF u
    <3>1. Len(front) = d + i /\ Len(gs) = r
      BY <1>1
    <3> QED BY <1>2, <3>1 DEF u
  <2> QED BY <2>1
<1>4. ASSUME NEW k \in 1..(d + i + r)
      PROVE  all[k] = IF k <= d THEN ds[k]
                      ELSE IF k <= d + i THEN ss[k - d] ELSE gs[k - d - i]
  BY <1>1, <1>3
<1>5. all = InTurn(ds, ss, gs)
  <2>1. all = [k \in 1..(d + i + r) |-> all[k]]
    <3>1. DOMAIN all = 1..(d + i + r)
      BY <1>3, LenProperties
    <3>2. all = [k \in DOMAIN all |-> all[k]]
      <4>1. all \in Seq(Nat)
        BY <1>3
      <4> QED BY <4>1
    <3> QED BY <3>1, <3>2
  <2> QED BY <1>4, <2>1 DEF InTurn
<1> QED BY <1>1, <1>3, <1>5

LeafRun(n, b) == [p \in 1..RestOf(n) |-> LeafAt(n, b, p)]

LEMMA Runs ==
  ASSUME NEW n \in Nat \ {0}, NEW b \in Nat \ {0}
  PROVE  /\ DirectRun(n, b) \in Seq(Nat) /\ Len(DirectRun(n, b)) = DirectOf(n)
         /\ SimpleRun(n, b) \in Seq(Nat) /\ Len(SimpleRun(n, b)) = SimpleOf(n)
         /\ LeafRun(n, b) \in Seq(Nat) /\ Len(LeafRun(n, b)) = RestOf(n)
         /\ SimpleOf(n) = 0 => SimpleRun(n, b) = << >>
         /\ RestOf(n) = 0 => LeafRun(n, b) = << >>
         /\ \A j \in 1..GroupsOf(n) : /\ GroupRun(n, b, j) \in Seq(Nat)
                                      /\ Len(GroupRun(n, b, j)) = InGroupOf(n, j)
<1>1. PICK d \in Nat, i \in Nat, r \in Nat, x0 \in Nat :
        d = DirectOf(n) /\ i = SimpleOf(n) /\ r = RestOf(n) /\ x0 = Ib0(n, b)
  BY Sizes, GroupOrder
<1>2. DirectRun(n, b) = [k \in 1..d |-> b + k - 1]
  BY <1>1 DEF DirectRun
<1>3. SimpleRun(n, b) = [k \in 1..i |-> x0 + k]
  BY <1>1 DEF SimpleRun
<1>4. LeafRun(n, b) = [p \in 1..r |-> LeafAt(n, b, p)]
  BY <1>1 DEF LeafRun
<1>5. \A p \in 1..r : LeafAt(n, b, p) \in Nat
  BY <1>1, LeafSpan
<1>6. DirectRun(n, b) \in Seq(Nat) /\ Len(DirectRun(n, b)) = d
  BY <1>2
<1>7. SimpleRun(n, b) \in Seq(Nat) /\ Len(SimpleRun(n, b)) = i
  BY <1>3
<1>8. LeafRun(n, b) \in Seq(Nat) /\ Len(LeafRun(n, b)) = r
  BY <1>4, <1>5
<1>9. (i = 0 => SimpleRun(n, b) = << >>) /\ (r = 0 => LeafRun(n, b) = << >>)
  BY <1>7, <1>8, EmptySeq
<1>10. ASSUME NEW j \in 1..GroupsOf(n)
       PROVE  GroupRun(n, b, j) \in Seq(Nat) /\ Len(GroupRun(n, b, j)) = InGroupOf(n, j)
  <2>1. PICK c \in Nat, x \in Nat : c = InGroupOf(n, j) /\ x = GroupAt(n, b, j)
    <3>1. InGroupOf(n, j) \in 1..SigsPerBlock
      BY Groups
    <3>2. InGroupOf(n, j) \in Nat
      BY <3>1, LayoutAssumption
    <3> QED BY <3>2, GroupOrder
  <2>2. GroupRun(n, b, j) = [k \in 1..c |-> x + k]
    BY <2>1 DEF GroupRun
  <2> QED BY <2>1, <2>2
<1> QED BY <1>1, <1>6, <1>7, <1>8, <1>9, <1>10

LEMMA LeavesJoin ==
  ASSUME NEW n \in Nat \ {0}, NEW b \in Nat \ {0}, RestOf(n) > 0
  PROVE  /\ Place(n, b).leaves \in Seq(Seq(Nat))
         /\ Len(Place(n, b).leaves) = GroupsOf(n)
         /\ \A j \in 1..GroupsOf(n) : Len(Place(n, b).leaves[j]) <= SigsPerBlock
         /\ FlattenSeq(Place(n, b).leaves) = LeafRun(n, b)
<1>1. PICK d \in Nat \ {0}, g \in Nat \ {0}, r \in Nat : 
        d = SigsPerBlock /\ g = GroupsOf(n) /\ r = RestOf(n)
  BY Sizes, Groups, LayoutAssumption
<1>2. PICK s : s = Place(n, b).leaves
  OBVIOUS
<1>3. s = [j \in 1..g |-> GroupRun(n, b, j)]
  <2>1. s = [j \in 1..GroupsOf(n) |-> GroupRun(n, b, j)]
    BY <1>2, PlaceIs DEF LeafGroups
  <2> QED BY <1>1, <2>1
<1>4. ASSUME NEW j \in 1..g
      PROVE  GroupRun(n, b, j) \in Seq(Nat) /\ Len(GroupRun(n, b, j)) <= d
             /\ Len(GroupRun(n, b, j)) = InGroupOf(n, j)
             /\ (j < g => Len(GroupRun(n, b, j)) = d)
  <2>1. InGroupOf(n, j) \in 1..SigsPerBlock /\ (j < GroupsOf(n) => InGroupOf(n, j) = SigsPerBlock)
    BY <1>1, Groups
  <2>2. GroupRun(n, b, j) \in Seq(Nat) /\ Len(GroupRun(n, b, j)) = InGroupOf(n, j)
    <3>1. j \in 1..GroupsOf(n)
      BY <1>1
    <3> QED BY <3>1, Runs
  <2> QED BY <1>1, <2>1, <2>2
<1>5. s \in Seq(Seq(Nat)) /\ Len(s) = g
  BY <1>3, <1>4
<1>6. \A j \in 1..g : Len(s[j]) <= d
  BY <1>3, <1>4
<1>7. \A j \in 1..(g - 1) : Len(s[j]) = d
  BY <1>3, <1>4
<1>8. FlattenSeq(s) = CountThrough(s, g, d)
  <2>1. Len(s[g]) <= d
    BY <1>6
  <2> QED BY <1>5, <1>7, <2>1, FlattenGroups
<1>9. (g - 1) * d + Len(s[g]) = r
  <2>1. InGroupOf(n, g) = r - (g - 1) * d
    BY <1>1, Groups
  <2>2. Len(s[g]) = InGroupOf(n, g)
    BY <1>3, <1>4
  <2>3. PICK w \in Nat : w = (g - 1) * d
    OBVIOUS
  <2>4. Len(s[g]) = r - w
    BY <2>1, <2>2, <2>3
  <2> QED BY <2>3, <2>4
<1>10. ASSUME NEW p \in 1..r
       PROVE  s[(p - 1) \div d + 1][((p - 1) % d) + 1] = LeafAt(n, b, p)
  <2>1. PICK q \in Nat, m \in 1..d :
          /\ q = (p - 1) \div d /\ m = ((p - 1) % d) + 1
          /\ q + 1 \in 1..g /\ m \in 1..InGroupOf(n, q + 1)
          /\ LeafAt(n, b, p) = GroupAt(n, b, q + 1) + m
    <3>1. PICK q \in Nat, m \in 1..SigsPerBlock :
            /\ q = (p - 1) \div SigsPerBlock /\ m = ((p - 1) % SigsPerBlock) + 1
            /\ q + 1 \in 1..GroupsOf(n) /\ m \in 1..InGroupOf(n, q + 1)
            /\ LeafAt(n, b, p) = GroupAt(n, b, q + 1) + m
      BY <1>1, LeafPlace
    <3> QED BY <1>1, <3>1
  <2>2. s[q + 1][m] = GroupAt(n, b, q + 1) + m
    BY <1>3, <2>1 DEF GroupRun
  <2> QED BY <2>1, <2>2
<1>11. FlattenSeq(s) = [p \in 1..r |-> LeafAt(n, b, p)]
  BY <1>8, <1>9, <1>10 DEF CountThrough
<1>12. \A j \in 1..GroupsOf(n) : Len(s[j]) <= SigsPerBlock
  BY <1>1, <1>6
<1> QED BY <1>1, <1>2, <1>5, <1>11, <1>12 DEF LeafRun

(* Inode i is laid out from block b on.                                    *)
LaidAt(i, b) ==
  /\ ptr[i].db = Place(size[i], b).db /\ ptr[i].ib = Place(size[i], b).ib
  /\ \A x \in Indirect(size[i], b) : records[x] = RecordsOf(Place(size[i], b))[x]

(* The blocks a reader collects are the payload's, in order.               *)
LEMMA SignedBlocksAre ==
  ASSUME NEW i, size[i] \in Nat \ {0}, NEW b \in Nat \ {0}, LaidAt(i, b)
  PROVE  SignedBlocks(i) = [k \in 1..size[i] |-> BlockAt(size[i], b, k)]
<1> DEFINE Take(s, m) == SubSeq(s, 1, Least(Len(s), m))
           direct  == Take(ptr[i].db, size[i])
           simple  == IF ptr[i].ib[1] = 0 THEN << >>
                      ELSE Take(records[ptr[i].ib[1]], SigsPerBlock)
           joined  == [j \in DOMAIN records[ptr[i].ib[2]] |->
                         Take(records[records[ptr[i].ib[2]][j]], SigsPerBlock)]
           grouped == IF ptr[i].ib[2] = 0 THEN << >> ELSE FlattenSeq(joined)
<1>0. SignedBlocks(i) = Take(direct \o simple \o grouped, size[i])
  BY DEF SignedBlocks
<1>1. PICK n \in Nat \ {0} : n = size[i]
  OBVIOUS
<1>2. PICK d \in Nat, s \in Nat, r \in Nat, g \in Nat, c \in Nat,
           x0 \in Nat \ {0}, x1 \in Nat \ {0} :
        /\ d = DirectOf(n) /\ s = SimpleOf(n) /\ r = RestOf(n) /\ g = GroupsOf(n)
        /\ c = SigsPerBlock /\ x0 = Ib0(n, b) /\ x1 = Ib1(n, b)
  BY Sizes, Groups, GroupOrder, LayoutAssumption
<1>3. n = d + s + r /\ s <= c /\ (n > d <=> s > 0)
  BY <1>2, Sizes
<1>4. PICK ds \in Seq(Nat), ss \in Seq(Nat), gs \in Seq(Nat) :
        /\ ds = DirectRun(n, b) /\ ss = SimpleRun(n, b) /\ gs = LeafRun(n, b)
        /\ Len(ds) = d /\ Len(ss) = s /\ Len(gs) = r
        /\ (s = 0 => ss = << >>) /\ (r = 0 => gs = << >>)
  <2>1. DirectRun(n, b) \in Seq(Nat) /\ Len(DirectRun(n, b)) = DirectOf(n)
    BY Runs
  <2>2. SimpleRun(n, b) \in Seq(Nat) /\ Len(SimpleRun(n, b)) = SimpleOf(n)
        /\ (SimpleOf(n) = 0 => SimpleRun(n, b) = << >>)
    BY Runs
  <2>3. LeafRun(n, b) \in Seq(Nat) /\ Len(LeafRun(n, b)) = RestOf(n)
        /\ (RestOf(n) = 0 => LeafRun(n, b) = << >>)
    BY Runs
  <2> QED BY <1>2, <2>1, <2>2, <2>3
<1>5. /\ ptr[i].db = ds
      /\ ptr[i].ib[1] = IF n > d THEN x0 ELSE 0
      /\ ptr[i].ib[2] = IF r > 0 THEN x1 ELSE 0
  <2>1. /\ ptr[i].db = Place(n, b).db /\ ptr[i].ib = Place(n, b).ib
    BY <1>1 DEF LaidAt
  <2>2. Place(n, b).db = ds
    <3>1. Place(n, b).db = DirectRun(n, b)
      BY PlaceIs
    <3> QED BY <1>4, <3>1
  <2>3. Place(n, b).ib = <<IF n > d THEN x0 ELSE 0, IF r > 0 THEN x1 ELSE 0>>
    BY <1>2, PlaceIs
  <2> QED BY <2>1, <2>2, <2>3
<1>6. \A x \in Indirect(n, b) : records[x] = RecordsOf(Place(n, b))[x]
  BY <1>1 DEF LaidAt
<1>7. direct = ds
  <2>1. SubSeq(ds, 1, Least(Len(ds), n)) = ds
    BY <1>3, <1>4, TakeAll
  <2> QED BY <1>1, <1>5, <2>1
<1>8. simple = ss
  <2>1. CASE s = 0
    BY <1>3, <1>4, <1>5, <2>1
  <2>2. CASE s > 0
    <3>1. Ib0(n, b) \in Indirect(n, b) /\ n > DirectOf(n)
      BY <1>2, <1>3, <2>2 DEF Indirect
    <3>2. RecordsOf(Place(n, b))[Ib0(n, b)] = Place(n, b).simple
      BY <3>1, RecordsOfIs
    <3>3. Place(n, b).simple = ss
      <4>1. Place(n, b).simple = SimpleRun(n, b)
        BY PlaceIs
      <4> QED BY <1>4, <4>1
    <3>4. records[x0] = ss
      BY <1>2, <1>6, <3>1, <3>2, <3>3
    <3>5. SubSeq(ss, 1, Least(Len(ss), c)) = ss
      BY <1>3, <1>4, TakeAll
    <3>6. ptr[i].ib[1] = x0 /\ x0 # 0
      BY <1>3, <1>5, <2>2
    <3> QED BY <1>2, <3>4, <3>5, <3>6
  <2> QED BY <2>1, <2>2
<1>9. grouped = gs
  <2>1. CASE r = 0
    BY <1>4, <1>5, <2>1
  <2>2. CASE r > 0
    <3>1. PICK leaves \in Seq(Seq(Nat)) : 
            /\ leaves = Place(n, b).leaves /\ Len(leaves) = g
            /\ \A j \in 1..g : Len(leaves[j]) <= c
            /\ FlattenSeq(leaves) = gs
      BY <1>2, <1>4, <2>2, LeavesJoin
    <3>2. /\ Ib1(n, b) \in Indirect(n, b)
          /\ \A j \in 1..GroupsOf(n) : GroupAt(n, b, j) \in Indirect(n, b)
      BY <1>2, <2>2 DEF Indirect
    <3>3. /\ RecordsOf(Place(n, b))[Ib1(n, b)] = Place(n, b).groups
          /\ \A j \in 1..GroupsOf(n) :
               RecordsOf(Place(n, b))[GroupAt(n, b, j)] = Place(n, b).leaves[j]
      BY <1>2, <2>2, RecordsOfIs
    <3>4. Place(n, b).groups = [j \in 1..g |-> GroupAt(n, b, j)]
      <4>1. Place(n, b).groups = [j \in 1..GroupsOf(n) |-> GroupAt(n, b, j)]
        BY PlaceIs DEF GroupList
      <4> QED BY <1>2, <4>1
    <3>5. records[x1] = [j \in 1..g |-> GroupAt(n, b, j)]
      BY <1>2, <1>6, <3>2, <3>3, <3>4
    <3>6. \A j \in 1..g : records[GroupAt(n, b, j)] = leaves[j]
      BY <1>2, <1>6, <3>1, <3>2, <3>3
    <3>7. ASSUME NEW j \in 1..g 
          PROVE  SubSeq(leaves[j], 1, Least(Len(leaves[j]), c)) = leaves[j]
      <4>1. leaves[j] \in Seq(Nat) /\ Len(leaves[j]) <= c
        BY <3>1, ElementOfSeq
      <4> QED BY <4>1, TakeAll
    <3>8. ptr[i].ib[2] = x1 /\ x1 # 0
      BY <1>5, <2>2
    <3>9. DOMAIN records[x1] = 1..g /\ \A j \in 1..g : records[x1][j] = GroupAt(n, b, j)
      BY <3>5
    <3>10. joined = [j \in 1..g |-> leaves[j]]
      <4>1. joined = [j \in DOMAIN records[x1] |-> Take(records[records[x1][j]], c)]
        BY <1>2, <3>8
      <4>2. \A j \in 1..g : Take(records[records[x1][j]], c) = leaves[j]
        BY <3>6, <3>7, <3>9
      <4>3. DOMAIN records[x1] = 1..g
        BY <3>9
      <4> HIDE DEF Take, joined
      <4> QED BY <4>1, <4>2, <4>3
    <3>11. leaves = [j \in 1..g |-> leaves[j]]
      <4>1. PICK m \in Nat : leaves \in [1..m -> Seq(Nat)] /\ m = Len(leaves)
        BY <3>1, ElementOfSeq
      <4>2. leaves \in [1..g -> Seq(Nat)]
        BY <3>1, <4>1
      <4> QED BY <4>2
    <3>12. joined = leaves
      BY <3>10, <3>11
    <3>13. FlattenSeq(joined) = gs
      BY <3>1, <3>12
    <3> HIDE DEF joined
    <3> QED BY <3>8, <3>13
  <2> QED BY <2>1, <2>2
<1> HIDE DEF direct, simple, grouped
<1>10. PICK all \in Seq(Nat) :
         all = ds \o ss \o gs /\ Len(all) = n /\ all = InTurn(ds, ss, gs)
  <2>1. ds \o ss \o gs \in Seq(Nat) /\ Len(ds \o ss \o gs) = d + s + r
        /\ ds \o ss \o gs = InTurn(ds, ss, gs)
    <3>1. Len(ds) = d /\ Len(ss) = s /\ Len(gs) = r
      BY <1>4
    <3>2. ds \o ss \o gs \in Seq(Nat) 
      BY JoinThree
    <3>3. Len(ds \o ss \o gs) = Len(ds) + Len(ss) + Len(gs)
      BY JoinThree
    <3>4. ds \o ss \o gs = InTurn(ds, ss, gs)
      BY JoinThree
    <3> QED BY <3>1, <3>2, <3>3, <3>4
  <2> QED BY <1>3, <2>1
<1>11. SignedBlocks(i) = all
  <2>1. SubSeq(all, 1, Least(Len(all), n)) = all
    <3>1. Len(all) <= n /\ n \in Nat
      BY <1>10
    <3> QED BY <3>1, TakeAll
  <2> QED BY <1>0, <1>1, <1>7, <1>8, <1>9, <1>10, <2>1
<1>12. ASSUME NEW k \in 1..n PROVE all[k] = BlockAt(n, b, k)
  <2>0. all[k] = IF k <= d THEN ds[k]
                 ELSE IF k <= d + s THEN ss[k - d] ELSE gs[k - d - s]
    BY <1>3, <1>4, <1>10 DEF InTurn
  <2>1. CASE k <= d
    <3>1. ds[k] = b + k - 1
      BY <1>2, <1>4, <2>1 DEF DirectRun
    <3> QED BY <1>2, <2>0, <2>1, <3>1 DEF BlockAt
  <2>2. CASE k > d /\ k <= d + s
    <3>1. PICK m \in 1..s : m = k - d
      BY <2>2
    <3>2. ss[m] = Ib0(n, b) + m
      BY <1>2, <1>4 DEF SimpleRun
    <3>3. all[k] = ss[m]
      BY <2>0, <2>2, <3>1
    <3>4. BlockAt(n, b, k) = Ib0(n, b) + m
      BY <1>2, <2>2, <3>1 DEF BlockAt
    <3> QED BY <3>2, <3>3, <3>4
  <2>3. CASE k > d + s
    <3>1. PICK m \in 1..r : m = k - d - s
      BY <1>3, <2>3
    <3>2. gs[m] = LeafAt(n, b, m)
      BY <1>2, <1>4 DEF LeafRun
    <3>0. ~(k <= d) /\ ~(k <= d + s)
      BY <2>3
    <3>3. all[k] = gs[m]
      BY <2>0, <3>0, <3>1
    <3>4. BlockAt(n, b, k) = LeafAt(n, b, m)
      BY <1>2, <3>0, <3>1 DEF BlockAt
    <3> QED BY <3>2, <3>3, <3>4
  <2> QED BY <2>1, <2>2, <2>3
<1>13. all = [k \in 1..n |-> BlockAt(n, b, k)]
  <2>1. all = [k \in 1..n |-> all[k]]
    BY <1>10
  <2> QED BY <1>12, <2>1
<1> QED BY <1>1, <1>11, <1>13

-----------------------------------------------------------------------------
(* The layout of the image                                                 *)

StartOf(i) == ptr[i].db[1]
EndOf(i) == IF signed THEN Place(size[i], StartOf(i)).next ELSE StartOf(i) + size[i]
Span(i) == StartOf(i)..(EndOf(i) - 1)
IndirectOf(i) == IF signed THEN Indirect(size[i], StartOf(i)) ELSE {}
PayloadAt(i, k) ==
  IF signed THEN BlockAt(size[i], StartOf(i), k) ELSE StartOf(i) + k - 1

(* The inodes that have been laid out.                                     *)
LaidInodes == IF HasLayout THEN Inodes ELSE 0..(node - 1)

Typed ==
  /\ signed \in BOOLEAN /\ collision \in BOOLEAN
  /\ \E n \in InodeCounts : size \in [0..(n - 1) -> BlockCounts]
  /\ node \in 0..NoInode /\ next \in Nat

Placed ==
  /\ DOMAIN ptr = LaidInodes
  /\ \A i \in LaidInodes :
       StartOf(i) \in Nat \ {0} /\ (signed => LaidAt(i, StartOf(i)))
  /\ DOMAIN records = UNION {IndirectOf(i) : i \in LaidInodes}

Covered ==
  /\ reserved \subseteq Nat
  /\ \A x \in Nat : x < next <=> \/ x <= InodeBlocks
                                 \/ x \in reserved
                                 \/ \E i \in LaidInodes : x \in Span(i)

Apart ==
  /\ \A x \in reserved : x > InodeBlocks
  /\ \A i \in LaidInodes : \A x \in Span(i) : x > InodeBlocks /\ x \notin reserved
  /\ \A i, j \in LaidInodes : i # j => Span(i) \cap Span(j) = {}

(* The layout is a partition of the blocks handed out so far.              *)
LayoutInv == Typed /\ Placed /\ Covered /\ Apart

LEMMA InodeNumbers ==
  ASSUME Typed
  PROVE  /\ NoInode \in Nat \ {0} /\ Inodes = 0..(NoInode - 1)
         /\ InodeBlocks \in Nat /\ InodeBlocks >= 1
         /\ \A i \in Inodes : size[i] \in Nat \ {0}
<1>1. PICK n \in InodeCounts : size \in [0..(n - 1) -> BlockCounts]
  BY DEF Typed
<1>2. n \in Nat \ {0}
  BY LayoutAssumption
<1>3. Inodes = 0..(n - 1)
  BY <1>1 DEF Inodes
<1>4. Cardinality(Inodes) = n
  BY <1>2, <1>3, FS_Interval
<1>5. PICK d \in Nat \ {0} : d = InodesPerBlock
  BY LayoutAssumption
<1>6. (n + d - 1) \div d \in Nat /\ (n + d - 1) \div d >= 1
  <2>1. PICK a \in Nat : a = n + d - 1 /\ a >= d
    BY <1>2
  <2>2. PICK q \in Nat, m \in 0..(d - 1) : q = a \div d /\ m = a % d /\ a = q * d + m
    BY <1>5, <2>1, DivMod
  <2>3. q # 0
    <3> SUFFICES ASSUME q = 0 PROVE FALSE
      OBVIOUS
    <3>1. q * d = 0
      OBVIOUS
    <3> QED BY <2>1, <2>2, <3>1
  <2> QED BY <2>1, <2>2, <2>3
<1>7. \A i \in Inodes : size[i] \in Nat \ {0}
  BY <1>1, <1>3, LayoutAssumption
<1> QED BY <1>2, <1>3, <1>4, <1>5, <1>6, <1>7 DEF NoInode, InodeBlocks

(* The blocks left empty follow the next free block.                       *)
LEMMA GapIs ==
  ASSUME NEW i, next \in Nat
  PROVE  \E first \in Nat : /\ first = next + Cardinality(Gap(i)) /\ next <= first
                            /\ Gap(i) = next..(first - 1)
<1>1. PICK a \in Nat : a = next
  OBVIOUS
<1>2. \E c \in Nat : Gap(i) = a..(a + c - 1)
  <2>1. {a, a + 1} = a..(a + 2 - 1) /\ {a} = a..(a + 1 - 1) /\ {} = a..(a + 0 - 1)
    OBVIOUS
  <2> QED BY <1>1, <2>1 DEF Gap
<1>3. PICK c \in Nat : Gap(i) = a..(a + c - 1)
  BY <1>2
<1>4. Cardinality(Gap(i)) = c
  BY <1>3, FS_Interval
<1>5. PICK first \in Nat : first = a + c
  OBVIOUS
<1>6. first = next + Cardinality(Gap(i)) /\ next <= first
  BY <1>1, <1>4, <1>5
<1>7. Gap(i) = next..(first - 1)
  BY <1>1, <1>3, <1>5
<1> QED BY <1>6, <1>7

(* One inode's blocks, signed or not.                                      *)
LEMMA SpanOf ==
  ASSUME LayoutInv, NEW i \in LaidInodes, size[i] \in Nat \ {0}
  PROVE  /\ EndOf(i) \in Nat /\ StartOf(i) < EndOf(i)
         /\ IndirectOf(i) \subseteq Span(i)
         /\ \A k \in 1..size[i] : PayloadAt(i, k) \in Span(i)
                                  /\ PayloadAt(i, k) \notin IndirectOf(i)
         /\ \A k, l \in 1..size[i] : PayloadAt(i, k) = PayloadAt(i, l) => k = l
         /\ \A x \in Span(i) :
              x \in IndirectOf(i) \/ \E k \in 1..size[i] : x = PayloadAt(i, k)
         /\ PayloadBlocks(i) = [k \in 1..size[i] |-> PayloadAt(i, k)]
<1>1. PICK n \in Nat \ {0}, b \in Nat \ {0} : n = size[i] /\ b = StartOf(i)
  BY DEF LayoutInv, Placed
<1>2. signed \in BOOLEAN
  BY DEF LayoutInv, Typed
<1>3. CASE signed
  <2>1. /\ EndOf(i) = Place(n, b).next /\ IndirectOf(i) = Indirect(n, b)
        /\ \A k : PayloadAt(i, k) = BlockAt(n, b, k)
    BY <1>1, <1>3 DEF EndOf, IndirectOf, PayloadAt
  <2>2. Span(i) = b..(Place(n, b).next - 1)
    BY <1>1, <2>1 DEF Span
  <2>3. LaidAt(i, b)
    BY <1>1, <1>3 DEF LayoutInv, Placed
  <2>4. PayloadBlocks(i) = [k \in 1..size[i] |-> BlockAt(size[i], b, k)]
    BY <1>1, <1>3, <2>3, SignedBlocksAre DEF PayloadBlocks
  <2>5. PayloadBlocks(i) = [k \in 1..size[i] |-> PayloadAt(i, k)]
    BY <1>1, <2>1, <2>4
  <2>6. /\ Place(n, b).next \in Nat /\ b < Place(n, b).next
        /\ Indirect(n, b) \subseteq b..(Place(n, b).next - 1)
        /\ \A k \in 1..n : BlockAt(n, b, k) \in b..(Place(n, b).next - 1)
                           /\ BlockAt(n, b, k) \notin Indirect(n, b)
        /\ \A k, l \in 1..n : BlockAt(n, b, k) = BlockAt(n, b, l) => k = l
        /\ \A x \in b..(Place(n, b).next - 1) :
             x \in Indirect(n, b) \/ \E k \in 1..n : x = BlockAt(n, b, k)
    BY SpanParts
  <2> QED BY <1>1, <2>1, <2>2, <2>5, <2>6
<1>4. CASE ~signed
  <2>1. /\ EndOf(i) = b + n /\ IndirectOf(i) = {} /\ Span(i) = b..(b + n - 1)
        /\ \A k : PayloadAt(i, k) = b + k - 1
    BY <1>1, <1>4 DEF EndOf, IndirectOf, PayloadAt, Span
  <2>2. PayloadBlocks(i) = [k \in 1..size[i] |-> PayloadAt(i, k)]
    BY <1>1, <1>4, <2>1 DEF PayloadBlocks, StartOf
  <2>3. ASSUME NEW x \in b..(b + n - 1)
        PROVE  \E k \in 1..n : x = b + k - 1
    <3>1. x - b + 1 \in 1..n /\ x = b + (x - b + 1) - 1
      OBVIOUS
    <3> QED BY <3>1
  <2> QED BY <1>1, <2>1, <2>2, <2>3
<1> QED BY <1>2, <1>3, <1>4

LEMMA LayoutInit ==
  ASSUME Init
  PROVE  LayoutInv
<1>1. Typed
  <2>1. \E n \in InodeCounts : size \in [0..(n - 1) -> BlockCounts]
    BY DEF Init
  <2>2. 1 + InodeBlocks \in Nat /\ 0 \in 0..NoInode
    <3>1. PICK n \in InodeCounts : size \in [0..(n - 1) -> BlockCounts]
      BY <2>1
    <3>2. n \in Nat \ {0} /\ Inodes = 0..(n - 1)
      BY <3>1, LayoutAssumption DEF Inodes
    <3>3. Cardinality(Inodes) = n
      BY <3>2, FS_Interval
    <3>4. (n + InodesPerBlock - 1) \div InodesPerBlock \in Nat
      BY <3>2, LayoutAssumption
    <3> QED BY <3>2, <3>3, <3>4 DEF NoInode, InodeBlocks
  <2> QED BY <2>1, <2>2 DEF Init, Typed
<1>2. LaidInodes = {}
  BY DEF LaidInodes, HasLayout, Init
<1>3. Placed
  BY <1>2 DEF Placed, Init
<1>4. Covered /\ Apart
  <2>1. PICK f \in Nat : f = InodeBlocks /\ next = 1 + f
    BY <1>1, InodeNumbers DEF Init
  <2> QED BY <1>2, <2>1 DEF Covered, Apart, Init
<1> QED BY <1>1, <1>3, <1>4 DEF LayoutInv

(* The layout is left alone, and so is what has been laid out.             *)
LEMMA LayoutKept ==
  ASSUME LayoutInv, UNCHANGED <<inputs, next, ptr, records, reserved>>,
         LaidInodes' = LaidInodes, node' \in 0..NoInode
  PROVE  LayoutInv'
<1>1. Typed'
  BY DEF LayoutInv, Typed, inputs, NoInode, Inodes
<1>2. /\ signed' = signed /\ size' = size /\ ptr' = ptr /\ records' = records
      /\ next' = next /\ reserved' = reserved /\ InodeBlocks' = InodeBlocks
  BY DEF inputs, InodeBlocks, Inodes
<1>3. \A i : StartOf(i)' = StartOf(i)
  BY <1>2 DEF StartOf
<1>4. \A i : EndOf(i)' = EndOf(i) /\ IndirectOf(i)' = IndirectOf(i)
  BY <1>2 DEF StartOf, EndOf, IndirectOf
<1>5. \A i : Span(i)' = Span(i)
  BY <1>2 DEF Span, StartOf, EndOf
<1>6. \A i : (signed => LaidAt(i, StartOf(i)))' <=> (signed => LaidAt(i, StartOf(i)))
  BY <1>2 DEF LaidAt, StartOf
<1>7. Placed'
  BY <1>2, <1>3, <1>4, <1>6 DEF LayoutInv, Placed
<1>8. Covered' /\ Apart'
  BY <1>2, <1>5 DEF LayoutInv, Covered, Apart
<1> QED BY <1>1, <1>7, <1>8 DEF LayoutInv

LEMMA LayOutKeeps ==
  ASSUME LayoutInv, LayOut
  PROVE  LayoutInv'
<1>0. PICK m : m = node
  OBVIOUS
<1>1. PICK first \in Nat : /\ first = next + Cardinality(Gap(node)) /\ next <= first
                           /\ Gap(node) = next..(first - 1)
  BY GapIs DEF LayoutInv, Typed
<1>2. m \in Inodes /\ m \in Nat /\ LaidInodes = 0..(m - 1)
      /\ LaidInodes' = 0..m /\ node' = m + 1 /\ node' \in 0..NoInode
  <2>1. NoInode \in Nat \ {0} /\ Inodes = 0..(NoInode - 1) /\ m \in 0..NoInode /\ m # NoInode
    BY <1>0, InodeNumbers DEF LayoutInv, Typed, LayOut
  <2>2. node' = m + 1 /\ phase = "layout" /\ phase' = "layout"
    BY <1>0 DEF LayOut
  <2>3. LaidInodes = 0..(m - 1) /\ LaidInodes' = 0..(node' - 1)
    BY <1>0, <2>2 DEF LaidInodes, HasLayout
  <2>4. node' - 1 = m
    BY <2>1, <2>2
  <2> QED BY <2>1, <2>2, <2>3, <2>4
<1>3. PICK n \in Nat \ {0} : n = size[m]
  BY <1>2, InodeNumbers DEF LayoutInv
<1>4. first \in Nat \ {0}
  <2>1. next > InodeBlocks /\ InodeBlocks \in Nat
    <3>1. InodeBlocks \in Nat
      BY InodeNumbers DEF LayoutInv
    <3>2. InodeBlocks < next
      BY <3>1 DEF LayoutInv, Covered
    <3> QED BY <3>1, <3>2 DEF LayoutInv, Typed
  <2> QED BY <1>1, <2>1 DEF LayoutInv, Typed
<1>5. PICK p, end, recs : 
        /\ p = IF signed THEN [db |-> Place(n, first).db, ib |-> Place(n, first).ib]
               ELSE [db |-> <<first>>, ib |-> <<0, 0>>]
        /\ end = IF signed THEN Place(n, first).next ELSE first + n
        /\ recs = RecordsOf(Place(n, first))
  OBVIOUS
<1>6. /\ signed' = signed /\ size' = size /\ collision' = collision
      /\ ptr' = Override(ptr, Single(m, p)) /\ next' = end
      /\ records' = IF signed THEN Override(records, recs) ELSE records
      /\ reserved' = reserved \cup (next..(first - 1))
      /\ InodeBlocks' = InodeBlocks /\ NoInode' = NoInode
  BY <1>0, <1>1, <1>3, <1>5 DEF LayOut, inputs, InodeBlocks, NoInode, Inodes
<1>7. p.db[1] = first
  <2>1. Place(n, first).db[1] = first
    <3>1. 1 \in 1..DirectOf(n)
      BY <1>3, Sizes
    <3>2. DirectRun(n, first)[1] = first + 1 - 1
      BY <3>1 DEF DirectRun
    <3> QED BY <3>2, PlaceIs
  <2> QED BY <1>5, <2>1
<1>8. end \in Nat /\ first < end
  <2>1. Place(n, first).next \in Nat /\ first < Place(n, first).next
    BY <1>3, <1>4, SpanParts
  <2> QED BY <1>3, <1>4, <1>5, <2>1
<1>9. signed => DOMAIN recs = Indirect(n, first) /\ Indirect(n, first) \subseteq first..(end - 1)
  BY <1>3, <1>4, <1>5, SpanParts, RecordsOfIs
<1>10. /\ DOMAIN ptr' = 0..m
       /\ ptr'[m] = p /\ \A i \in 0..(m - 1) : ptr'[i] = ptr[i]
  <2>1. DOMAIN ptr = 0..(m - 1)
    BY <1>2 DEF LayoutInv, Placed
  <2> QED BY <1>2, <1>6, <2>1 DEF Override, Single
<1>11. /\ StartOf(m)' = first
       /\ \A i \in 0..(m - 1) : StartOf(i)' = StartOf(i)
  BY <1>7, <1>10 DEF StartOf
<1>12. /\ EndOf(m)' = end /\ IndirectOf(m)' = IF signed THEN Indirect(n, first) ELSE {}
       /\ \A i \in 0..(m - 1) : EndOf(i)' = EndOf(i) /\ IndirectOf(i)' = IndirectOf(i)
  BY <1>3, <1>5, <1>6, <1>11 DEF EndOf, IndirectOf
<1>13. /\ Span(m)' = first..(end - 1)
       /\ \A i \in 0..(m - 1) : Span(i)' = Span(i)
  BY <1>11, <1>12 DEF Span
<1>14. \A i \in 0..(m - 1) : /\ i \in LaidInodes /\ size[i] \in Nat \ {0}
                             /\ StartOf(i) \in Nat /\ EndOf(i) \in Nat
                             /\ IndirectOf(i) \subseteq Span(i)
  <2> SUFFICES ASSUME NEW i \in 0..(m - 1)
               PROVE  /\ i \in LaidInodes /\ size[i] \in Nat \ {0}
                      /\ StartOf(i) \in Nat /\ EndOf(i) \in Nat
                      /\ IndirectOf(i) \subseteq Span(i)
    OBVIOUS
  <2>1. NoInode \in Nat /\ Inodes = 0..(NoInode - 1)
    BY InodeNumbers DEF LayoutInv
  <2>2. i \in LaidInodes /\ i \in Inodes
    BY <1>2, <2>1
  <2>3. size[i] \in Nat \ {0}
    BY <2>2, InodeNumbers DEF LayoutInv
  <2> QED BY <2>2, <2>3, SpanOf DEF LayoutInv, Placed
<1>15. \A i \in 0..(m - 1) : \A x \in Span(i) : x \in Nat /\ x < next
  <2> SUFFICES ASSUME NEW i \in 0..(m - 1), NEW x \in Span(i)
               PROVE  x \in Nat /\ x < next
    OBVIOUS
  <2>1. x \in Nat
    BY <1>14 DEF Span
  <2> QED BY <1>14, <2>1 DEF LayoutInv, Covered
<1>16. Typed'
  <2>1. next' \in Nat /\ node' \in 0..NoInode'
    BY <1>2, <1>6, <1>8
  <2>2. signed' \in BOOLEAN /\ collision' \in BOOLEAN
        /\ \E c \in InodeCounts : size' \in [0..(c - 1) -> BlockCounts]
    BY <1>6 DEF LayoutInv, Typed
  <2> QED BY <2>1, <2>2 DEF Typed
<1>17. Placed'
  <2>1. DOMAIN ptr' = LaidInodes'
    BY <1>2, <1>10
  <2>2. ASSUME NEW i \in 0..m
        PROVE  (StartOf(i) \in Nat \ {0} /\ (signed => LaidAt(i, StartOf(i))))'
    <3>1. CASE i = m
      <4>1. ASSUME signed PROVE LaidAt(m, first)'
        <5>1. ptr'[m].db = Place(n, first).db /\ ptr'[m].ib = Place(n, first).ib
          BY <1>5, <1>10, <4>1
        <5>2. \A x \in Indirect(n, first) : records'[x] = recs[x]
          BY <1>6, <1>9, <4>1 DEF Override
        <5> QED BY <1>3, <1>5, <1>6, <5>1, <5>2 DEF LaidAt
      <4> QED BY <1>4, <1>6, <1>11, <3>1, <4>1
    <3>2. CASE i # m
      <4>1. i \in 0..(m - 1)
        BY <1>2, <3>2
      <4>2. PICK b \in Nat \ {0} : b = StartOf(i) /\ (signed => LaidAt(i, b))
        BY <1>14, <4>1 DEF LayoutInv, Placed
      <4>3. ASSUME signed PROVE LaidAt(i, b)'
        <5>1. Indirect(size[i], b) = IndirectOf(i)
          BY <4>2, <4>3 DEF IndirectOf
        <5>2. ASSUME NEW x \in Indirect(size[i], b) PROVE records'[x] = records[x]
          <6>1. x \in Nat /\ x < next
            BY <1>14, <1>15, <4>1, <5>1, <5>2
          <6>2. x \notin DOMAIN recs
            BY <1>1, <1>9, <4>3, <6>1 DEF LayoutInv, Typed
          <6>3. x \in DOMAIN records
            BY <1>14, <4>1, <5>1, <5>2 DEF LayoutInv, Placed
          <6> QED BY <1>6, <4>3, <6>2, <6>3 DEF Override
        <5>3. ptr'[i] = ptr[i] /\ size'[i] = size[i]
          BY <1>6, <1>10, <4>1
        <5> QED BY <4>2, <4>3, <5>2, <5>3, <1>6 DEF LaidAt
      <4>4. StartOf(i)' = b
        BY <1>11, <4>1, <4>2
      <4> QED BY <1>6, <4>2, <4>3, <4>4
    <3> QED BY <3>1, <3>2
  <2>3. DOMAIN records' = UNION {IndirectOf(i)' : i \in 0..m}
    <3>1. DOMAIN records = UNION {IndirectOf(i) : i \in 0..(m - 1)}
      BY <1>2 DEF LayoutInv, Placed
    <3>2. DOMAIN records' = DOMAIN records \cup IndirectOf(m)'
      <4>1. CASE signed
        <5>1. DOMAIN records' = DOMAIN records \cup DOMAIN recs
          BY <1>6, <4>1 DEF Override
        <5> QED BY <1>9, <1>12, <4>1, <5>1
      <4>2. CASE ~signed
        BY <1>6, <1>12, <4>2
      <4> QED BY <4>1, <4>2
    <3>3. 0..m = 0..(m - 1) \cup {m}
      BY <1>2
    <3>4. \A i \in 0..(m - 1) : IndirectOf(i)' = IndirectOf(i)
      BY <1>12
    <3> QED BY <3>1, <3>2, <3>3, <3>4
  <2> QED BY <1>2, <2>1, <2>2, <2>3 DEF Placed
<1>18. Covered'
  <2>1. reserved' \subseteq Nat
    BY <1>6 DEF LayoutInv, Covered, Typed
  <2>2. ASSUME NEW x \in Nat
        PROVE  x < end <=> \/ x <= InodeBlocks \/ x \in reserved'
                           \/ \E i \in 0..m : x \in Span(i)'
    <3>1. x < next <=> \/ x <= InodeBlocks \/ x \in reserved
                       \/ \E i \in 0..(m - 1) : x \in Span(i)
      BY <1>2 DEF LayoutInv, Covered
    <3>2. (\E i \in 0..m : x \in Span(i)') 
            <=> (\E i \in 0..(m - 1) : x \in Span(i)) \/ x \in first..(end - 1)
      <4>1. 0..m = 0..(m - 1) \cup {m}
        BY <1>2
      <4> QED BY <1>13, <4>1
    <3>3. x \in reserved' <=> x \in reserved \/ x \in next..(first - 1)
      BY <1>6
    <3>4. next \in Nat /\ next <= first /\ first < end
      BY <1>1, <1>8 DEF LayoutInv, Typed
    <3> QED BY <1>8, <3>1, <3>2, <3>3, <3>4
  <2> QED BY <1>2, <1>6, <2>1, <2>2 DEF Covered
<1>19. Apart'
  <2>0. PICK f \in Nat, a \in Nat : f = InodeBlocks /\ a = next /\ f < a /\ a <= first
    <3>1. InodeBlocks \in Nat
      BY InodeNumbers DEF LayoutInv
    <3>2. InodeBlocks < next
      BY <3>1 DEF LayoutInv, Covered
    <3> QED BY <1>1, <3>1, <3>2 DEF LayoutInv, Typed
  <2>1. \A x \in reserved : x \in Nat /\ x > f /\ x < a
    BY <2>0 DEF LayoutInv, Covered, Apart
  <2>2. \A x \in reserved' : x > f /\ x < first
    <3>1. reserved' = reserved \cup (a..(first - 1))
      BY <1>6, <2>0
    <3> QED BY <2>0, <2>1, <3>1
  <2>3. \A i \in 0..(m - 1) : \A x \in Span(i) : x \in Nat /\ x > f /\ x \notin reserved /\ x < a
    BY <1>2, <1>15, <2>0 DEF LayoutInv, Apart
  <2>4. ASSUME NEW i \in 0..m, NEW x \in Span(i)'
        PROVE  x > f /\ x \notin reserved'
    <3>1. CASE i = m
      <4>1. x \in first..(end - 1)
        BY <1>13, <2>4, <3>1
      <4> QED BY <1>8, <2>0, <2>2, <4>1
    <3>2. CASE i # m
      <4>1. i \in 0..(m - 1)
        BY <1>2, <3>2
      <4>2. x \in Span(i)
        BY <1>13, <2>4, <4>1
      <4>3. x \in Nat /\ x > f /\ x \notin reserved /\ x < a
        BY <2>3, <4>1, <4>2
      <4>4. x \notin a..(first - 1)
        BY <2>0, <4>3
      <4> QED BY <1>6, <2>0, <4>3, <4>4
    <3> QED BY <3>1, <3>2
  <2>5. ASSUME NEW i \in 0..(m - 1)
        PROVE  Span(i)' \cap Span(m)' = {}
    <3>1. \A x \in Span(i) : x \in Nat /\ x < a
      BY <2>3
    <3>2. \A x \in first..(end - 1) : x >= a
      BY <1>8, <2>0
    <3> QED BY <1>13, <2>0, <3>1, <3>2
  <2>6. ASSUME NEW i \in 0..m, NEW j \in 0..m, i # j
        PROVE  Span(i)' \cap Span(j)' = {}
    <3>1. CASE i # m /\ j # m
      <4>1. i \in 0..(m - 1) /\ j \in 0..(m - 1)
        BY <1>2, <3>1
      <4> QED BY <1>2, <1>13, <2>6, <4>1 DEF LayoutInv, Apart
    <3>2. CASE i # m /\ j = m
      <4>1. i \in 0..(m - 1)
        BY <1>2, <3>2
      <4> QED BY <2>5, <3>2, <4>1
    <3>3. CASE i = m /\ j # m
      <4>1. j \in 0..(m - 1)
        BY <1>2, <3>3
      <4> QED BY <2>5, <3>3, <4>1
    <3> QED BY <2>6, <3>1, <3>2, <3>3
  <2> QED BY <1>2, <1>6, <2>0, <2>2, <2>4, <2>6 DEF Apart
<1> QED BY <1>16, <1>17, <1>18, <1>19 DEF LayoutInv

LEMMA LayoutStep ==
  ASSUME LayoutInv, [Next]_vars
  PROVE  LayoutInv'
<1>0. NoInode \in Nat /\ 0 \in 0..NoInode /\ node \in 0..NoInode /\ Inodes = 0..(NoInode - 1)
  BY InodeNumbers DEF LayoutInv, Typed
<1>1. CASE LayOut
  BY <1>1, LayOutKeeps
<1>2. CASE TooLarge
  <2>1. LaidInodes' = LaidInodes /\ UNCHANGED <<inputs, next, ptr, records, reserved>>
        /\ node' \in 0..NoInode
    BY <1>0, <1>2 DEF TooLarge, LaidInodes, HasLayout, layoutVars
  <2> QED BY <2>1, LayoutKept
<1>3. CASE LaidOut
  <2>1. UNCHANGED <<inputs, next, ptr, records, reserved>> /\ node' \in 0..NoInode
    BY <1>0, <1>3 DEF LaidOut
  <2>2. LaidInodes' = LaidInodes
    BY <1>0, <1>3 DEF LaidOut, LaidInodes, HasLayout, inputs, Inodes
  <2> QED BY <2>1, <2>2, LayoutKept
<1>4. CASE WriteInode
  <2>1. LaidInodes' = LaidInodes /\ UNCHANGED <<inputs, next, ptr, records, reserved>>
    BY <1>4 DEF WriteInode, LaidInodes, HasLayout, layoutVars, inputs, Inodes
  <2>2. node' \in 0..NoInode
    BY <1>0, <1>4 DEF WriteInode
  <2> QED BY <2>1, <2>2, LayoutKept
<1>5. CASE Written
  <2>1. LaidInodes' = LaidInodes /\ UNCHANGED <<inputs, next, ptr, records, reserved>>
        /\ node' \in 0..NoInode
    BY <1>0, <1>5 DEF Written, LaidInodes, HasLayout, layoutVars, inputs, Inodes
  <2> QED BY <2>1, LayoutKept
<1>6. CASE SignLevel
  <2>1. LaidInodes' = LaidInodes /\ UNCHANGED <<inputs, next, ptr, records, reserved>>
        /\ node' \in 0..NoInode
    BY <1>0, <1>6 DEF SignLevel, LaidInodes, HasLayout, layoutVars, inputs, Inodes
  <2> QED BY <2>1, LayoutKept
<1>7. CASE Signed
  <2>1. LaidInodes' = LaidInodes /\ UNCHANGED <<inputs, next, ptr, records, reserved>>
        /\ node' \in 0..NoInode
    BY <1>0, <1>7 DEF Signed, LaidInodes, HasLayout, layoutVars, inputs, Inodes
  <2> QED BY <2>1, LayoutKept
<1>8. CASE VerifyInode
  <2>0. phase' \in {"crashed", "verify"} /\ phase = "verify" /\ size' = size
        /\ UNCHANGED <<inputs, next, ptr, records, reserved>>
        /\ node # NoInode /\ node' = node + 1
    BY <1>8 DEF VerifyInode, layoutVars, inputs
  <2>1. LaidInodes' = LaidInodes /\ node' \in 0..NoInode
    BY <1>0, <2>0 DEF LaidInodes, HasLayout, Inodes
  <2> QED BY <2>0, <2>1, LayoutKept
<1>9. CASE Verified
  <2>1. LaidInodes' = LaidInodes /\ UNCHANGED <<inputs, next, ptr, records, reserved>>
        /\ node' \in 0..NoInode
    BY <1>0, <1>9 DEF Verified, LaidInodes, HasLayout, layoutVars, inputs, Inodes
  <2> QED BY <2>1, LayoutKept
<1>10. CASE UNCHANGED vars
  <2>1. LaidInodes' = LaidInodes /\ UNCHANGED <<inputs, next, ptr, records, reserved>>
        /\ node' \in 0..NoInode
    BY <1>0, <1>10 DEF vars, LaidInodes, HasLayout, inputs, Inodes
  <2> QED BY <2>1, LayoutKept
<1> QED BY <1>1, <1>2, <1>3, <1>4, <1>5, <1>6, <1>7, <1>8, <1>9, <1>10 DEF Next

(* The inductive invariant of the layout: what has been laid out is placed *)
(* as assign_signed_inode_layout places it, each in a span of its own, and *)
(* the spans, the fixed and the reserved blocks are all that was handed    *)
(* out.                                                                    *)
THEOREM LayoutInvariant == Spec => []LayoutInv
BY LayoutInit, LayoutStep, PTL DEF Spec

LEMMA LayoutPartitions ==
  ASSUME LayoutInv
  PROVE  BlocksPartitioned
<1> SUFFICES ASSUME HasLayout
             PROVE  BlocksPartitioned
  BY DEF BlocksPartitioned
<1> DEFINE payload(i) == ToSet(PayloadBlocks(i))
           fixed == 0..InodeBlocks
<1>1. /\ LaidInodes = Inodes /\ next \in Nat /\ InodeBlocks \in Nat
      /\ \A i \in Inodes : size[i] \in Nat \ {0} /\ StartOf(i) \in Nat
      /\ DOMAIN records = UNION {IndirectOf(i) : i \in Inodes}
  BY InodeNumbers DEF LaidInodes, LayoutInv, Typed, Placed
<1>2. ASSUME NEW i \in Inodes
      PROVE  /\ payload(i) \cup IndirectOf(i) = Span(i)
             /\ payload(i) \cap IndirectOf(i) = {}
             /\ Span(i) \subseteq Nat
  <2>1. payload(i) = {PayloadAt(i, k) : k \in 1..size[i]}
    <3>1. PayloadBlocks(i) = [k \in 1..size[i] |-> PayloadAt(i, k)]
      BY <1>1, SpanOf
    <3> QED BY <3>1 DEF ToSet
  <2>2. /\ EndOf(i) \in Nat
        /\ IndirectOf(i) \subseteq Span(i)
        /\ \A k \in 1..size[i] : PayloadAt(i, k) \in Span(i) /\ PayloadAt(i, k) \notin IndirectOf(i)
        /\ \A x \in Span(i) :
              x \in IndirectOf(i) \/ \E k \in 1..size[i] : x = PayloadAt(i, k)
    BY <1>1, SpanOf
  <2>3. Span(i) \subseteq Nat
    BY <1>1, <2>2 DEF Span
  <2> HIDE DEF payload
  <2> QED BY <2>1, <2>2, <2>3
<1> HIDE DEF payload
<1>3. \A i, j \in Inodes : i # j => Span(i) \cap Span(j) = {}
  BY <1>1 DEF LayoutInv, Apart
<1>4. /\ fixed \cap reserved = {}
      /\ \A i \in Inodes : Span(i) \cap fixed = {} /\ Span(i) \cap reserved = {}
  BY <1>1 DEF LayoutInv, Apart
<1>5. \A x : x \in 0..(next - 1) <=>
               x \in fixed \/ x \in reserved \/ \E i \in Inodes : x \in Span(i)
  <2>1. reserved \subseteq Nat
    BY DEF LayoutInv, Covered
  <2>2. \A x \in Nat : x < next <=> \/ x <= InodeBlocks \/ x \in reserved
                                    \/ \E i \in Inodes : x \in Span(i)
    BY <1>1 DEF LayoutInv, Covered
  <2>3. \A i \in Inodes : Span(i) \subseteq Nat
    BY <1>2
  <2>4. \A x : x \in 0..(next - 1) <=> x \in Nat /\ x < next
    BY <1>1
  <2>5. \A x : x \in fixed <=> x \in Nat /\ x <= InodeBlocks
    BY <1>1
  <2> HIDE DEF fixed
  <2> QED BY <2>1, <2>2, <2>3, <2>4, <2>5
<1>6. fixed \cup reserved \cup DOMAIN records \cup UNION {payload(i) : i \in Inodes}
        = 0..(next - 1)
  <2> HIDE DEF fixed
  <2> QED BY <1>1, <1>2, <1>5
<1>7. (fixed \cup reserved) \cap DOMAIN records = {}
  <2> HIDE DEF fixed
  <2> QED BY <1>1, <1>2, <1>4
<1>8. \A i \in Inodes : payload(i) \cap (fixed \cup reserved \cup DOMAIN records) = {}
  <2> HIDE DEF fixed
  <2>1. ASSUME NEW i \in Inodes, NEW x \in payload(i) PROVE x \notin DOMAIN records
    <3> SUFFICES ASSUME NEW j \in Inodes, x \in IndirectOf(j) PROVE FALSE
      BY <1>1
    <3>1. x \in Span(i) /\ x \notin IndirectOf(i) /\ x \in Span(j)
      BY <1>2, <2>1
    <3> QED BY <1>3, <3>1
  <2>2. ASSUME NEW i \in Inodes, NEW x \in payload(i) PROVE x \notin fixed /\ x \notin reserved
    BY <1>2, <1>4, <2>2
  <2> QED BY <2>1, <2>2
<1>9. \A i, j \in Inodes : i # j => payload(i) \cap payload(j) = {}
  BY <1>2, <1>3
<1> DEFINE sets == [i \in Inodes |-> ToSet(PayloadBlocks(i))]
<1>10. \A i \in Inodes : sets[i] = payload(i)
  BY DEF payload
<1>11. UNION {sets[i] : i \in Inodes} = UNION {payload(i) : i \in Inodes}
  BY <1>10
<1> HIDE DEF sets
<1>12. /\ 0..InodeBlocks \cup reserved \cup DOMAIN records \cup UNION {sets[i] : i \in Inodes}
            = 0..(next - 1)
       /\ 0..InodeBlocks \cap reserved = {}
       /\ (0..InodeBlocks \cup reserved) \cap DOMAIN records = {}
       /\ \A i \in Inodes :
            sets[i] \cap (0..InodeBlocks \cup reserved \cup DOMAIN records) = {}
       /\ \A i, j \in Inodes : i # j => sets[i] \cap sets[j] = {}
  BY <1>4, <1>6, <1>7, <1>8, <1>9, <1>10, <1>11
<1> QED BY <1>12 DEF BlocksPartitioned, sets

(* No block of an image is handed out twice and none is lost, for every    *)
(* number and size of payloads, signed or not.                             *)
THEOREM BlocksArePartitioned == Spec => []BlocksPartitioned
BY LayoutInvariant, LayoutPartitions, PTL

-----------------------------------------------------------------------------
(* The contents of the image                                               *)

(* The inodes whose payload has been written.                              *)
WrittenInodes ==
  IF HasContent THEN Inodes ELSE IF phase = "write" THEN 0..(node - 1) ELSE {}

Stored(i) ==
  \A k \in 1..size[i] : /\ PayloadAt(i, k) \in DOMAIN content
                        /\ content[PayloadAt(i, k)] = <<i, k>>

ContentInv == \A i \in WrittenInodes : Stored(i)

LEMMA ContentKept ==
  ASSUME ContentInv, UNCHANGED <<inputs, ptr, content>>, WrittenInodes' = WrittenInodes
  PROVE  ContentInv'
<1>1. signed' = signed /\ size' = size /\ ptr' = ptr /\ content' = content
  BY DEF inputs
<1>2. \A i, k : PayloadAt(i, k)' = PayloadAt(i, k)
  BY <1>1 DEF PayloadAt, StartOf
<1>3. \A i : Stored(i)' <=> Stored(i)
  BY <1>1, <1>2 DEF Stored
<1> QED BY <1>3 DEF ContentInv

LEMMA WriteInodeStores ==
  ASSUME LayoutInv, ContentInv, WriteInode
  PROVE  ContentInv'
<1>0. PICK m : m = node
  OBVIOUS
<1>1. /\ m \in Inodes /\ m \in Nat /\ LaidInodes = Inodes
      /\ WrittenInodes = 0..(m - 1) /\ WrittenInodes' = 0..m /\ 0..m \subseteq Inodes
  <2>1. /\ phase = "write" /\ phase' = "write" /\ m # NoInode /\ node' = m + 1
    BY <1>0 DEF WriteInode
  <2>2. NoInode \in Nat \ {0} /\ Inodes = 0..(NoInode - 1) /\ m \in 0..NoInode
    BY <1>0, InodeNumbers DEF LayoutInv, Typed
  <2>3. m + 1 - 1 = m
    BY <2>2
  <2>4. WrittenInodes = 0..(m - 1) /\ WrittenInodes' = 0..m /\ LaidInodes = Inodes
    <3>1. ~HasContent /\ ~HasContent' /\ HasLayout
      BY <2>1 DEF HasContent, HasLayout
    <3>2. WrittenInodes = 0..(node - 1) /\ WrittenInodes' = 0..(node' - 1)
      BY <2>1, <3>1 DEF WrittenInodes
    <3>3. node' - 1 = m
      BY <2>1, <2>2
    <3>4. WrittenInodes' = 0..m
      BY <3>2, <3>3
    <3>5. WrittenInodes = 0..(m - 1)
      BY <1>0, <3>2
    <3> QED BY <3>1, <3>4, <3>5 DEF LaidInodes
  <2> QED BY <2>1, <2>2, <2>4
<1>2. PICK n \in Nat \ {0} : n = size[m]
  BY <1>1, InodeNumbers DEF LayoutInv
<1>3. /\ PayloadBlocks(m) = [k \in 1..n |-> PayloadAt(m, k)]
      /\ \A k, l \in 1..n : PayloadAt(m, k) = PayloadAt(m, l) => k = l
      /\ \A k \in 1..n : PayloadAt(m, k) \in Span(m)
  <2>1. /\ PayloadBlocks(m) = [k \in 1..size[m] |-> PayloadAt(m, k)]
        /\ \A k, l \in 1..size[m] : PayloadAt(m, k) = PayloadAt(m, l) => k = l
        /\ \A k \in 1..size[m] : PayloadAt(m, k) \in Span(m)
    BY <1>1, <1>2, SpanOf
  <2> QED BY <1>2, <2>1
<1> DEFINE number(b) == CHOOSE k \in 1..size[m] : PayloadBlocks(m)[k] = b
<1>4. content' = Override(content, [b \in ToSet(PayloadBlocks(m)) |-> <<m, number(b)>>])
  BY <1>0 DEF WriteInode
<1>5. \A k \in 1..n : number(PayloadAt(m, k)) = k
  BY <1>2, <1>3
<1>6. ToSet(PayloadBlocks(m)) = {PayloadAt(m, k) : k \in 1..n}
  BY <1>3 DEF ToSet
<1> HIDE DEF number
<1>7. /\ DOMAIN content' = DOMAIN content \cup {PayloadAt(m, k) : k \in 1..n}
      /\ \A k \in 1..n : content'[PayloadAt(m, k)] = <<m, k>>
      /\ \A b \in DOMAIN content : (\A k \in 1..n : b # PayloadAt(m, k)) => content'[b] = content[b]
  BY <1>4, <1>5, <1>6 DEF Override
<1>8. signed' = signed /\ size' = size /\ ptr' = ptr
  BY DEF WriteInode, inputs, layoutVars
<1>9. \A i, k : PayloadAt(i, k)' = PayloadAt(i, k)
  BY <1>8 DEF PayloadAt, StartOf
<1>10. ASSUME NEW i \in 0..m
       PROVE  Stored(i)'
  <2>1. CASE i = m
    <3>1. \A k \in 1..n : PayloadAt(i, k) \in DOMAIN content' 
                          /\ content'[PayloadAt(i, k)] = <<i, k>>
      BY <1>7, <2>1
    <3> QED BY <1>2, <1>8, <1>9, <2>1, <3>1 DEF Stored
  <2>2. CASE i # m
    <3>1. i \in 0..(m - 1) /\ i \in Inodes
      BY <1>1, <2>2
    <3>2. \A k \in 1..size[i] : PayloadAt(i, k) \in Span(i)
      <4>1. size[i] \in Nat \ {0}
        BY <3>1, InodeNumbers DEF LayoutInv
      <4> QED BY <1>1, <3>1, <4>1, SpanOf
    <3>3. Span(i) \cap Span(m) = {}
      BY <1>1, <2>2, <3>1 DEF LayoutInv, Apart
    <3>4. Stored(i)
      BY <1>1, <3>1 DEF ContentInv
    <3>5. ASSUME NEW k \in 1..size[i]
          PROVE  /\ PayloadAt(i, k) \in DOMAIN content'
                 /\ content'[PayloadAt(i, k)] = <<i, k>>
      <4>1. PICK b : b = PayloadAt(i, k)
        OBVIOUS
      <4>2. b \in DOMAIN content /\ content[b] = <<i, k>>
        BY <3>4, <4>1 DEF Stored
      <4>3. \A l \in 1..n : b # PayloadAt(m, l)
        BY <1>3, <3>2, <3>3, <4>1
      <4>4. b \in DOMAIN content' /\ content'[b] = content[b]
        BY <1>7, <4>2, <4>3
      <4> QED BY <4>1, <4>2, <4>4
    <3> QED BY <1>8, <1>9, <3>5 DEF Stored
  <2> QED BY <2>1, <2>2
<1> QED BY <1>1, <1>10 DEF ContentInv

LEMMA ContentStep ==
  ASSUME LayoutInv, ContentInv, [Next]_vars
  PROVE  ContentInv'
<1>0. NoInode \in Nat /\ Inodes = 0..(NoInode - 1) /\ size' = size
  <2>1. size' = size
    BY DEF Next, vars, inputs, LayOut, TooLarge, LaidOut, WriteInode, Written, SignLevel,
           Signed, VerifyInode, Verified
  <2> QED BY <2>1, InodeNumbers DEF LayoutInv
<1>1. CASE LayOut \/ TooLarge
  <2>1. WrittenInodes' = {}
    BY <1>1 DEF LayOut, TooLarge, WrittenInodes, HasContent, HasLayout
  <2> QED BY <2>1 DEF ContentInv
<1>2. CASE LaidOut
  <2>1. phase' = "write" /\ node' = 0 /\ 0..(0 - 1) = {}
    BY <1>2 DEF LaidOut
  <2>2. WrittenInodes' = {}
    BY <2>1 DEF WrittenInodes, HasContent, HasLayout
  <2> QED BY <2>2 DEF ContentInv
<1>3. CASE WriteInode
  BY <1>3, WriteInodeStores
<1>4. CASE Written
  <2>1. UNCHANGED <<inputs, ptr, content>>
    BY <1>4 DEF Written, layoutVars
  <2>2. WrittenInodes' = WrittenInodes
    BY <1>0, <1>4 DEF Written, WrittenInodes, HasContent, HasLayout, Inodes
  <2> QED BY <2>1, <2>2, ContentKept
<1>5. CASE SignLevel \/ Signed \/ Verified
  <2>1. UNCHANGED <<inputs, ptr, content>>
    BY <1>5 DEF SignLevel, Signed, Verified, layoutVars
  <2>2. WrittenInodes' = WrittenInodes
    BY <1>0, <1>5 DEF SignLevel, Signed, Verified, WrittenInodes, HasContent, HasLayout, Inodes
  <2> QED BY <2>1, <2>2, ContentKept
<1>6. CASE VerifyInode
  <2>1. UNCHANGED <<inputs, ptr, content>>
    BY <1>6 DEF VerifyInode, layoutVars
  <2>2. phase = "verify" /\ phase' \in {"crashed", "verify"}
    BY <1>6 DEF VerifyInode
  <2>3. WrittenInodes' = WrittenInodes
    BY <1>0, <2>2 DEF WrittenInodes, HasContent, HasLayout, Inodes
  <2> QED BY <2>1, <2>3, ContentKept
<1>7. CASE UNCHANGED vars
  <2>1. UNCHANGED <<inputs, ptr, content>> /\ WrittenInodes' = WrittenInodes
    BY <1>7 DEF vars, inputs, WrittenInodes, HasContent, HasLayout, Inodes
  <2> QED BY <2>1, ContentKept
<1> QED BY <1>1, <1>2, <1>3, <1>4, <1>5, <1>6, <1>7 DEF Next

LEMMA StoredReadBack ==
  ASSUME LayoutInv, ContentInv
  PROVE  PayloadsReadBack
<1> SUFFICES ASSUME HasContent, NEW i \in Inodes
             PROVE  /\ Len(PayloadBlocks(i)) = size[i]
                    /\ ToSet(PayloadBlocks(i)) \subseteq DOMAIN content
                    /\ \A k \in 1..size[i] : content[PayloadBlocks(i)[k]] = <<i, k>>
  BY DEF PayloadsReadBack
<1>1. i \in LaidInodes /\ Stored(i)
  BY DEF LaidInodes, HasContent, ContentInv, WrittenInodes
<1>2. PICK n \in Nat \ {0} : n = size[i]
  BY InodeNumbers DEF LayoutInv
<1>3. PayloadBlocks(i) = [k \in 1..n |-> PayloadAt(i, k)]
  <2>1. PayloadBlocks(i) = [k \in 1..size[i] |-> PayloadAt(i, k)]
    BY <1>1, <1>2, SpanOf
  <2> QED BY <1>2, <2>1
<1>4. \A k \in 1..n : PayloadAt(i, k) \in DOMAIN content /\ content[PayloadAt(i, k)] = <<i, k>>
  BY <1>1, <1>2 DEF Stored
<1>5. ToSet(PayloadBlocks(i)) \subseteq DOMAIN content
  BY <1>3, <1>4 DEF ToSet
<1>6. Len(PayloadBlocks(i)) = n
  BY <1>3
<1> QED BY <1>2, <1>3, <1>4, <1>5, <1>6

(* What a reader reassembles is what was written: write_payload_to_blocks  *)
(* of a later inode never falls on an earlier one's blocks, and reader and *)
(* writer count through the same blocks.                                   *)
THEOREM PayloadsAreReadBack == Spec => []PayloadsReadBack
<1>1. Init => ContentInv
  BY DEF Init, ContentInv, WrittenInodes, HasContent, HasLayout
<1>2. LayoutInv /\ ContentInv /\ [Next]_vars => ContentInv'
  BY ContentStep
<1>3. LayoutInv /\ ContentInv => PayloadsReadBack
  BY StoredReadBack
<1> QED BY <1>1, <1>2, <1>3, LayoutInvariant, PTL DEF Spec

-----------------------------------------------------------------------------
(* The signatures                                                          *)

InodeTargets(i) == TargetsOf(i, Place(size[i], StartOf(i)))
TableTargets == {Target(1 + k, HeaderSlot(k), 3) : k \in 0..(InodeBlocks - 1)}
PayloadTargets == UNION {InodeTargets(i) : i \in LaidInodes}
DigestTarget == Target(0, DigestSlot, 4)
DigestTargets == IF HasLayout THEN {DigestTarget} ELSE {}

TargetsKnown ==
  targets = IF signed THEN TableTargets \cup PayloadTargets \cup DigestTargets ELSE {}

(* The level at which a block is hashed.                                   *)
Rank(x) ==
  IF x = 0 THEN 4
  ELSE IF x <= InodeBlocks THEN 3
  ELSE IF x \notin DOMAIN records THEN 0
  ELSE IF \E i \in LaidInodes : RestOf(size[i]) > 0 /\ x = Ib1(size[i], StartOf(i)) THEN 2
  ELSE 1

LEMMA Ranks ==
  ASSUME LayoutInv, signed, NEW i \in LaidInodes,
         NEW n \in Nat \ {0}, n = size[i], NEW b \in Nat \ {0}, b = StartOf(i)
  PROVE  /\ \A k \in 1..n : Rank(BlockAt(n, b, k)) = 0
         /\ n > DirectOf(n) => Rank(Ib0(n, b)) = 1
         /\ RestOf(n) > 0 => Rank(Ib1(n, b)) = 2
         /\ \A j \in 1..GroupsOf(n) : Rank(GroupAt(n, b, j)) = 1
<1>1. /\ IndirectOf(i) = Indirect(n, b) /\ Indirect(n, b) \subseteq Span(i)
      /\ Span(i) \subseteq Nat
      /\ \A k \in 1..n : BlockAt(n, b, k) \in Span(i) /\ BlockAt(n, b, k) \notin Indirect(n, b)
  <2>1. /\ EndOf(i) \in Nat /\ IndirectOf(i) \subseteq Span(i)
        /\ \A k \in 1..size[i] : PayloadAt(i, k) \in Span(i) /\ PayloadAt(i, k) \notin IndirectOf(i)
    BY SpanOf
  <2>2. /\ IndirectOf(i) = Indirect(n, b)
        /\ \A k : PayloadAt(i, k) = BlockAt(n, b, k)
    BY DEF IndirectOf, PayloadAt
  <2>3. Span(i) \subseteq Nat
    BY <2>1 DEF Span
  <2> QED BY <2>1, <2>2, <2>3
<1>2. InodeBlocks \in Nat
  BY InodeNumbers DEF LayoutInv
<1>3. \A x \in Span(i) : x \in Nat /\ x # 0 /\ ~(x <= InodeBlocks)
  BY <1>1, <1>2 DEF LayoutInv, Apart
<1>4. ASSUME NEW x \in Span(i)
      PROVE  x \in DOMAIN records <=> x \in Indirect(n, b)
  <2>1. ASSUME NEW j \in LaidInodes, x \in IndirectOf(j) PROVE j = i
    <3>1. size[j] \in Nat \ {0}
      <4>1. j \in Inodes
        <5>1. Inodes = 0..(NoInode - 1) /\ node \in 0..NoInode /\ NoInode \in Nat
          BY InodeNumbers DEF LayoutInv, Typed
        <5> QED BY <2>1, <5>1 DEF LaidInodes
      <4> QED BY <4>1, InodeNumbers DEF LayoutInv
    <3>2. x \in Span(j)
      BY <2>1, <3>1, SpanOf
    <3> QED BY <1>4, <2>1, <3>2 DEF LayoutInv, Apart
  <2> QED BY <1>1, <2>1 DEF LayoutInv, Placed
<1>5. ASSUME NEW x \in Span(i), NEW j \in LaidInodes,
             RestOf(size[j]) > 0, x = Ib1(size[j], StartOf(j))
      PROVE  x = Ib1(n, b) /\ RestOf(n) > 0
  <2>1. size[j] \in Nat \ {0}
    <3>1. j \in Inodes
      <4>1. Inodes = 0..(NoInode - 1) /\ node \in 0..NoInode /\ NoInode \in Nat
        BY InodeNumbers DEF LayoutInv, Typed
      <4> QED BY <1>5, <4>1 DEF LaidInodes
    <3> QED BY <3>1, InodeNumbers DEF LayoutInv
  <2>2. x \in IndirectOf(j)
    BY <1>5 DEF IndirectOf, Indirect
  <2>3. x \in Span(j)
    BY <1>5, <2>1, <2>2, SpanOf
  <2>4. j = i
    BY <1>5, <2>3 DEF LayoutInv, Apart
  <2> QED BY <1>5, <2>4
<1>6. \A x \in Span(i) :
        Rank(x) = IF x \notin Indirect(n, b) THEN 0
                  ELSE IF RestOf(n) > 0 /\ x = Ib1(n, b) THEN 2 ELSE 1
  <2> SUFFICES ASSUME NEW x \in Span(i)
               PROVE  Rank(x) = IF x \notin Indirect(n, b) THEN 0
                                ELSE IF RestOf(n) > 0 /\ x = Ib1(n, b) THEN 2 ELSE 1
    OBVIOUS
  <2>1. x # 0 /\ ~(x <= InodeBlocks) /\ (x \in DOMAIN records <=> x \in Indirect(n, b))
    BY <1>3, <1>4
  <2>2. (\E j \in LaidInodes : RestOf(size[j]) > 0 /\ x = Ib1(size[j], StartOf(j)))
          <=> RestOf(n) > 0 /\ x = Ib1(n, b)
    BY <1>5
  <2> QED BY <2>1, <2>2 DEF Rank
<1>7. \A k \in 1..n : Rank(BlockAt(n, b, k)) = 0
  BY <1>1, <1>6
<1>8. Ib0(n, b) # Ib1(n, b) /\ \A j \in 1..GroupsOf(n) : GroupAt(n, b, j) # Ib1(n, b)
  <2>1. \A j \in 1..GroupsOf(n) : GroupAt(n, b, j) \in Nat /\ Ib1(n, b) < GroupAt(n, b, j)
    BY GroupOrder
  <2>2. Ib0(n, b) \in Nat \ {0} /\ Ib1(n, b) \in Nat \ {0} /\ Ib0(n, b) < Ib1(n, b)
    BY GroupOrder
  <2> QED BY <2>1, <2>2
<1>9. n > DirectOf(n) => Ib0(n, b) \in Indirect(n, b)
  BY DEF Indirect
<1>10. RestOf(n) > 0 => Ib1(n, b) \in Indirect(n, b)
  BY DEF Indirect
<1>11. \A j \in 1..GroupsOf(n) : GroupAt(n, b, j) \in Indirect(n, b)
  BY DEF Indirect
<1> QED BY <1>1, <1>6, <1>7, <1>8, <1>9, <1>10, <1>11

(* Every member of a group is a payload block.                             *)
LEMMA GroupMembers ==
  ASSUME NEW n \in Nat \ {0}, NEW b \in Nat \ {0},
         NEW j \in 1..GroupsOf(n), NEW k \in 1..InGroupOf(n, j)
  PROVE  \E l \in 1..n : GroupAt(n, b, j) + k = BlockAt(n, b, l)
<1>1. PICK s \in Nat \ {0}, r \in Nat, g \in Nat : 
        s = SigsPerBlock /\ r = RestOf(n) /\ g = GroupsOf(n)
  BY Sizes, Groups, LayoutAssumption
<1>2. r > 0
  <2>1. r = 0 => g = 0
    BY <1>1, Groups
  <2> QED BY <1>1, <2>1
<1>3. /\ (g - 1) * s < r /\ InGroupOf(n, g) = r - (g - 1) * s
      /\ InGroupOf(n, j) \in 1..s
  BY <1>1, <1>2, Groups
<1>4. PICK q \in Nat, c \in 0..(s - 1) : q = j - 1 /\ c = k - 1
  BY <1>1, <1>3
<1>5. PICK t \in Nat : t = q * s
  BY <1>4
<1>6. t + k <= r
  <2>1. CASE j < g
    <3>1. (q + 1) * s <= (g - 1) * s
      BY <1>1, <1>4, <2>1
    <3>2. (q + 1) * s = t + s
      BY <1>5
    <3>3. PICK w \in Int : w = (g - 1) * s
      BY <1>1
    <3> QED BY <1>3, <1>4, <3>1, <3>2, <3>3
  <2>2. CASE j = g
    <3>1. (g - 1) * s = t
      BY <1>4, <1>5, <2>2
    <3>2. InGroupOf(n, j) = r - t
      BY <1>3, <2>2, <3>1
    <3> QED BY <1>5, <3>2
  <2> QED BY <1>1, <2>1, <2>2
<1>7. PICK p \in 1..r : p = t + k
  BY <1>4, <1>5, <1>6
<1>8. (p - 1) \div s = q /\ (p - 1) % s = c
  <2>1. (q * s + c) \div s = q /\ (q * s + c) % s = c
    BY DivUnique
  <2>2. p - 1 = q * s + c
    BY <1>4, <1>5, <1>7
  <2> QED BY <2>1, <2>2
<1>9. LeafAt(n, b, p) = GroupAt(n, b, j) + k
  <2>1. q + 1 = j /\ c + 1 = k
    BY <1>4, <1>1, <1>3
  <2> QED BY <1>1, <1>8, <2>1 DEF LeafAt
<1>10. PICK d \in Nat, i \in Nat : d = DirectOf(n) /\ i = SimpleOf(n) /\ n = d + i + r
  BY <1>1, Sizes
<1>11. PICK l \in 1..n : l = d + i + p /\ l > d + i /\ l > d /\ l - d - i = p
  BY <1>10
<1>12. BlockAt(n, b, l) = LeafAt(n, b, p)
  BY <1>10, <1>11 DEF BlockAt
<1> QED BY <1>9, <1>11, <1>12

(* What a target of one inode is: its block is hashed at the target's      *)
(* level, and its slot lies in the inode or in an indirect block that is   *)
(* hashed later.                                                           *)
LEMMA InodeTargetKinds ==
  ASSUME LayoutInv, signed, NEW i \in LaidInodes, size[i] \in Nat \ {0},
         NEW t \in InodeTargets(i)
  PROVE  /\ t.block \in Span(i) /\ t.level = Rank(t.block) /\ t.level \in 0..2
         /\ \/ \E x \in 0..(Direct + 1) : t.slot = InodeSlot(i, x)
            \/ /\ t.slot[1] \in IndirectOf(i) /\ Rank(t.slot[1]) > t.level
               /\ \E k \in Nat \ {0} : t.slot = RecordSlot(t.slot[1], k)
<1>1. PICK n \in Nat \ {0}, b \in Nat \ {0} : n = size[i] /\ b = StartOf(i)
  BY DEF LayoutInv, Placed
<1> DEFINE P == Place(n, b)
           R == RecordsOf(P)
<1>2. /\ \A l \in 1..n : BlockAt(n, b, l) \in Span(i) /\ Rank(BlockAt(n, b, l)) = 0
      /\ Indirect(n, b) \subseteq Span(i) /\ IndirectOf(i) = Indirect(n, b)
  <2>1. /\ IndirectOf(i) \subseteq Span(i)
        /\ \A k \in 1..size[i] : PayloadAt(i, k) \in Span(i)
    BY SpanOf
  <2>2. IndirectOf(i) = Indirect(n, b) /\ \A k : PayloadAt(i, k) = BlockAt(n, b, k)
    BY <1>1 DEF IndirectOf, PayloadAt
  <2>3. \A l \in 1..n : Rank(BlockAt(n, b, l)) = 0
    BY <1>1, Ranks
  <2> QED BY <1>1, <2>1, <2>2, <2>3
<1>3. PICK d \in Nat \ {0}, s \in Nat, r \in Nat, g \in Nat : 
        /\ d = DirectOf(n) /\ s = SimpleOf(n) /\ r = RestOf(n) /\ g = GroupsOf(n)
        /\ n = d + s + r /\ (n > d <=> s > 0) /\ d <= Direct
  <2>1. DirectOf(n) <= Direct
    BY LayoutAssumption DEF DirectOf, Least
  <2> QED BY <2>1, Sizes, Groups
<1>4. /\ P.db = DirectRun(n, b) /\ P.simple = SimpleRun(n, b) /\ P.groups = GroupList(n, b)
      /\ P.leaves = LeafGroups(n, b)
      /\ P.ib[1] = IF n > d THEN Ib0(n, b) ELSE 0
      /\ P.ib[2] = IF r > 0 THEN Ib1(n, b) ELSE 0
  <2>1. P.ib = <<IF n > d THEN Ib0(n, b) ELSE 0, IF r > 0 THEN Ib1(n, b) ELSE 0>>
    BY <1>3, PlaceIs
  <2>2. /\ P.db = DirectRun(n, b) /\ P.simple = SimpleRun(n, b) /\ P.groups = GroupList(n, b)
        /\ P.leaves = LeafGroups(n, b)
    BY PlaceIs
  <2> HIDE DEF P
  <2> QED BY <2>1, <2>2
<1>5. t \in TargetsOf(i, P)
  BY <1>1 DEF InodeTargets
<1>6. /\ Ib0(n, b) # 0 /\ Ib1(n, b) # 0 /\ Ib0(n, b) # Ib1(n, b)
      /\ \A j \in 1..g : GroupAt(n, b, j) # Ib0(n, b) /\ GroupAt(n, b, j) # Ib1(n, b)
  <2>1. \A j \in 1..g : GroupAt(n, b, j) \in Nat /\ Ib1(n, b) < GroupAt(n, b, j)
    BY <1>3, GroupOrder
  <2>2. Ib0(n, b) \in Nat \ {0} /\ Ib1(n, b) \in Nat \ {0} /\ Ib0(n, b) < Ib1(n, b)
    BY GroupOrder
  <2> QED BY <2>1, <2>2
<1>7. /\ DOMAIN R = Indirect(n, b)
      /\ n > d => R[Ib0(n, b)] = P.simple
      /\ r > 0 => R[Ib1(n, b)] = P.groups
      /\ \A j \in 1..g : R[GroupAt(n, b, j)] = P.leaves[j]
  BY <1>3, RecordsOfIs
<1>8. /\ n > d => Rank(Ib0(n, b)) = 1
      /\ r > 0 => Rank(Ib1(n, b)) = 2
      /\ \A j \in 1..g : Rank(GroupAt(n, b, j)) = 1
  <2>1. n > DirectOf(n) => Rank(Ib0(n, b)) = 1
    BY <1>1, Ranks
  <2>2. RestOf(n) > 0 => Rank(Ib1(n, b)) = 2
    BY <1>1, Ranks
  <2>3. \A j \in 1..GroupsOf(n) : Rank(GroupAt(n, b, j)) = 1
    BY <1>1, Ranks
  <2> QED BY <1>3, <2>1, <2>2, <2>3
<1> HIDE DEF P, R
<1>9. CASE t \in {Target(P.db[k], InodeSlot(i, k - 1), 0) : k \in DOMAIN P.db}
  <2>1. PICK k \in DOMAIN P.db : t = Target(P.db[k], InodeSlot(i, k - 1), 0)
    BY <1>9
  <2>2. k \in 1..d /\ P.db[k] = b + k - 1
    BY <1>3, <1>4 DEF DirectRun
  <2>3. k \in 1..n /\ BlockAt(n, b, k) = b + k - 1
    BY <1>3, <2>2 DEF BlockAt
  <2>4. k - 1 \in 0..(Direct + 1)
    BY <1>3, <2>2, LayoutAssumption
  <2>5. t.block = BlockAt(n, b, k) /\ t.slot = InodeSlot(i, k - 1) /\ t.level = 0
    BY <2>1, <2>2, <2>3 DEF Target
  <2> QED BY <1>2, <2>3, <2>4, <2>5
<1>10. CASE t \in {Target(P.ib[k], InodeSlot(i, Direct + k - 1), k) :
                     k \in {x \in 1..2 : P.ib[x] # 0}}
  <2>1. PICK k \in 1..2 : P.ib[k] # 0 /\ t = Target(P.ib[k], InodeSlot(i, Direct + k - 1), k)
    BY <1>10
  <2>2. t.block = P.ib[k] /\ t.slot = InodeSlot(i, Direct + k - 1) /\ t.level = k
    BY <2>1 DEF Target
  <2>3. Direct + k - 1 \in 0..(Direct + 1)
    BY LayoutAssumption
  <2>4. P.ib[k] \in Indirect(n, b) /\ Rank(P.ib[k]) = k
    <3>1. CASE k = 1
      BY <1>3, <1>4, <1>8, <2>1, <3>1 DEF Indirect
    <3>2. CASE k = 2
      BY <1>3, <1>4, <1>8, <2>1, <3>2 DEF Indirect
    <3> QED BY <3>1, <3>2
  <2> QED BY <1>2, <2>2, <2>3, <2>4
<1>11. CASE t \in UNION {{Target(R[x][k], RecordSlot(x, k), IF x = P.ib[2] THEN 1 ELSE 0) :
                            k \in DOMAIN R[x]} : x \in DOMAIN R}
  <2>1. PICK x \in DOMAIN R : t \in {Target(R[x][k], RecordSlot(x, k), 
                                            IF x = P.ib[2] THEN 1 ELSE 0) : k \in DOMAIN R[x]}
    BY <1>11
  <2>2. PICK k \in DOMAIN R[x] : t = Target(R[x][k], RecordSlot(x, k), 
                                            IF x = P.ib[2] THEN 1 ELSE 0)
    BY <2>1
  <2>3. /\ t.block = R[x][k] /\ t.slot = RecordSlot(x, k) /\ t.slot[1] = x
        /\ t.level = IF x = P.ib[2] THEN 1 ELSE 0
    BY <2>2 DEF Target, RecordSlot
  <2>4. x \in Indirect(n, b) /\ x \in IndirectOf(i)
    BY <1>2, <1>7, <2>1
  <2>5. CASE n > d /\ x = Ib0(n, b)
    <3>1. k \in 1..s /\ R[x][k] = Ib0(n, b) + k
      BY <1>3, <1>4, <1>7, <2>2, <2>5 DEF SimpleRun
    <3>2. PICK l \in 1..n : l = d + k /\ l > d /\ l <= d + s /\ l - d = k
      BY <1>3, <3>1
    <3>3. BlockAt(n, b, l) = Ib0(n, b) + k
      BY <1>3, <3>2 DEF BlockAt
    <3>4. t.level = 0 /\ Rank(x) = 1
      BY <1>4, <1>6, <1>8, <2>3, <2>5
    <3> QED BY <1>2, <2>3, <2>4, <3>1, <3>2, <3>3, <3>4
  <2>6. CASE r > 0 /\ x = Ib1(n, b)
    <3>1. k \in 1..g /\ R[x][k] = GroupAt(n, b, k)
      BY <1>3, <1>4, <1>7, <2>2, <2>6 DEF GroupList
    <3>2. t.level = 1 /\ Rank(x) = 2
      BY <1>4, <1>8, <2>3, <2>6
    <3>3. GroupAt(n, b, k) \in Indirect(n, b) /\ Rank(GroupAt(n, b, k)) = 1
      BY <1>3, <1>8, <3>1 DEF Indirect
    <3> QED BY <1>2, <2>3, <2>4, <3>1, <3>2, <3>3
  <2>7. ASSUME NEW j \in 1..g, x = GroupAt(n, b, j)
        PROVE  /\ t.block \in Span(i) /\ t.level = Rank(t.block) /\ t.level \in 0..2
               /\ Rank(t.slot[1]) > t.level /\ k \in Nat \ {0}
    <3>1. R[x] = GroupRun(n, b, j)
      BY <1>3, <1>4, <1>7, <2>7 DEF LeafGroups
    <3>2. k \in 1..InGroupOf(n, j) /\ R[x][k] = GroupAt(n, b, j) + k
      BY <2>2, <3>1 DEF GroupRun
    <3>3. InGroupOf(n, j) \in Nat
      <4>1. InGroupOf(n, j) \in 1..SigsPerBlock
        BY <1>3, Groups
      <4> QED BY <4>1, LayoutAssumption
    <3>4. PICK l \in 1..n : GroupAt(n, b, j) + k = BlockAt(n, b, l)
      BY <1>3, <3>2, GroupMembers
    <3>5. x # P.ib[2]
      <4>1. GroupAt(n, b, j) # 0
        BY <1>3, GroupOrder
      <4> QED BY <1>4, <1>6, <2>7, <4>1
    <3>6. t.level = 0 /\ Rank(x) = 1
      BY <1>8, <2>3, <2>7, <3>5
    <3> QED BY <1>2, <2>3, <3>2, <3>3, <3>4, <3>6
  <2>8. (n > d /\ x = Ib0(n, b)) \/ (r > 0 /\ x = Ib1(n, b)) \/ \E j \in 1..g : x = GroupAt(n, b, j)
    BY <1>3, <2>4 DEF Indirect
  <2> QED BY <2>3, <2>4, <2>5, <2>6, <2>7, <2>8
<1> QED BY <1>5, <1>9, <1>10, <1>11 DEF TargetsOf, R

(* The slots of an inode lie in the inode table, apart from those of any   *)
(* other inode.                                                            *)
LEMMA InodeSlots ==
  ASSUME Typed
  PROVE  /\ \A i \in Inodes : \A x : InodeSlot(i, x)[1] \in 1..InodeBlocks
         /\ \A i, j \in Inodes : \A x, y : InodeSlot(i, x) = InodeSlot(j, y) => i = j /\ x = y
<1>1. PICK n \in Nat \ {0}, d \in Nat \ {0} :
        /\ n = NoInode /\ d = InodesPerBlock /\ Inodes = 0..(n - 1)
        /\ InodeBlocks = (n + d - 1) \div d
  BY InodeNumbers, LayoutAssumption DEF NoInode, InodeBlocks
<1>2. PICK f \in Nat, c \in 0..(d - 1) : f = InodeBlocks /\ n + d - 1 = f * d + c
  <2>1. PICK a \in Nat : a = n + d - 1
    OBVIOUS
  <2> QED BY <1>1, <2>1, DivMod
<1>3. ASSUME NEW i \in 0..(n - 1)
      PROVE  \E q \in 0..(f - 1) : \E m \in 0..(d - 1) : 
               i = q * d + m /\ \A x : InodeSlot(i, x) = <<1 + q, <<m, x>> >>
  <2>1. PICK q \in Nat, m \in 0..(d - 1) : q = i \div d /\ m = i % d /\ i = q * d + m
    BY DivMod
  <2>2. q < f
    <3> SUFFICES ASSUME q >= f PROVE FALSE
      BY <1>2, <2>1
    <3>1. f * d <= q * d
      BY <1>2, <2>1
    <3>2. PICK t \in Nat, u \in Nat : t = q * d /\ u = f * d
      BY <1>2, <2>1
    <3>3. i = t + m /\ n + d - 1 = u + c
      BY <1>2, <2>1, <3>2
    <3> QED BY <1>1, <1>2, <2>1, <3>1, <3>2, <3>3
  <2>3. \A x : InodeSlot(i, x) = <<1 + q, <<m, x>> >>
    BY <1>1, <2>1 DEF InodeSlot
  <2> QED BY <1>2, <2>1, <2>2, <2>3
<1>4. ASSUME NEW i \in 0..(n - 1), NEW x PROVE InodeSlot(i, x)[1] \in 1..f
  <2>1. PICK q \in 0..(f - 1), m \in 0..(d - 1) : InodeSlot(i, x) = <<1 + q, <<m, x>> >>
    BY <1>3
  <2> QED BY <1>2, <2>1
<1>5. ASSUME NEW i \in 0..(n - 1), NEW x, NEW j \in 0..(n - 1), NEW y,
             InodeSlot(i, x) = InodeSlot(j, y)
      PROVE  i = j /\ x = y
  <2>1. PICK q \in 0..(f - 1), m \in 0..(d - 1) : 
          i = q * d + m /\ InodeSlot(i, x) = <<1 + q, <<m, x>> >>
    BY <1>3
  <2>2. PICK v \in 0..(f - 1), w \in 0..(d - 1) : 
          j = v * d + w /\ InodeSlot(j, y) = <<1 + v, <<w, y>> >>
    BY <1>3
  <2>3. 1 + q = 1 + v /\ m = w /\ x = y
    BY <1>5, <2>1, <2>2
  <2>4. q = v
    BY <1>2, <2>1, <2>2, <2>3
  <2> QED BY <2>1, <2>2, <2>3, <2>4
<1> QED BY <1>1, <1>2, <1>4, <1>5

LEMMA InodeTargetsDiffer ==
  ASSUME LayoutInv, signed, NEW i \in LaidInodes, i \in Inodes, size[i] \in Nat \ {0},
         NEW t \in InodeTargets(i), NEW u \in InodeTargets(i), t.slot = u.slot
  PROVE  t = u
<1>1. PICK n \in Nat \ {0}, b \in Nat \ {0} : n = size[i] /\ b = StartOf(i)
  BY DEF LayoutInv, Placed
<1> DEFINE P == Place(n, b)
           R == RecordsOf(P)
           A == {Target(P.db[k], InodeSlot(i, k - 1), 0) : k \in DOMAIN P.db}
           B == {Target(P.ib[k], InodeSlot(i, Direct + k - 1), k) :
                   k \in {x \in 1..2 : P.ib[x] # 0}}
           C == UNION {{Target(R[x][k], RecordSlot(x, k), IF x = P.ib[2] THEN 1 ELSE 0) :
                          k \in DOMAIN R[x]} : x \in DOMAIN R}
<1>2. t \in A \cup B \cup C /\ u \in A \cup B \cup C
  BY <1>1 DEF InodeTargets, TargetsOf
<1>3. DOMAIN P.db \subseteq 1..Direct
  <2>1. DOMAIN P.db = 1..DirectOf(n)
    <3>1. P.db = DirectRun(n, b)
      BY PlaceIs
    <3> HIDE DEF P
    <3> QED BY <3>1 DEF DirectRun
  <2>2. DirectOf(n) \in Nat /\ DirectOf(n) <= Direct /\ Direct \in Nat
    BY Sizes, LayoutAssumption DEF DirectOf, Least
  <2> QED BY <2>1, <2>2
<1>4. DOMAIN R = IndirectOf(i) /\ InodeBlocks \in Nat
      /\ \A x \in IndirectOf(i) : x \in Nat /\ x > InodeBlocks
  <2>1. DOMAIN R = Indirect(n, b) /\ IndirectOf(i) = Indirect(n, b)
    BY <1>1, RecordsOfIs DEF IndirectOf
  <2>2. IndirectOf(i) \subseteq Span(i) /\ Span(i) \subseteq Nat
    <3>1. IndirectOf(i) \subseteq Span(i) /\ EndOf(i) \in Nat
      BY SpanOf
    <3> QED BY <1>1, <3>1 DEF Span
  <2>3. InodeBlocks \in Nat
    BY InodeNumbers DEF LayoutInv
  <2> QED BY <2>1, <2>2, <2>3 DEF LayoutInv, Apart
<1> HIDE DEF P, R
<1>5. \A v \in A : \E k \in 1..Direct : v = Target(P.db[k], InodeSlot(i, k - 1), 0)
  BY <1>3
<1>6. \A v \in B : \E k \in 1..2 : v = Target(P.ib[k], InodeSlot(i, Direct + k - 1), k)
  OBVIOUS
<1>7. \A v \in C : \E x, k : 
        x \in DOMAIN R /\ v = Target(R[x][k], RecordSlot(x, k), IF x = P.ib[2] THEN 1 ELSE 0)
  OBVIOUS
<1> HIDE DEF A, B, C
<1>8. \A x, y : InodeSlot(i, x) = InodeSlot(i, y) => x = y
  BY InodeSlots DEF LayoutInv
<1>9. \A v \in A \cup B : v.slot[1] \in 1..InodeBlocks
  <2>1. \A x : InodeSlot(i, x)[1] \in 1..InodeBlocks
    BY InodeSlots DEF LayoutInv
  <2> QED BY <1>5, <1>6, <2>1 DEF Target
<1>10. \A v \in C : v.slot[1] > InodeBlocks /\ v.slot[1] \in Nat
  BY <1>4, <1>7 DEF Target, RecordSlot
<1>11. ASSUME NEW v \in A, NEW w \in B, v.slot = w.slot PROVE FALSE
  <2>1. PICK k \in 1..Direct : v.slot = InodeSlot(i, k - 1)
    BY <1>5 DEF Target
  <2>2. PICK l \in 1..2 : w.slot = InodeSlot(i, Direct + l - 1)
    BY <1>6 DEF Target
  <2>3. k - 1 = Direct + l - 1
    BY <1>8, <1>11, <2>1, <2>2
  <2> QED BY <2>3, LayoutAssumption
<1>12. ASSUME t \in A, u \in A PROVE t = u
  <2>1. PICK k \in 1..Direct : t = Target(P.db[k], InodeSlot(i, k - 1), 0)
    BY <1>5, <1>12
  <2>2. PICK l \in 1..Direct : u = Target(P.db[l], InodeSlot(i, l - 1), 0)
    BY <1>5, <1>12
  <2>3. t.slot = InodeSlot(i, k - 1) /\ u.slot = InodeSlot(i, l - 1)
    BY <2>1, <2>2 DEF Target
  <2>4. k - 1 = l - 1
    BY <1>8, <2>3
  <2>5. k = l
    BY <2>4, LayoutAssumption
  <2> QED BY <2>1, <2>2, <2>5
<1>13. ASSUME t \in B, u \in B PROVE t = u
  <2>1. PICK k \in 1..2 : t = Target(P.ib[k], InodeSlot(i, Direct + k - 1), k)
    BY <1>6, <1>13
  <2>2. PICK l \in 1..2 : u = Target(P.ib[l], InodeSlot(i, Direct + l - 1), l)
    BY <1>6, <1>13
  <2>3. t.slot = InodeSlot(i, Direct + k - 1) /\ u.slot = InodeSlot(i, Direct + l - 1)
    BY <2>1, <2>2 DEF Target
  <2>4. Direct + k - 1 = Direct + l - 1
    BY <1>8, <2>3
  <2>5. k = l
    BY <2>4, LayoutAssumption
  <2> QED BY <2>1, <2>2, <2>5
<1>14. ASSUME t \in C, u \in C PROVE t = u
  <2>1. PICK x, k : 
          t = Target(R[x][k], RecordSlot(x, k), IF x = P.ib[2] THEN 1 ELSE 0)
    BY <1>7, <1>14
  <2>2. PICK y, l : 
          u = Target(R[y][l], RecordSlot(y, l), IF y = P.ib[2] THEN 1 ELSE 0)
    BY <1>7, <1>14
  <2>3. t.slot = RecordSlot(x, k) /\ u.slot = RecordSlot(y, l)
    BY <2>1, <2>2 DEF Target
  <2>4. x = y /\ k = l
    <3>0. PICK v, w : v = <<k>> /\ w = <<l>>
      OBVIOUS
    <3>3. t.slot = <<x, v>> /\ u.slot = <<y, w>>
      BY <2>3, <3>0 DEF RecordSlot
    <3>5. PICK a : a = <<x, v>> /\ a = <<y, w>>
      BY <3>3
    <3>6. a[1] = x /\ a[2] = v
      BY <3>5
    <3>7. a[1] = y /\ a[2] = w
      BY <3>5
    <3>4. x = y /\ v = w
      BY <3>6, <3>7
    <3>1. x = y /\ <<k>> = <<l>>
      BY <3>0, <3>4
    <3>2. <<k>>[1] = k /\ <<l>>[1] = l
      OBVIOUS
    <3> QED BY <3>1, <3>2
  <2> QED BY <2>1, <2>2, <2>4
<1>15. ASSUME NEW v \in A \cup B, NEW w \in C PROVE v.slot # w.slot
  BY <1>4, <1>9, <1>10
<1> QED BY <1>2, <1>11, <1>12, <1>13, <1>14, <1>15

(* The inode-table blocks of an image of n inodes.                         *)
TableBlocks(n) == (n + InodesPerBlock - 1) \div InodesPerBlock

(* The targets of a laid-out image.                                        *)
LEMMA TargetsAre ==
  ASSUME LayoutInv, TargetsKnown, HasLayout, NEW t \in targets
  PROVE  /\ signed /\ LaidInodes = Inodes
         /\ t = DigestTarget \/ t \in TableTargets \/ \E i \in Inodes : t \in InodeTargets(i)
<1>1. signed /\ LaidInodes = Inodes
  BY DEF TargetsKnown, LayoutInv, Typed, LaidInodes
<1>2. targets = TableTargets \cup PayloadTargets \cup {DigestTarget}
  BY <1>1 DEF TargetsKnown, DigestTargets
<1>3. t \in PayloadTargets => \E i \in Inodes : t \in InodeTargets(i)
  BY <1>1 DEF PayloadTargets
<1> QED BY <1>1, <1>2, <1>3

(* A block is hashed after every block whose signature it holds.           *)
LEMMA TargetsRanked ==
  ASSUME LayoutInv, TargetsKnown, HasLayout, NEW t \in targets
  PROVE  /\ t.block \in 0..(next - 1) /\ t.level \in 0..4 /\ t.level = Rank(t.block)
         /\ t # DigestTarget => Rank(t.slot[1]) > t.level
<1>1. signed /\ LaidInodes = Inodes
  BY TargetsAre
<1>2. PICK f \in Nat, a \in Nat : f = InodeBlocks /\ a = next /\ f < a /\ f >= 1
  <2>1. InodeBlocks \in Nat /\ InodeBlocks >= 1
    BY InodeNumbers DEF LayoutInv
  <2>2. InodeBlocks < next
    BY <2>1 DEF LayoutInv, Covered
  <2> QED BY <2>1, <2>2 DEF LayoutInv, Typed
<1>3. Rank(0) = 4 /\ \A x \in 1..f : Rank(x) = 3
  BY <1>2 DEF Rank
<1>4. CASE t = DigestTarget
  <2>1. t.block = 0 /\ t.level = 4
    BY <1>4 DEF DigestTarget, Target
  <2> QED BY <1>2, <1>3, <1>4, <2>1
<1>5. CASE t \in TableTargets
  <2>1. PICK k \in 0..(f - 1) : t = Target(1 + k, HeaderSlot(k), 3)
    BY <1>2, <1>5 DEF TableTargets
  <2>2. t.block = 1 + k /\ t.slot = HeaderSlot(k) /\ t.level = 3
    BY <2>1 DEF Target
  <2>3. t.slot[1] = 0
    BY <2>2 DEF HeaderSlot
  <2>4. 1 + k \in 1..f /\ 1 + k \in 0..(a - 1)
    BY <1>2
  <2> QED BY <1>2, <1>3, <2>2, <2>3, <2>4
<1>6. ASSUME NEW i \in Inodes, t \in InodeTargets(i)
      PROVE  /\ t.block \in 0..(a - 1) /\ t.level \in 0..4 /\ t.level = Rank(t.block)
             /\ Rank(t.slot[1]) > t.level
  <2>1. size[i] \in Nat \ {0} /\ i \in LaidInodes
    BY <1>1, InodeNumbers DEF LayoutInv
  <2>2. /\ t.block \in Span(i) /\ t.level = Rank(t.block) /\ t.level \in 0..2
        /\ \/ \E x \in 0..(Direct + 1) : t.slot = InodeSlot(i, x)
           \/ t.slot[1] \in IndirectOf(i) /\ Rank(t.slot[1]) > t.level
    BY <1>1, <1>6, <2>1, InodeTargetKinds
  <2>3. t.block \in 0..(a - 1)
    <3>1. StartOf(i) \in Nat
      BY <2>1 DEF LayoutInv, Placed
    <3>2. EndOf(i) \in Nat
      BY <2>1, SpanOf
    <3>3. t.block \in Nat
      BY <2>2, <3>1, <3>2 DEF Span
    <3>4. t.block < next
      BY <2>1, <2>2, <3>3 DEF LayoutInv, Covered
    <3> QED BY <1>2, <3>3, <3>4
  <2>4. ASSUME NEW x, t.slot = InodeSlot(i, x) PROVE Rank(t.slot[1]) > t.level
    <3>1. InodeSlot(i, x)[1] \in 1..f
      BY <1>2, InodeSlots DEF LayoutInv
    <3> QED BY <1>3, <2>2, <2>4, <3>1
  <2> QED BY <2>2, <2>3, <2>4
<1>7. t = DigestTarget \/ t \in TableTargets \/ \E i \in Inodes : t \in InodeTargets(i)
  BY TargetsAre
<1> QED BY <1>2, <1>4, <1>5, <1>6, <1>7

(* No two signatures share a slot, and none takes the seed's, as long as   *)
(* the header has an entry for every inode-table block.                    *)
LEMMA TargetsDiffer ==
  ASSUME LayoutInv, TargetsKnown, HasLayout, InodeBlocks <= HeaderSlots, NEW t \in targets
  PROVE  /\ t.slot # SeedSlot
         /\ \A u \in targets : u.slot = t.slot => u = t
<1>1. signed /\ LaidInodes = Inodes
  BY TargetsAre
<1>2. PICK f \in Nat, h \in Nat : f = InodeBlocks /\ h = HeaderSlots /\ f <= h
  BY InodeNumbers, LayoutAssumption DEF LayoutInv
<1> DEFINE InHeader(v) == \E k \in Nat : /\ v.slot = HeaderSlot(k)
                                         /\ \/ k \in 0..(f - 1) /\ v = Target(1 + k, HeaderSlot(k), 3)
                                            \/ k = h + 1 /\ v = DigestTarget
           InInode(v) == \E i \in Inodes : v \in InodeTargets(i)
<1>3. ASSUME NEW v \in targets PROVE InHeader(v) \/ InInode(v)
  <2>1. v \in TableTargets \/ v = DigestTarget \/ InInode(v)
    BY TargetsAre
  <2>2. ASSUME v \in TableTargets PROVE InHeader(v)
    <3>1. PICK k \in 0..(f - 1) : v = Target(1 + k, HeaderSlot(k), 3)
      BY <1>2, <2>2 DEF TableTargets
    <3>2. k \in Nat /\ v.slot = HeaderSlot(k)
      BY <1>2, <3>1 DEF Target
    <3> QED BY <3>1, <3>2
  <2>3. ASSUME v = DigestTarget PROVE InHeader(v)
    <3>1. v.slot = HeaderSlot(h + 1)
      BY <1>2, <2>3 DEF DigestTarget, Target, DigestSlot
    <3>2. h + 1 \in Nat
      BY <1>2
    <3> QED BY <2>3, <3>1, <3>2
  <2> QED BY <2>1, <2>2, <2>3
<1>4. \A k : HeaderSlot(k)[1] = 0
  BY DEF HeaderSlot
<1>5. ASSUME NEW j, NEW k, HeaderSlot(j) = HeaderSlot(k) PROVE j = k
  <2>1. HeaderSlot(j)[2] = <<j>> /\ HeaderSlot(k)[2] = <<k>>
    BY DEF HeaderSlot
  <2>2. <<j>> = <<k>>
    BY <1>5, <2>1
  <2>3. <<j>>[1] = j /\ <<k>>[1] = k
    OBVIOUS
  <2> QED BY <2>2, <2>3
<1>6. ASSUME NEW i \in Inodes, NEW v \in InodeTargets(i)
      PROVE  /\ \/ v.slot[1] \in 1..f /\ \E x : v.slot = InodeSlot(i, x)
                \/ v.slot[1] \in Span(i) /\ ~(v.slot[1] \in 1..f)
             /\ v.slot[1] # 0
  <2>1. size[i] \in Nat \ {0} /\ i \in LaidInodes
    BY <1>1, InodeNumbers DEF LayoutInv
  <2>2. \/ \E x \in 0..(Direct + 1) : v.slot = InodeSlot(i, x)
        \/ v.slot[1] \in IndirectOf(i)
    BY <1>1, <1>6, <2>1, InodeTargetKinds
  <2>3. IndirectOf(i) \subseteq Span(i) /\ \A x \in Span(i) : x > f /\ x \in Nat
    <3>1. IndirectOf(i) \subseteq Span(i) /\ EndOf(i) \in Nat
      BY <2>1, SpanOf
    <3>2. Span(i) \subseteq Nat
      BY <2>1, <3>1 DEF Span, LayoutInv, Placed
    <3> QED BY <1>2, <2>1, <3>1, <3>2 DEF LayoutInv, Apart
  <2>4. \A x : InodeSlot(i, x)[1] \in 1..f
    BY <1>2, InodeSlots DEF LayoutInv
  <2>5. CASE \E x \in 0..(Direct + 1) : v.slot = InodeSlot(i, x)
    BY <2>4, <2>5
  <2>6. CASE v.slot[1] \in IndirectOf(i)
    BY <1>2, <2>3, <2>6
  <2> QED BY <2>2, <2>5, <2>6
<1>7. ASSUME NEW u \in targets, u.slot = t.slot PROVE u = t
  <2>1. CASE InHeader(t) /\ InHeader(u)
    <3>1. PICK j \in Nat : /\ t.slot = HeaderSlot(j)
                           /\ \/ j \in 0..(f - 1) /\ t = Target(1 + j, HeaderSlot(j), 3)
                              \/ j = h + 1 /\ t = DigestTarget
      BY <2>1
    <3>2. PICK k \in Nat : /\ u.slot = HeaderSlot(k)
                           /\ \/ k \in 0..(f - 1) /\ u = Target(1 + k, HeaderSlot(k), 3)
                              \/ k = h + 1 /\ u = DigestTarget
      BY <2>1
    <3>3. j = k
      BY <1>5, <1>7, <3>1, <3>2
    <3>4. j \in 0..(f - 1) => j # h + 1
      BY <1>2
    <3> QED BY <3>1, <3>2, <3>3, <3>4
  <2>2. CASE (InHeader(t) /\ InInode(u)) \/ (InHeader(u) /\ InInode(t))
    BY <1>4, <1>6, <1>7, <2>2
  <2>3. CASE InInode(t) /\ InInode(u)
    <3>1. PICK i \in Inodes : t \in InodeTargets(i)
      BY <2>3
    <3>2. PICK j \in Inodes : u \in InodeTargets(j)
      BY <2>3
    <3>3. i = j
      <4>1. CASE t.slot[1] \in 1..f
        <5>1. PICK x : t.slot = InodeSlot(i, x)
          BY <1>6, <3>1, <4>1
        <5>2. PICK y : u.slot = InodeSlot(j, y)
          BY <1>6, <1>7, <3>2, <4>1
        <5> QED BY <1>7, <5>1, <5>2, InodeSlots DEF LayoutInv
      <4>2. CASE t.slot[1] \notin 1..f
        <5>1. t.slot[1] \in Span(i) /\ t.slot[1] \in Span(j)
          BY <1>6, <1>7, <3>1, <3>2, <4>2
        <5> QED BY <1>1, <5>1 DEF LayoutInv, Apart
      <4> QED BY <4>1, <4>2
    <3>4. size[i] \in Nat \ {0} /\ i \in LaidInodes
      BY <1>1, InodeNumbers DEF LayoutInv
    <3> QED BY <1>1, <1>7, <3>1, <3>2, <3>3, <3>4, InodeTargetsDiffer
  <2>4. (InHeader(t) \/ InInode(t)) /\ (InHeader(u) \/ InInode(u))
    BY <1>3
  <2> HIDE DEF InHeader, InInode
  <2> QED BY <2>1, <2>2, <2>3, <2>4
<1>8. t.slot # SeedSlot
  <2> SUFFICES ASSUME t.slot = HeaderSlot(h) PROVE FALSE
    BY <1>2 DEF SeedSlot
  <2>1. CASE InHeader(t)
    <3>1. PICK j \in Nat : /\ t.slot = HeaderSlot(j)
                           /\ \/ j \in 0..(f - 1) 
                              \/ j = h + 1
      BY <2>1
    <3>2. j = h
      BY <1>5, <3>1
    <3> QED BY <1>2, <3>1, <3>2
  <2>2. CASE InInode(t)
    BY <1>4, <1>6, <2>2
  <2> QED BY <1>3, <2>1, <2>2
<1> QED BY <1>7, <1>8

LEMMA LayOutTargets ==
  ASSUME LayoutInv, LayOut
  PROVE  \E m \in Nat, first \in Nat : 
           /\ m \in Inodes /\ LaidInodes = 0..(m - 1) /\ LaidInodes' = 0..m
           /\ signed' = signed /\ size' = size
           /\ StartOf(m)' = first /\ \A i \in 0..(m - 1) : StartOf(i)' = StartOf(i)
           /\ targets' = IF signed THEN targets \cup TargetsOf(m, Place(size[m], first))
                         ELSE targets
<1>1. PICK m \in Nat : m = node /\ m \in Inodes
  BY InodeNumbers DEF LayoutInv, Typed, LayOut
<1>2. PICK first \in Nat : first = next + Cardinality(Gap(node))
  BY GapIs DEF LayoutInv, Typed
<1>3. PICK n \in Nat \ {0} : n = size[m]
  BY <1>1, InodeNumbers DEF LayoutInv
<1>4. PICK p : p = IF signed THEN [db |-> Place(n, first).db, ib |-> Place(n, first).ib]
                   ELSE [db |-> <<first>>, ib |-> <<0, 0>>]
  OBVIOUS
<1>5. /\ ptr' = Override(ptr, Single(m, p)) /\ signed' = signed /\ size' = size
      /\ targets' = IF signed THEN targets \cup TargetsOf(m, Place(n, first)) ELSE targets
  BY <1>1, <1>2, <1>3, <1>4 DEF LayOut, inputs
<1>6. LaidInodes = 0..(m - 1) /\ LaidInodes' = 0..m
  <2>1. ~HasLayout /\ ~HasLayout' /\ node' = m + 1
    BY <1>1 DEF LayOut, HasLayout
  <2>2. node' - 1 = m
    BY <2>1
  <2> QED BY <1>1, <2>1, <2>2 DEF LaidInodes
<1>7. p.db[1] = first
  <2>1. 1 \in 1..DirectOf(n)
    BY Sizes
  <2>2. DirectRun(n, first)[1] = first + 1 - 1
    BY <2>1 DEF DirectRun
  <2>3. Place(n, first).db[1] = first
    BY <2>2, PlaceIs
  <2> QED BY <1>4, <2>3
<1>8. ptr'[m] = p /\ \A i \in 0..(m - 1) : ptr'[i] = ptr[i]
  <2>1. DOMAIN ptr = 0..(m - 1)
    BY <1>6 DEF LayoutInv, Placed
  <2> QED BY <1>5, <2>1 DEF Override, Single
<1>9. StartOf(m)' = first /\ \A i \in 0..(m - 1) : StartOf(i)' = StartOf(i)
  BY <1>7, <1>8 DEF StartOf
<1> QED BY <1>1, <1>2, <1>3, <1>5, <1>6, <1>9

LEMMA TargetsStep ==
  ASSUME LayoutInv, TargetsKnown, [Next]_vars
  PROVE  TargetsKnown'
<1>1. CASE LayOut
  <2>1. PICK m \in Nat, first \in Nat : 
          /\ m \in Inodes /\ LaidInodes = 0..(m - 1) /\ LaidInodes' = 0..m
          /\ signed' = signed /\ size' = size
          /\ StartOf(m)' = first /\ \A i \in 0..(m - 1) : StartOf(i)' = StartOf(i)
          /\ targets' = IF signed THEN targets \cup TargetsOf(m, Place(size[m], first))
                        ELSE targets
    BY <1>1, LayOutTargets
  <2>2. InodeTargets(m)' = TargetsOf(m, Place(size[m], first))
        /\ \A i \in 0..(m - 1) : InodeTargets(i)' = InodeTargets(i)
    BY <2>1 DEF InodeTargets
  <2>3. PayloadTargets' = PayloadTargets \cup InodeTargets(m)'
    <3>1. 0..m = 0..(m - 1) \cup {m}
      OBVIOUS
    <3>2. PayloadTargets = UNION {InodeTargets(i) : i \in 0..(m - 1)}
      BY <2>1 DEF PayloadTargets
    <3>3. PayloadTargets' = UNION {InodeTargets(i)' : i \in 0..m}
      BY <2>1 DEF PayloadTargets
    <3> QED BY <2>2, <3>1, <3>2, <3>3
  <2>4. TableTargets' = TableTargets
    BY <2>1 DEF TableTargets, InodeBlocks, Inodes
  <2>5. DigestTargets = {} /\ DigestTargets' = {}
    BY <1>1 DEF LayOut, HasLayout, DigestTargets
  <2> QED BY <2>1, <2>2, <2>3, <2>4, <2>5 DEF TargetsKnown
<1> DEFINE Rest == UNCHANGED <<inputs, ptr>> /\ LaidInodes' = LaidInodes
<1>2. ASSUME Rest
      PROVE  signed' = signed /\ TableTargets' = TableTargets /\ PayloadTargets' = PayloadTargets
  <2>1. signed' = signed /\ size' = size /\ ptr' = ptr /\ LaidInodes' = LaidInodes
    BY <1>2 DEF inputs
  <2>2. TableTargets' = TableTargets
    BY <2>1 DEF TableTargets, InodeBlocks, Inodes
  <2>3. \A i : InodeTargets(i)' = InodeTargets(i)
    BY <2>1 DEF InodeTargets, StartOf
  <2> QED BY <2>1, <2>2, <2>3 DEF PayloadTargets
<1>0. NoInode \in Nat /\ Inodes = 0..(NoInode - 1)
  BY InodeNumbers DEF LayoutInv
<1>3. CASE LaidOut
  <2>1. Rest
    BY <1>0, <1>3 DEF LaidOut, LaidInodes, HasLayout, inputs, Inodes
  <2>2. DigestTargets = {} /\ DigestTargets' = {DigestTarget} /\ DigestTarget' = DigestTarget
    BY <1>3 DEF LaidOut, HasLayout, DigestTargets, DigestTarget
  <2>3. targets' = IF signed THEN targets \cup {DigestTarget} ELSE targets
    BY <1>3 DEF LaidOut, DigestTarget
  <2> HIDE DEF Rest
  <2> QED BY <1>2, <2>1, <2>2, <2>3 DEF TargetsKnown
<1>4. ASSUME Rest, targets' = targets, HasLayout' <=> HasLayout PROVE TargetsKnown'
  <2>1. DigestTargets' = DigestTargets
    BY <1>4 DEF DigestTargets, DigestTarget
  <2> HIDE DEF Rest
  <2> QED BY <1>2, <1>4, <2>1 DEF TargetsKnown
<1>5. CASE TooLarge
  <2>1. Rest /\ targets' = targets /\ (HasLayout' <=> HasLayout)
    BY <1>5 DEF TooLarge, LaidInodes, HasLayout, inputs, Inodes, layoutVars
  <2> QED BY <1>4, <2>1
<1>6. CASE WriteInode \/ Written
  <2>1. Rest /\ targets' = targets /\ (HasLayout' <=> HasLayout)
    BY <1>6 DEF WriteInode, Written, LaidInodes, HasLayout, inputs, Inodes, layoutVars
  <2> QED BY <1>4, <2>1
<1>7. CASE SignLevel \/ Signed \/ Verified
  <2>1. Rest /\ targets' = targets /\ (HasLayout' <=> HasLayout)
    BY <1>7 DEF SignLevel, Signed, Verified, LaidInodes, HasLayout, inputs, Inodes, layoutVars
  <2> QED BY <1>4, <2>1
<1>8. CASE VerifyInode
  <2>1. phase = "verify" /\ phase' \in {"crashed", "verify"} /\ UNCHANGED <<inputs, layoutVars>>
    BY <1>8 DEF VerifyInode
  <2>2. Rest /\ targets' = targets /\ (HasLayout' <=> HasLayout)
    BY <2>1 DEF LaidInodes, HasLayout, inputs, Inodes, layoutVars
  <2> QED BY <1>4, <2>2
<1>9. CASE UNCHANGED vars
  <2>1. Rest /\ targets' = targets /\ (HasLayout' <=> HasLayout)
    BY <1>9 DEF vars, LaidInodes, HasLayout, inputs, Inodes
  <2> QED BY <1>4, <2>1
<1> QED BY <1>1, <1>3, <1>5, <1>6, <1>7, <1>8, <1>9 DEF Next

LEMMA TargetsInit ==
  ASSUME Init
  PROVE  TargetsKnown
<1>1. LaidInodes = {} /\ DigestTargets = {}
  BY DEF Init, LaidInodes, HasLayout, DigestTargets
<1>2. PayloadTargets = {}
  BY <1>1 DEF PayloadTargets
<1> QED BY <1>1, <1>2 DEF Init, TargetsKnown, TableTargets

-----------------------------------------------------------------------------
(* The levels of signatures                                                *)

Signing == phase \in {"sign", "verify", "clean", "mismatch", "crashed"}

(* The targets whose block has been hashed.                                *)
Hashed == {t \in targets : t.level < level}

(* What has been hashed has not been written to since.                     *)
SignInv ==
  /\ IsFiniteSet(targets)
  /\ seedIntact
  /\ ~Signing => sig = << >> /\ level = 0
  /\ Signing => /\ level \in 0..5 /\ (phase # "sign" => level = 5)
                /\ slots \in [0..(next - 1) -> Nat]
                /\ DOMAIN sig = Hashed
                /\ \A t \in Hashed : sig[t] = slots[t.block]

(* assign_signed_inode_layout adds finitely many signatures.               *)
LEMMA TargetsFinite ==
  ASSUME NEW n \in Nat \ {0}, NEW b \in Nat \ {0}, NEW i
  PROVE  IsFiniteSet(TargetsOf(i, Place(n, b)))
<1> DEFINE P == Place(n, b)
           R == RecordsOf(P)
           A == {Target(P.db[k], InodeSlot(i, k - 1), 0) : k \in DOMAIN P.db}
           B == {Target(P.ib[k], InodeSlot(i, Direct + k - 1), k) :
                   k \in {x \in 1..2 : P.ib[x] # 0}}
           C(x) == {Target(R[x][k], RecordSlot(x, k), IF x = P.ib[2] THEN 1 ELSE 0) :
                      k \in DOMAIN R[x]}
<1>1. PICK d \in Nat, s \in Nat, r \in Nat, g \in Nat :
        /\ d = DirectOf(n) /\ s = SimpleOf(n) /\ r = RestOf(n) /\ g = GroupsOf(n)
        /\ n = d + s + r /\ (n > d <=> s > 0)
  BY Sizes, Groups
<1>2. /\ P.db = DirectRun(n, b) /\ P.simple = SimpleRun(n, b) /\ P.groups = GroupList(n, b)
      /\ P.leaves = LeafGroups(n, b)
  BY PlaceIs
<1>3. /\ DOMAIN R = Indirect(n, b)
      /\ n > d => R[Ib0(n, b)] = P.simple
      /\ r > 0 => R[Ib1(n, b)] = P.groups
      /\ \A j \in 1..g : R[GroupAt(n, b, j)] = P.leaves[j]
  BY <1>1, RecordsOfIs
<1> HIDE DEF P, R
<1>4. IsFiniteSet(A)
  <2> DEFINE f == [k \in DOMAIN P.db |-> Target(P.db[k], InodeSlot(i, k - 1), 0)]
  <2>1. DOMAIN f = 1..d
    BY <1>1, <1>2 DEF DirectRun
  <2>2. IsFiniteSet(DOMAIN f)
    <3>1. IsFiniteSet(1..d)
      BY FS_Interval
    <3> HIDE DEF f
    <3> QED BY <2>1, <3>1
  <2>3. A \subseteq {f[x] : x \in DOMAIN f}
    OBVIOUS
  <2> HIDE DEF f, A
  <2> QED BY <2>2, <2>3, FiniteRange
<1>5. IsFiniteSet(B)
  <2> DEFINE f == [k \in 1..2 |-> Target(P.ib[k], InodeSlot(i, Direct + k - 1), k)]
  <2>2. IsFiniteSet(DOMAIN f)
    <3>1. IsFiniteSet(1..2)
      <4>1. PICK c \in Int : c = 2
        OBVIOUS
      <4>2. IsFiniteSet(1..c)
        BY FS_Interval
      <4> QED BY <4>1, <4>2
    <3>2. DOMAIN f = 1..2
      OBVIOUS
    <3> HIDE DEF f
    <3> QED BY <3>1, <3>2
  <2>3. B \subseteq {f[x] : x \in DOMAIN f}
    OBVIOUS
  <2> HIDE DEF f, B
  <2> QED BY <2>2, <2>3, FiniteRange
<1>6. ASSUME NEW x \in DOMAIN R PROVE IsFiniteSet(C(x))
  <2>1. IsFiniteSet(DOMAIN R[x])
    <3>1. CASE n > d /\ x = Ib0(n, b)
      <4>1. DOMAIN R[x] = 1..s
        BY <1>1, <1>2, <1>3, <3>1 DEF SimpleRun
      <4> QED BY <4>1, FS_Interval
    <3>2. CASE r > 0 /\ x = Ib1(n, b)
      <4>1. DOMAIN R[x] = 1..g
        BY <1>1, <1>2, <1>3, <3>2 DEF GroupList
      <4> QED BY <4>1, FS_Interval
    <3>3. ASSUME NEW j \in 1..g, x = GroupAt(n, b, j) PROVE IsFiniteSet(DOMAIN R[x])
      <4>1. R[x] = GroupRun(n, b, j)
        BY <1>1, <1>2, <1>3, <3>3 DEF LeafGroups
      <4>2. DOMAIN R[x] = 1..InGroupOf(n, j)
        BY <4>1 DEF GroupRun
      <4>3. InGroupOf(n, j) \in Int
        <5>1. InGroupOf(n, j) \in 1..SigsPerBlock
          BY <1>1, Groups
        <5> QED BY <5>1, LayoutAssumption
      <4> QED BY <4>2, <4>3, FS_Interval
    <3> QED BY <1>1, <1>3, <3>1, <3>2, <3>3 DEF Indirect
  <2> DEFINE f == [k \in DOMAIN R[x] |-> 
                     Target(R[x][k], RecordSlot(x, k), IF x = P.ib[2] THEN 1 ELSE 0)]
  <2>2. IsFiniteSet(DOMAIN f)
    BY <2>1
  <2>3. C(x) \subseteq {f[k] : k \in DOMAIN f}
    OBVIOUS
  <2> HIDE DEF f, C
  <2> QED BY <2>2, <2>3, FiniteRange
<1>7. IsFiniteSet(DOMAIN R)
  <2> DEFINE f == [j \in 1..g |-> GroupAt(n, b, j)]
             G == {GroupAt(n, b, j) : j \in 1..g}
  <2>1. IsFiniteSet(G)
    <3>1. IsFiniteSet(DOMAIN f)
      BY FS_Interval
    <3>2. G \subseteq {f[k] : k \in DOMAIN f}
      OBVIOUS
    <3> HIDE DEF f, G
    <3> QED BY <3>1, <3>2, FiniteRange
  <2>2. IsFiniteSet({Ib0(n, b)} \cup {Ib1(n, b)})
    BY FS_Singleton, FS_Union
  <2>3. DOMAIN R \in SUBSET (({Ib0(n, b)} \cup {Ib1(n, b)}) \cup G)
    BY <1>1, <1>3 DEF Indirect
  <2> HIDE DEF G
  <2>4. IsFiniteSet(({Ib0(n, b)} \cup {Ib1(n, b)}) \cup G)
    BY <2>1, <2>2, FS_Union
  <2> QED BY <2>3, <2>4, FS_Subset
<1>8. IsFiniteSet(UNION {C(x) : x \in DOMAIN R})
  <2> DEFINE f == [x \in DOMAIN R |-> C(x)]
             K == {C(x) : x \in DOMAIN R}
  <2>1. IsFiniteSet(K)
    <3>1. IsFiniteSet(DOMAIN f)
      BY <1>7
    <3>2. K \subseteq {f[k] : k \in DOMAIN f}
      OBVIOUS
    <3> HIDE DEF f, K
    <3> QED BY <3>1, <3>2, FiniteRange
  <2>2. \A T \in K : IsFiniteSet(T)
    BY <1>6
  <2>3. UNION K = UNION {C(x) : x \in DOMAIN R}
    OBVIOUS
  <2> HIDE DEF K, C
  <2>4. IsFiniteSet(UNION K)
    BY <2>1, <2>2, FS_UNION
  <2> QED BY <2>3, <2>4
<1>9. TargetsOf(i, P) = (A \cup B) \cup UNION {C(x) : x \in DOMAIN R}
  BY DEF TargetsOf, R
<1> HIDE DEF A, B, C
<1>10. IsFiniteSet(A \cup B)
  BY <1>4, <1>5, FS_Union
<1>11. IsFiniteSet((A \cup B) \cup UNION {C(x) : x \in DOMAIN R})
  BY <1>8, <1>10, FS_Union
<1>12. IsFiniteSet(TargetsOf(i, P))
  BY <1>9, <1>11
<1> QED BY <1>12 DEF P

(* A level is hashed when the blocks it hashes are complete: none of them  *)
(* receives a slot at this level or a later one.                           *)
LEMMA HashedStays ==
  ASSUME LayoutInv, TargetsKnown, HasLayout, level \in Nat, NEW t \in targets, t.level <= level
  PROVE  {u \in {v \in targets : v.level = level} : u.slot[1] = t.block /\ u.block # t.block} = {}
<1> SUFFICES ASSUME NEW u \in targets, u.level = level, u.slot[1] = t.block, u.block # t.block
             PROVE  FALSE
  OBVIOUS
<1>1. u # DigestTarget
  <2> SUFFICES ASSUME u = DigestTarget PROVE u.slot[1] = u.block
    OBVIOUS
  <2> QED BY DEF DigestTarget, Target, DigestSlot, HeaderSlot
<1>2. Rank(t.block) = t.level /\ t.level \in 0..4
  BY TargetsRanked
<1>3. Rank(u.slot[1]) > u.level
  BY <1>1, TargetsRanked
<1>4. t.level > level
  BY <1>2, <1>3
<1> QED BY <1>2, <1>4

(* One level of signatures keeps every signature taken so far right.       *)
LEMMA SignLevelKeeps ==
  ASSUME LayoutInv, TargetsKnown, SignInv, InodeBlocks <= HeaderSlots, SignLevel
  PROVE  SignInv'
<1> DEFINE now == {t \in targets : t.level = level}
           Filled(b) == {t \in now : t.slot[1] = b /\ t.block # b}
<1>1. /\ Signing /\ HasLayout /\ level \in 0..4 /\ level' = level + 1 
      /\ phase = "sign" /\ phase' = "sign" /\ next' = next /\ targets' = targets
      /\ sig' = Override(sig, [t \in now |-> slots[t.block]])
      /\ slots' = [b \in DOMAIN slots |-> slots[b] + Cardinality(Filled(b))]
      /\ seedIntact' = (seedIntact /\ \A t \in now : t.slot # SeedSlot)
  BY DEF SignLevel, SignInv, Signing, HasLayout, layoutVars
<1>2. /\ IsFiniteSet(targets) /\ slots \in [0..(next - 1) -> Nat]
      /\ DOMAIN sig = Hashed /\ \A t \in Hashed : sig[t] = slots[t.block]
  BY <1>1 DEF SignInv
<1>3. \A t \in targets : t.level \in 0..4 /\ t.block \in 0..(next - 1) /\ t.slot # SeedSlot
  BY <1>1, TargetsRanked, TargetsDiffer
<1>4. Hashed' = Hashed \cup now
  BY <1>1, <1>3 DEF Hashed
<1>5. \A b : Filled(b) \subseteq targets
  OBVIOUS
<1> HIDE DEF now
<1>6. ASSUME NEW b PROVE Cardinality(Filled(b)) \in Nat
  <2>1. Filled(b) \in SUBSET targets
    BY <1>5
  <2> HIDE DEF Filled
  <2>2. IsFiniteSet(Filled(b))
    BY <1>2, <2>1, FS_Subset
  <2> QED BY <2>2, FS_CardinalityType
<1>7. ASSUME NEW t \in Hashed \cup now PROVE slots'[t.block] = slots[t.block]
  <2>1. t \in targets /\ t.level <= level
    BY <1>1, <1>3, <1>7 DEF Hashed, now
  <2>2. Filled(t.block) = {}
    <3>1. level \in Nat
      BY <1>1
    <3> QED BY <1>1, <2>1, <3>1, HashedStays DEF now
  <2>3. slots'[t.block] = slots[t.block] + Cardinality({})
    <3> HIDE DEF Filled
    <3> QED BY <1>1, <1>2, <1>3, <2>1, <2>2
  <2>4. Cardinality({}) = 0
    BY FS_EmptySet
  <2>5. slots[t.block] \in Nat
    BY <1>2, <1>3, <2>1
  <2> QED BY <2>3, <2>4, <2>5
<1>8. slots' \in [0..(next' - 1) -> Nat]
  <2> HIDE DEF Filled
  <2> QED BY <1>1, <1>2, <1>6
<1> HIDE DEF Filled
<1>9. /\ DOMAIN sig' = Hashed \cup now
      /\ \A t \in now : sig'[t] = slots[t.block]
      /\ \A t \in Hashed \ now : sig'[t] = sig[t]
  BY <1>1, <1>2 DEF Override
<1>10. \A t \in Hashed' : sig'[t] = slots'[t.block]
  BY <1>2, <1>4, <1>7, <1>9
<1>11. seedIntact'
  BY <1>1, <1>3 DEF SignInv, now
<1>12. Signing' /\ level' \in 0..5
  BY <1>1 DEF Signing
<1> QED BY <1>1, <1>2, <1>4, <1>8, <1>9, <1>10, <1>11, <1>12 DEF SignInv

LEMMA SignInit ==
  ASSUME Init
  PROVE  SignInv
<1>1. Typed
  BY LayoutInit DEF LayoutInv
<1>2. PICK f \in Nat : f = InodeBlocks
  BY <1>1, InodeNumbers
<1> DEFINE g == [k \in 0..(f - 1) |-> Target(1 + k, HeaderSlot(k), 3)]
<1>3. IsFiniteSet(DOMAIN g)
  <2>1. IsFiniteSet(0..(f - 1))
    BY FS_Interval
  <2>2. DOMAIN g = 0..(f - 1)
    OBVIOUS
  <2> HIDE DEF g
  <2> QED BY <2>1, <2>2
<1>4. targets \subseteq {g[k] : k \in DOMAIN g}
  BY <1>2 DEF Init
<1> HIDE DEF g
<1>5. IsFiniteSet(targets)
  BY <1>3, <1>4, FiniteRange
<1> QED BY <1>5 DEF Init, SignInv, Signing

LEMMA SignStep ==
  ASSUME LayoutInv, TargetsKnown, TargetsKnown', LayoutInv', SignInv, InodeBlocks <= HeaderSlots,
         [Next]_vars
  PROVE  SignInv'
<1> DEFINE Quiet == UNCHANGED <<level, slots, sig, seedIntact>>
<1>1. CASE LayOut
  <2>1. /\ phase = "layout" /\ phase' = "layout" /\ Quiet
        /\ ~Signing /\ ~Signing'
    BY <1>1 DEF LayOut, Signing
  <2>2. IsFiniteSet(targets')
    <3>1. PICK m \in Nat, first \in Nat : 
            /\ m \in Inodes
            /\ targets' = IF signed THEN targets \cup TargetsOf(m, Place(size[m], first))
                          ELSE targets
            /\ StartOf(m)' = first /\ LaidInodes' = 0..m
      BY <1>1, LayOutTargets
    <3>2. PICK n \in Nat \ {0} : n = size[m]
      BY <3>1, InodeNumbers DEF LayoutInv
    <3>3. first \in Nat \ {0}
      <4>1. m \in LaidInodes'
        BY <3>1
      <4>2. StartOf(m)' \in Nat \ {0}
        BY <4>1 DEF LayoutInv, Placed
      <4> QED BY <3>1, <4>2
    <3>4. IsFiniteSet(TargetsOf(m, Place(n, first)))
      BY <3>3, TargetsFinite
    <3>5. IsFiniteSet(targets)
      BY DEF SignInv
    <3>6. IsFiniteSet(targets \cup TargetsOf(m, Place(n, first)))
      BY <3>4, <3>5, FS_Union
    <3> QED BY <3>1, <3>2, <3>5, <3>6
  <2> QED BY <2>1, <2>2 DEF SignInv
<1>2. CASE TooLarge
  <2>1. targets' = targets /\ Quiet /\ ~Signing /\ ~Signing'
    BY <1>2 DEF TooLarge, Signing, layoutVars
  <2> QED BY <2>1 DEF SignInv
<1>3. CASE LaidOut
  <2>1. Quiet /\ ~Signing /\ ~Signing'
    BY <1>3 DEF LaidOut, Signing
  <2>2. IsFiniteSet(targets')
    <3>1. IsFiniteSet(targets) /\ IsFiniteSet({Target(0, DigestSlot, 4)})
      BY FS_Singleton DEF SignInv
    <3>2. IsFiniteSet(targets \cup {Target(0, DigestSlot, 4)})
      BY <3>1, FS_Union
    <3> QED BY <1>3, <3>1, <3>2 DEF LaidOut
  <2> QED BY <2>1, <2>2 DEF SignInv
<1>4. CASE WriteInode
  <2>1. targets' = targets /\ Quiet /\ ~Signing /\ ~Signing'
    BY <1>4 DEF WriteInode, Signing, layoutVars
  <2> QED BY <2>1 DEF SignInv
<1>5. CASE Written
  <2>1. /\ phase = "write" /\ HasLayout /\ ~Signing /\ level = 0 /\ sig = << >>
        /\ UNCHANGED <<targets, next, level, sig, seedIntact>>
        /\ slots' = [b \in 0..(next - 1) |-> 0] /\ phase' \in {"sign", "done"}
    BY <1>5 DEF Written, Signing, HasLayout, layoutVars, SignInv
  <2>2. Hashed' = {}
    <3>1. \A t \in targets : t.level \in 0..4
      BY <2>1, TargetsRanked
    <3> QED BY <2>1, <3>1 DEF Hashed
  <2>3. DOMAIN sig' = {}
    BY <2>1
  <2>4. slots' \in [0..(next' - 1) -> Nat]
    BY <2>1
  <2>5. level' = 0 /\ sig' = << >> /\ level' \in 0..5
    BY <2>1
  <2>6. (Signing' => phase' = "sign") /\ IsFiniteSet(targets') /\ seedIntact'
    BY <2>1 DEF Signing, SignInv
  <2> QED BY <2>2, <2>3, <2>4, <2>5, <2>6 DEF SignInv
<1>6. ASSUME Quiet, targets' = targets, next' = next, Signing, Signing', 
             phase' # "sign" => level = 5
      PROVE  SignInv'
  <2>1. Hashed' = Hashed
    BY <1>6 DEF Hashed
  <2>2. /\ level \in 0..5 /\ slots \in [0..(next - 1) -> Nat] /\ DOMAIN sig = Hashed
        /\ \A t \in Hashed : sig[t] = slots[t.block]
        /\ IsFiniteSet(targets) /\ seedIntact
    BY <1>6 DEF SignInv
  <2> QED BY <1>6, <2>1, <2>2 DEF SignInv
<1>7. CASE Signed
  <2>1. Quiet /\ targets' = targets /\ next' = next /\ Signing /\ Signing' /\ level = 5
    BY <1>7 DEF Signed, Signing, layoutVars
  <2> QED BY <1>6, <2>1
<1>8. CASE VerifyInode
  <2>1. /\ phase = "verify" /\ phase' \in {"crashed", "verify"} 
        /\ Quiet /\ targets' = targets /\ next' = next
    BY <1>8 DEF VerifyInode, layoutVars
  <2>2. Signing /\ Signing' /\ level = 5
    BY <2>1 DEF Signing, SignInv
  <2> QED BY <1>6, <2>1, <2>2
<1>9. CASE Verified
  <2>1. /\ phase = "verify" /\ phase' \in {"clean", "mismatch"} 
        /\ Quiet /\ targets' = targets /\ next' = next
    BY <1>9 DEF Verified, layoutVars
  <2>2. Signing /\ Signing' /\ level = 5
    BY <2>1 DEF Signing, SignInv
  <2> QED BY <1>6, <2>1, <2>2
<1>10. CASE UNCHANGED vars
  <2>1. Quiet /\ targets' = targets /\ next' = next /\ phase' = phase
    BY <1>10 DEF vars
  <2>2. CASE Signing
    <3>1. Signing' /\ (phase' # "sign" => level = 5)
      BY <2>1, <2>2 DEF Signing, SignInv
    <3> QED BY <1>6, <2>1, <2>2, <3>1
  <2>3. CASE ~Signing
    BY <2>1, <2>3 DEF Signing, SignInv
  <2> QED BY <2>2, <2>3
<1>11. CASE SignLevel
  BY <1>11, SignLevelKeeps
<1> QED BY <1>1, <1>2, <1>3, <1>4, <1>5, <1>7, <1>8, <1>9, <1>10, <1>11 DEF Next

LEMMA SignedHolds ==
  ASSUME LayoutInv, TargetsKnown, SignInv, InodeBlocks <= HeaderSlots
  PROVE  SignaturesHold
<1> SUFFICES ASSUME phase \in {"verify", "clean", "mismatch", "crashed"}, NEW t \in targets
             PROVE  Matches(t)
  BY DEF SignaturesHold
<1>1. HasLayout /\ Signing /\ phase # "sign"
  BY DEF HasLayout, Signing
<1>2. level = 5 /\ seedIntact
  BY <1>1 DEF SignInv
<1>3. t \in Hashed
  BY <1>1, <1>2, TargetsRanked DEF Hashed
<1>4. sig[t] = slots[t.block]
  BY <1>1, <1>3 DEF SignInv
<1>5. \A u \in targets \ {t} : u.slot # t.slot
  BY <1>1, TargetsDiffer
<1> QED BY <1>2, <1>4, <1>5 DEF Matches

(* Every signature of a signed image, of any shape, is the hash of its     *)
(* block as it is delivered, and is found in its own slot: the levels in   *)
(* which signature_targets are worked off never hash a block that still    *)
(* receives a signature.  The header must have an entry for every          *)
(* inode-table block; build_pfs does not check that.                       *)
THEOREM SignaturesAreFinal ==
  ASSUME \A n \in InodeCounts : TableBlocks(n) <= HeaderSlots
  PROVE  Spec => []SignaturesHold
<1>1. Init => TargetsKnown
  BY TargetsInit
<1>2. LayoutInv /\ TargetsKnown /\ [Next]_vars => TargetsKnown'
  BY TargetsStep
<1>3. Init => SignInv
  BY SignInit
<1>4. LayoutInv => InodeBlocks <= HeaderSlots
  <2> SUFFICES ASSUME LayoutInv PROVE InodeBlocks <= HeaderSlots
    OBVIOUS
  <2>1. PICK n \in InodeCounts : size \in [0..(n - 1) -> BlockCounts]
    BY DEF LayoutInv, Typed
  <2>2. n \in Nat \ {0}
    BY LayoutAssumption
  <2>3. Cardinality(Inodes) = n
    <3>1. Inodes = 0..(n - 1)
      BY <2>1 DEF Inodes
    <3> QED BY <2>2, <3>1, FS_Interval
  <2>4. InodeBlocks = TableBlocks(n)
    BY <2>3 DEF InodeBlocks, TableBlocks
  <2> QED BY <2>1, <2>4
<1>5. LayoutInv /\ LayoutInv' /\ TargetsKnown /\ TargetsKnown' /\ SignInv /\ [Next]_vars => SignInv'
  BY <1>4, SignStep
<1>6. LayoutInv /\ TargetsKnown /\ SignInv => SignaturesHold
  BY <1>4, SignedHolds
<1> QED BY <1>1, <1>2, <1>3, <1>5, <1>6, LayoutInvariant, PTL DEF Spec
=============================================================================
