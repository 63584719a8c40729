---------------------------- MODULE Batch_proofs ----------------------------
(***************************************************************************)
(* Proofs about `mkpfs batch` (Batch), for any directory to pack.          *)
(***************************************************************************)
EXTENDS Batch, Lemmas, FiniteSetTheorems, FunctionTheorems, SequenceTheorems, TLAPS

-----------------------------------------------------------------------------
(* Types                                                                   *)

Statuses == {"skipped", "dry_run", "converted", "error"}
Pcs == {"discover", "item", "show", "show_built", "build", "building", "built",
        "caught", "verify", "ended"}
Exits == {"running", "zero", "one", "traceback", "killed"}
Result == [item : EntryIds, status : Statuses]

(* The loop is inside the turn of the item idx.                            *)
AtAnItem == pc \notin {"discover", "item", "ended"}

(* The list holds every item once, in order; inside a turn idx is an item  *)
(* of the list; nothing has happened before the list is there; there is a  *)
(* result to verify; a command that has not ended has no exit status.      *)
TypeOK ==
  /\ opts \in [overwrite : BOOLEAN, dryRun : BOOLEAN, verify : BOOLEAN]
  /\ source \in [EntryIds -> {"present", "gone"}]
  /\ out \in [EntryIds -> {"none", "earlier"} \cup Images]
  /\ list \in Seq(Packable)
  /\ \A j, k \in 1..Len(list) : j < k => list[j] < list[k]
  /\ idx \in 1..(Len(list) + 1)
  /\ AtAnItem => idx <= Len(list)
  /\ pc \in Pcs
  /\ pc = "discover" =>
       list = <<>> /\ idx = 1 /\ results = <<>> /\ \A e \in EntryIds : ~HasImage(e)
  /\ results \in Seq(Result)
  /\ pc = "verify" => results # <<>>
  /\ cancel \in 0..idx
  /\ exit \in Exits
  /\ pc = "ended" <=> exit # "running"

LEMMA EntryIdsFinite ==
  /\ IsFiniteSet(EntryIds) /\ EntryIds \subseteq Nat \ {0}
  /\ IsFiniteSet(Packable) /\ Packable \subseteq EntryIds
<1>1. Len(Entries) \in Nat
  BY EntriesAssumption
<1>2. IsFiniteSet(EntryIds)
  BY <1>1, FS_Interval DEF EntryIds
<1>3. EntryIds \subseteq Nat \ {0}
  BY <1>1 DEF EntryIds
<1>4. Packable \subseteq EntryIds
  BY DEF Packable
<1> QED BY <1>2, <1>3, <1>4, FS_Subset

(* The item of the turn is a packable entry.                               *)
LEMMA ItemIsListed ==
  ASSUME TypeOK, idx <= Len(list)
  PROVE  idx \in 1..Len(list) /\ Item \in Packable /\ Item \in EntryIds
<1>1. idx \in 1..Len(list)
  BY DEF TypeOK
<1>2. list[idx] \in Packable
  BY <1>1 DEF TypeOK
<1> QED BY <1>1, <1>2, EntryIdsFinite DEF Item

(* A report is one more result, for the item of the turn.                  *)
LEMMA ReportEffect ==
  ASSUME TypeOK, idx <= Len(list), NEW status \in Statuses, Report(status)
  PROVE  /\ results' \in Seq(Result)
         /\ Len(results') = Len(results) + 1
         /\ \A k \in 1..Len(results) : results'[k] = results[k]
         /\ results'[Len(results) + 1].item = Item
         /\ results'[Len(results) + 1].status = status
         /\ \A e \in EntryIds :
              ResultsOf(e)' = IF e = Item THEN ResultsOf(e) \cup {Len(results) + 1}
                              ELSE ResultsOf(e)
         /\ Errors' = IF status = "error" THEN Errors \cup {Len(results) + 1}
                      ELSE Errors
<1> DEFINE new == [item |-> Item, status |-> status]
           n == Len(results)
<1>1. new \in Result /\ new.item = Item /\ new.status = status
  BY ItemIsListed DEF Result
<1>2. n \in Nat /\ results \in Seq(Result)
  BY DEF TypeOK
<1>3. results' = Append(results, new)
  BY DEF Report
<1> HIDE DEF new
<1>4. /\ results' \in Seq(Result) /\ Len(results') = n + 1
      /\ \A k \in 1..n : results'[k] = results[k]
      /\ results'[n + 1] = new
  BY <1>1, <1>2, <1>3
<1>5. ASSUME NEW e \in EntryIds
      PROVE  ResultsOf(e)' = IF e = Item THEN ResultsOf(e) \cup {n + 1} ELSE ResultsOf(e)
  <2>1. ResultsOf(e)' = {k \in 1..(n + 1) : results'[k].item = e}
    BY <1>4 DEF ResultsOf
  <2>2. ResultsOf(e) = {k \in 1..n : results'[k].item = e}
    BY <1>4 DEF ResultsOf
  <2> HIDE DEF n
  <2> QED BY <1>1, <1>2, <1>4, <2>1, <2>2
<1>6. Errors' = IF status = "error" THEN Errors \cup {n + 1} ELSE Errors
  <2>1. Errors' = {k \in 1..(n + 1) : results'[k].status = "error"}
    BY <1>4 DEF Errors
  <2>2. Errors = {k \in 1..n : results'[k].status = "error"}
    BY <1>4 DEF Errors
  <2> HIDE DEF n
  <2> QED BY <1>1, <1>2, <1>4, <2>1, <2>2
<1> QED BY <1>1, <1>4, <1>5, <1>6

(* A verification that finds something turns the last result into an error *)
(* and leaves whose results there are alone.                               *)
LEMMA SetLastEffect ==
  ASSUME TypeOK, results # <<>>, SetLast("error")
  PROVE  /\ results' \in Seq(Result)
         /\ Len(results') = Len(results) /\ Len(results) \in 1..Len(results)
         /\ \A k \in 1..Len(results) : results'[k].item = results[k].item
         /\ \A k \in 1..Len(results) : results'[k].status =
              IF k = Len(results) THEN "error" ELSE results[k].status
         /\ \A e \in EntryIds : ResultsOf(e)' = ResultsOf(e)
         /\ Errors' = Errors \cup {Len(results)}
<1> DEFINE n == Len(results)
           new == [results[n] EXCEPT !.status = "error"]
<1>1. results \in Seq(Result) /\ n \in Nat \ {0}
  BY DEF TypeOK
<1>2. results[n] \in Result
  BY <1>1
<1>3. new \in Result /\ new.item = results[n].item /\ new.status = "error"
  BY <1>2 DEF Result, Statuses
<1>4. results' = [results EXCEPT ![n] = new]
  BY DEF SetLast
<1> HIDE DEF new
<1>5. /\ results' \in Seq(Result) /\ Len(results') = n
      /\ \A k \in 1..n : results'[k] = IF k = n THEN new ELSE results[k]
  BY <1>1, <1>3, <1>4
<1>6. \A k \in 1..n : results'[k].item = results[k].item
  BY <1>3, <1>5
<1>7. \A k \in 1..n : results'[k].status = IF k = n THEN "error" ELSE results[k].status
  BY <1>3, <1>5
<1>8. \A e \in EntryIds : ResultsOf(e)' = ResultsOf(e)
  BY <1>5, <1>6 DEF ResultsOf
<1>9. Errors' = Errors \cup {n}
  BY <1>1, <1>5, <1>7 DEF Errors
<1> QED BY <1>1, <1>5, <1>6, <1>7, <1>8, <1>9

LEMMA InitTypes == Init => TypeOK
<1> SUFFICES ASSUME Init PROVE TypeOK
  OBVIOUS
<1>1. out \in [EntryIds -> {"none", "earlier"} \cup Images]
      /\ \A e \in EntryIds : ~HasImage(e)
  BY DEF Init, HasImage, Images
<1>2. list \in Seq(Packable) /\ results \in Seq(Result) /\ Len(list) = 0
  BY DEF Init
<1> QED BY <1>1, <1>2 DEF Init, TypeOK, AtAnItem, Pcs, Exits

LEMMA NextTypes == TypeOK /\ [Next]_vars => TypeOK'
<1> SUFFICES ASSUME TypeOK, [Next]_vars PROVE TypeOK'
  OBVIOUS
<1> USE DEF AtAnItem, Pcs, Exits, Goto, Escape
<1>1. CASE Discover
  <2>0. pc' # "discover"
    BY <1>1 DEF Discover
  <2> DEFINE found == {e \in Packable : source[e] = "present"}
  <2>1. IsFiniteSet(found) /\ found \subseteq Nat /\ found \subseteq Packable
    BY EntryIdsFinite, FS_Subset
  <2>2. list' = InOrder(found)
    BY <1>1 DEF Discover
  <2> HIDE DEF found
  <2>3. list' \in Seq(found)
        /\ \A j, k \in 1..Len(list') : j < k => list'[j] < list'[k]
    BY <2>1, <2>2, InOrderSorts
  <2>4. list' \in Seq(Packable) /\ Len(list') \in Nat
    <3>1. list' \in Seq(Packable)
      BY <2>1, <2>3, SeqMonotonic
    <3> QED BY <3>1, LenProperties
  <2>5. idx = 1 /\ idx' = 1 /\ cancel' = cancel /\ cancel \in 0..1
    BY <1>1 DEF Discover, TypeOK
  <2>6. pc' \in {"item", "ended"} /\ (pc' = "ended" <=> exit' # "running") /\ exit' \in Exits
    BY <1>1 DEF Discover, TypeOK
  <2> QED BY <1>1, <2>0, <2>3, <2>4, <2>5, <2>6 DEF Discover, TypeOK
<1>2. CASE SkipOrPlan
  <2>1. PICK status \in Statuses : Report(status)
    BY <1>2 DEF SkipOrPlan, Statuses
  <2>2. results' \in Seq(Result)
    BY <1>2, <2>1, ReportEffect DEF SkipOrPlan, AtItem
  <2> QED BY <1>2, <2>2 DEF SkipOrPlan, AtItem, TypeOK
<1>3. CASE SizeRaises
  BY <1>3 DEF SizeRaises, AtItem, TypeOK
<1>4. CASE AnnounceItem
  BY <1>4 DEF AnnounceItem, AtItem, TypeOK
<1>5. CASE BeginBuild
  BY <1>5 DEF BeginBuild, TypeOK
<1>6. CASE EndBuild
  <2>1. out' \in [EntryIds -> {"none", "earlier"} \cup Images]
    BY <1>6 DEF EndBuild, TypeOK
  <2> QED BY <1>6, <2>1 DEF EndBuild, TypeOK
<1>7. CASE Converted
  <2>1. idx <= Len(list) /\ Report("converted") /\ "converted" \in Statuses
    BY <1>7 DEF Converted, TypeOK, Statuses
  <2>2. results' \in Seq(Result) /\ Len(results') = Len(results) + 1
    BY <2>1, ReportEffect
  <2>3. Len(results) \in Nat /\ results' # <<>>
    BY <2>2 DEF TypeOK
  <2>4. pc' \in {"verify", "show_built"} /\ UNCHANGED exit
    BY <1>7 DEF Converted
  <2> QED BY <1>7, <2>1, <2>2, <2>3, <2>4 DEF Converted, TypeOK
<1>8. CASE Verify
  <2>1. results' \in Seq(Result)
    BY <1>8, SetLastEffect DEF Verify, TypeOK
  <2> QED BY <1>8, <2>1 DEF Verify, TypeOK
<1>9. CASE Show
  <2>1. idx \in 1..Len(list)
    BY <1>9 DEF Show, TypeOK
  <2> QED BY <1>9, <2>1 DEF Show, TypeOK
<1>10. CASE Catch
  <2>1. idx \in 1..Len(list) /\ "error" \in Statuses
    BY <1>10 DEF Catch, TypeOK, Statuses
  <2>2. results' \in Seq(Result)
    BY <1>10, <2>1, ReportEffect DEF Catch
  <2> QED BY <1>10, <2>1, <2>2 DEF Catch, TypeOK
<1>11. CASE Finish
  <2>1. exit' \in Exits \ {"running"} /\ pc' = "ended"
    BY <1>11 DEF Finish
  <2> QED BY <1>11, <2>1 DEF Finish, TypeOK
<1>12. CASE \E e \in Packable : Vanish(e)
  <2>1. PICK e \in Packable : Vanish(e)
    BY <1>12
  <2>2. source' \in [EntryIds -> {"present", "gone"}]
    BY <2>1 DEF Vanish, TypeOK
  <2> QED BY <2>1, <2>2 DEF Vanish, TypeOK, HasImage
<1>13. CASE RequestCancel
  BY <1>13 DEF RequestCancel, TypeOK, HasImage
<1>14. CASE Interrupt
  BY <1>14 DEF Interrupt, TypeOK, HasImage
<1>15. CASE UNCHANGED vars
  BY <1>15 DEF vars, TypeOK, HasImage
<1> QED
  BY <1>1, <1>2, <1>3, <1>4, <1>5, <1>6, <1>7, <1>8, <1>9, <1>10, <1>11, <1>12,
     <1>13, <1>14, <1>15 DEF Next, Command

(* Every variable has its type, the loop its item, the list its order.     *)
THEOREM TypesHold == Spec => []TypeOK
BY InitTypes, NextTypes, PTL DEF Spec

-----------------------------------------------------------------------------
(* The inductive invariants                                                *)

(* The results follow the list: they are in its order and none is ahead of *)
(* the loop; the item of the turn has none until one is reported, at the   *)
(* end, and a build that was reported may still fail.                      *)
ResultsInOrder ==
  /\ \A j, k \in 1..Len(results) : j <= k => results[j].item <= results[k].item
  /\ \A j \in 1..Len(results) :
       \E k \in 1..Len(list) : k <= idx /\ results[j].item = list[k]
  /\ idx <= Len(list) /\ pc \in {"item", "build", "building", "built"} =>
       ResultsOf(Item) = {}
  /\ pc \in {"show", "show_built", "verify"} => ResultsOf(Item) = {Len(results)}
  /\ pc = "caught" => ResultsOf(Item) \in {{}, {Len(results)}}

(* What EveryItemRecorded says of one item.                                *)
Recorded(k) ==
  \E j \in 1..Len(results) :
    \/ ResultsOf(list[k]) = {j}
    \/ ResultsOf(list[k]) = {j, j + 1} /\ results[j + 1].status = "error"

PassedRecorded == \A k \in 1..(idx - 1) : Recorded(k)

(* Why exit status 0 can be trusted with the item e.                       *)
Trusted(e) ==
  \/ opts.dryRun
  \/ \E j \in Errors : results[j].item = e
  \/ out[e] = "own"
  \/ out[e] = "damaged" /\ ~opts.verify
  \/ out[e] = "earlier" /\ ~opts.overwrite

PassedHaveImages ==
  /\ \A k \in 1..(idx - 1) : Trusted(list[k])
  /\ pc \in {"show", "show_built"} => Trusted(Item)
  /\ pc \in {"built", "verify"} => HasImage(Item)
  /\ exit = "zero" => Errors = {} /\ \A k \in 1..Len(list) : Trusted(list[k])

(* What the verification of an item demands.                               *)
Sound(o, e) == o[e] # "damaged" /\ SourcePaths(e) = ImagePaths(e)

(* Only the last result can be a conversion that is still to be verified.  *)
VerifiedOnes ==
  opts.verify /\ exit # "killed" =>
    \A k \in 1..Len(results) : results[k].status = "converted" =>
      \/ Sound(out, results[k].item)
      \/ pc = "verify" /\ k = Len(results)

(* Nothing is built ahead of the loop, and a build that runs was begun     *)
(* before the cancellation was requested.                                  *)
NotYetBuilt ==
  /\ \A k \in (idx + 1)..Len(list) : ~HasImage(list[k])
  /\ pc \in {"item", "build", "building"} /\ idx <= Len(list) => ~HasImage(Item)
  /\ pc = "building" /\ cancel # 0 => cancel = idx

(* The steps that report nothing and leave the loop at its item.           *)
QuietAction ==
  \/ SizeRaises \/ AnnounceItem \/ BeginBuild \/ EndBuild \/ Finish
  \/ \E e \in Packable : Vanish(e)
  \/ RequestCancel \/ Interrupt \/ UNCHANGED vars

QuietMove ==
  \/ pc' = pc
  \/ pc' = "ended"
  \/ pc = "item" /\ pc' = "build"
  \/ pc = "build" /\ pc' \in {"building", "caught"}
  \/ pc = "building" /\ pc' \in {"built", "caught"}

LEMMA QuietStep ==
  ASSUME QuietAction
  PROVE  UNCHANGED <<opts, list, idx, results>> /\ QuietMove
<1> USE DEF QuietMove, Goto, Escape
<1>1. CASE SizeRaises
  BY <1>1 DEF SizeRaises
<1>2. CASE AnnounceItem
  BY <1>2 DEF AnnounceItem, AtItem
<1>3. CASE BeginBuild
  BY <1>3 DEF BeginBuild
<1>4. CASE EndBuild
  BY <1>4 DEF EndBuild
<1>5. CASE Finish
  BY <1>5 DEF Finish
<1>6. CASE \E e \in Packable : Vanish(e)
  BY <1>6 DEF Vanish
<1>7. CASE RequestCancel
  BY <1>7 DEF RequestCancel
<1>8. CASE Interrupt
  BY <1>8 DEF Interrupt
<1>9. CASE UNCHANGED vars
  BY <1>9 DEF vars
<1> QED
  BY <1>1, <1>2, <1>3, <1>4, <1>5, <1>6, <1>7, <1>8, <1>9 DEF QuietAction

-----------------------------------------------------------------------------
(* The results follow the list                                             *)

LEMMA InitResults == Init => ResultsInOrder
<1> SUFFICES ASSUME Init PROVE ResultsInOrder
  OBVIOUS
<1> QED BY DEF Init, ResultsInOrder

(* One more result for the item of the turn keeps the order.               *)
LEMMA ReportInOrder ==
  ASSUME TypeOK, ResultsInOrder, idx <= Len(list), UNCHANGED list,
         NEW status \in Statuses, Report(status)
  PROVE  /\ \A j, k \in 1..Len(results') :
              j <= k => results'[j].item <= results'[k].item
         /\ \A j \in 1..Len(results') :
              \E k \in 1..Len(list) : k <= idx /\ results'[j].item = list[k]
<1> DEFINE n == Len(results)
<1>1. /\ Len(results') = n + 1
      /\ \A k \in 1..n : results'[k] = results[k]
      /\ results'[n + 1].item = list[idx]
  BY ReportEffect DEF Item
<1>2. n \in Nat /\ idx \in 1..Len(list)
  BY ItemIsListed DEF TypeOK
<1>3. \A k \in 1..Len(list) : list[k] \in Nat
  BY EntryIdsFinite, ElementOfSeq DEF TypeOK
<1> HIDE DEF n
<1>4. ASSUME NEW j \in 1..(n + 1)
      PROVE  \E k \in 1..Len(list) : k <= idx /\ results'[j].item = list[k]
  <2>1. CASE j = n + 1
    BY <1>1, <1>2, <2>1
  <2>2. CASE j # n + 1
    <3>1. j \in 1..n
      BY <1>2, <2>2
    <3>2. PICK k \in 1..Len(list) : k <= idx /\ results[j].item = list[k]
      BY <3>1 DEF ResultsInOrder, n
    <3> QED BY <1>1, <3>1, <3>2
  <2> QED BY <2>1, <2>2
<1>5. ASSUME NEW j \in 1..(n + 1), NEW k \in 1..(n + 1), j <= k
      PROVE  results'[j].item <= results'[k].item
  <2>1. CASE k = n + 1
    <3>1. PICK i \in 1..Len(list) : i <= idx /\ results'[j].item = list[i]
      BY <1>4
    <3>2. list[i] <= list[idx]
      BY <1>2, <1>3, <3>1 DEF TypeOK
    <3> QED BY <1>1, <2>1, <3>1, <3>2
  <2>2. CASE k # n + 1
    <3>1. j \in 1..n /\ k \in 1..n
      BY <1>2, <1>5, <2>2
    <3>2. results[j].item <= results[k].item
      BY <1>5, <3>1 DEF ResultsInOrder, n
    <3> QED BY <1>1, <3>1, <3>2
  <2> QED BY <2>1, <2>2
<1> QED BY <1>1, <1>4, <1>5

(* The next item of the list has no result yet.                            *)
LEMMA NextItemIsNew ==
  ASSUME TypeOK, idx < Len(list), NEW rs,
         \A j \in 1..Len(rs) : \E k \in 1..Len(list) : k <= idx /\ rs[j].item = list[k]
  PROVE  {j \in 1..Len(rs) : rs[j].item = list[idx + 1]} = {}
<1> SUFFICES ASSUME NEW j \in 1..Len(rs), rs[j].item = list[idx + 1]
             PROVE  FALSE
  OBVIOUS
<1>1. PICK k \in 1..Len(list) : k <= idx /\ rs[j].item = list[k]
  OBVIOUS
<1>2. idx \in Nat /\ idx + 1 \in 1..Len(list) /\ k < idx + 1 /\ k \in Nat
  BY <1>1 DEF TypeOK
<1>3. list[k] < list[idx + 1] /\ list[k] \in Nat
  BY <1>1, <1>2, EntryIdsFinite, ElementOfSeq DEF TypeOK
<1> QED BY <1>1, <1>3

LEMMA NextResults ==
  TypeOK /\ TypeOK' /\ ResultsInOrder /\ [Next]_vars => ResultsInOrder'
<1> SUFFICES ASSUME TypeOK, TypeOK', ResultsInOrder, [Next]_vars
             PROVE  ResultsInOrder'
  OBVIOUS
<1> USE DEF Goto, Escape
<1>1. CASE Discover
  <2>1. results' = <<>> /\ pc' \in {"item", "ended"}
    BY <1>1 DEF Discover, TypeOK
  <2> QED BY <2>1 DEF ResultsInOrder, ResultsOf
<1>2. CASE SkipOrPlan
  <2>1. PICK status \in Statuses : Report(status)
    BY <1>2 DEF SkipOrPlan, Statuses
  <2>2. idx <= Len(list) /\ pc = "item" /\ pc' = "show" /\ UNCHANGED <<list, idx>>
    BY <1>2 DEF SkipOrPlan, AtItem
  <2>3. ResultsOf(Item) = {}
    BY <2>2 DEF ResultsInOrder
  <2>4. Item \in EntryIds /\ Item' = Item
    BY <2>2, ItemIsListed DEF Item
  <2>5. ResultsOf(Item)' = {Len(results')}
    BY <2>1, <2>2, <2>3, <2>4, ReportEffect DEF ResultsOf
  <2> QED BY <2>1, <2>2, <2>5, ReportInOrder DEF ResultsInOrder
<1>3. CASE Converted
  <2>1. Report("converted") /\ "converted" \in Statuses
    BY <1>3 DEF Converted, Statuses
  <2>2. idx <= Len(list) /\ pc = "built" /\ pc' \in {"verify", "show_built"}
        /\ UNCHANGED <<list, idx>>
    BY <1>3 DEF Converted, TypeOK, AtAnItem
  <2>3. ResultsOf(Item) = {}
    BY <2>2 DEF ResultsInOrder
  <2>4. Item \in EntryIds /\ Item' = Item
    BY <2>2, ItemIsListed DEF Item
  <2>5. ResultsOf(Item)' = {Len(results')}
    BY <2>1, <2>2, <2>3, <2>4, ReportEffect DEF ResultsOf
  <2> QED BY <2>1, <2>2, <2>5, ReportInOrder DEF ResultsInOrder
<1>4. CASE Verify
  <2>1. pc = "verify" /\ pc' = "show_built" /\ UNCHANGED <<list, idx>> /\ results # <<>>
    BY <1>4 DEF Verify, TypeOK
  <2>2. /\ Len(results') = Len(results)
        /\ \A k \in 1..Len(results) : results'[k].item = results[k].item
    BY <1>4, <2>1, SetLastEffect DEF Verify
  <2>3. ResultsOf(Item) = {Len(results)}
    BY <2>1 DEF ResultsInOrder
  <2>4. ResultsOf(Item)' = {Len(results)}
    BY <2>1, <2>2, <2>3 DEF ResultsOf, Item
  <2> QED BY <2>1, <2>2, <2>4 DEF ResultsInOrder
<1>5. CASE Show
  <2>1. idx \in 1..Len(list) /\ UNCHANGED <<list, results>>
        /\ ResultsOf(Item) = {Len(results)}
    BY <1>5 DEF Show, TypeOK, AtAnItem, ResultsInOrder
  <2>2. CASE pc' = "item" /\ idx' = idx + 1
    <3>1. idx < Len(list) => ResultsOf(Item)' = {}
      BY <2>1, <2>2, NextItemIsNew DEF ResultsInOrder, ResultsOf, Item
    <3>2. idx \in Nat /\ Len(list) \in Nat
      BY <2>1 DEF TypeOK
    <3> QED BY <2>1, <2>2, <3>1, <3>2 DEF ResultsInOrder
  <2>3. CASE pc' \in {"caught", "ended"} /\ idx' = idx
    <3>1. ResultsOf(Item)' = {Len(results')}
      BY <2>1, <2>3 DEF ResultsOf, Item
    <3> QED BY <2>1, <2>3, <3>1 DEF ResultsInOrder
  <2> QED BY <1>5, <2>2, <2>3 DEF Show
<1>6. CASE Catch
  <2>1. idx \in 1..Len(list) /\ UNCHANGED list /\ Report("error") /\ "error" \in Statuses
    BY <1>6 DEF Catch, TypeOK, AtAnItem, Statuses
  <2>2. \A j \in 1..Len(results') :
          \E k \in 1..Len(list) : k <= idx /\ results'[j].item = list[k]
    BY <2>1, ReportInOrder
  <2>3. CASE pc' = "item" /\ idx' = idx + 1
    <3>1. idx < Len(list) => ResultsOf(Item)' = {}
      BY <2>1, <2>2, <2>3, NextItemIsNew DEF ResultsOf, Item
    <3>2. idx \in Nat /\ Len(list) \in Nat
      BY <2>1 DEF TypeOK
    <3> QED BY <2>1, <2>2, <2>3, <3>1, <3>2, ReportInOrder DEF ResultsInOrder
  <2>4. CASE pc' = "ended" /\ idx' = idx
    BY <2>1, <2>4, ReportInOrder DEF ResultsInOrder
  <2> QED BY <1>6, <2>3, <2>4 DEF Catch
<1>7. CASE QuietAction
  <2>1. UNCHANGED <<list, idx, results>> /\ QuietMove
    BY <1>7, QuietStep
  <2>2. ResultsOf(Item)' = ResultsOf(Item)
    BY <2>1 DEF ResultsOf, Item
  <2>3. pc = "building" \/ pc = "build" => idx <= Len(list)
    BY DEF TypeOK, AtAnItem
  <2> QED BY <2>1, <2>2, <2>3 DEF ResultsInOrder, QuietMove
<1> QED
  BY <1>1, <1>2, <1>3, <1>4, <1>5, <1>6, <1>7 DEF Next, Command, QuietAction

-----------------------------------------------------------------------------
(* What the loop has passed is recorded                                    *)

(* Positions of the list hold different entries.                           *)
LEMMA ItemsDiffer ==
  ASSUME TypeOK, idx <= Len(list), NEW k \in 1..(idx - 1)
  PROVE  k \in 1..Len(list) /\ list[k] \in EntryIds /\ list[k] # Item
<1>1. k \in 1..Len(list) /\ idx \in 1..Len(list) /\ k < idx
  BY DEF TypeOK
<1>2. list[k] < list[idx] /\ list[k] \in Packable /\ list[idx] \in Packable
  BY <1>1, ElementOfSeq DEF TypeOK
<1>3. list[k] \in EntryIds /\ list[k] \in Nat /\ list[idx] \in Nat
  BY <1>2, EntryIdsFinite
<1> QED BY <1>1, <1>2, <1>3 DEF Item

(* A report for the item of the turn leaves the records of the others.     *)
LEMMA ReportKeepsRecords ==
  ASSUME TypeOK, idx <= Len(list), UNCHANGED list, PassedRecorded,
         NEW status \in Statuses, Report(status), NEW k \in 1..(idx - 1)
  PROVE  Recorded(k)'
<1>1. list[k] \in EntryIds /\ list[k] # Item /\ list'[k] = list[k]
  BY ItemsDiffer
<1>2. ResultsOf(list[k])' = ResultsOf(list[k])
  BY <1>1, ReportEffect DEF ResultsOf
<1>3. PICK j \in 1..Len(results) :
        \/ ResultsOf(list[k]) = {j}
        \/ ResultsOf(list[k]) = {j, j + 1} /\ results[j + 1].status = "error"
  BY DEF PassedRecorded, Recorded
<1>4. Len(results) \in Nat /\ j \in 1..Len(results')
  BY <1>3, ReportEffect DEF TypeOK
<1>5. CASE ResultsOf(list[k]) = {j}
  BY <1>2, <1>4, <1>5 DEF Recorded
<1>6. CASE ResultsOf(list[k]) = {j, j + 1} /\ results[j + 1].status = "error"
  <2>1. j + 1 \in 1..Len(results)
    BY <1>6 DEF ResultsOf
  <2>2. results'[j + 1].status = "error"
    BY <1>6, <2>1, ReportEffect
  <2> QED BY <1>2, <1>4, <1>6, <2>2 DEF Recorded
<1> QED BY <1>3, <1>5, <1>6

LEMMA NextRecorded ==
  TypeOK /\ ResultsInOrder /\ PassedRecorded /\ [Next]_vars => PassedRecorded'
<1> SUFFICES ASSUME TypeOK, ResultsInOrder, PassedRecorded, [Next]_vars
             PROVE  PassedRecorded'
  OBVIOUS
<1> USE DEF Goto, Escape
<1>1. CASE Discover
  BY <1>1 DEF Discover, TypeOK, PassedRecorded
<1>2. CASE SkipOrPlan
  <2>1. PICK status \in Statuses : Report(status)
    BY <1>2 DEF SkipOrPlan, Statuses
  <2>2. idx <= Len(list) /\ UNCHANGED <<list, idx>>
    BY <1>2 DEF SkipOrPlan, AtItem
  <2> QED BY <2>1, <2>2, ReportKeepsRecords DEF PassedRecorded
<1>3. CASE Converted
  <2>1. idx <= Len(list) /\ UNCHANGED <<list, idx>>
        /\ Report("converted") /\ "converted" \in Statuses
    BY <1>3 DEF Converted, TypeOK, AtAnItem, Statuses
  <2> QED BY <2>1, ReportKeepsRecords DEF PassedRecorded
<1>4. CASE Verify
  <2>1. UNCHANGED <<list, idx>> /\ results # <<>> /\ idx <= Len(list)
    BY <1>4 DEF Verify, TypeOK, AtAnItem
  <2>2. /\ Len(results') = Len(results)
        /\ \A k \in 1..Len(results) :
             /\ results'[k].item = results[k].item
             /\ results[k].status = "error" => results'[k].status = "error"
    BY <1>4, <2>1, SetLastEffect DEF Verify
  <2>3. ASSUME NEW k \in 1..(idx - 1)
        PROVE  Recorded(k)'
    <3>1. PICK j \in 1..Len(results) :
            \/ ResultsOf(list[k]) = {j}
            \/ ResultsOf(list[k]) = {j, j + 1} /\ results[j + 1].status = "error"
      BY <2>3 DEF PassedRecorded, Recorded
    <3>2. ResultsOf(list[k])' = ResultsOf(list[k])
      BY <2>1, <2>2 DEF ResultsOf
    <3>3. ResultsOf(list[k]) = {j, j + 1} => j + 1 \in 1..Len(results)
      BY DEF ResultsOf
    <3> QED BY <2>2, <3>1, <3>2, <3>3 DEF Recorded
  <2> QED BY <2>1, <2>3 DEF PassedRecorded
<1>5. CASE Show
  <2>1. PICK i \in 1..Len(list) : i = idx
    BY <1>5 DEF Show, TypeOK, AtAnItem
  <2>2. UNCHANGED <<list, results>> /\ ResultsOf(list[i]) = {Len(results)}
    BY <1>5, <2>1 DEF Show, ResultsInOrder, Item
  <2>3. Recorded(i)
    <3>1. Len(results) \in 1..Len(results)
      BY <2>2 DEF ResultsOf
    <3> QED BY <2>2, <3>1 DEF Recorded
  <2>4. \A k \in 1..i : Recorded(k)
    BY <2>1, <2>3 DEF PassedRecorded
  <2>5. \A k \in 1..i : Recorded(k)'
    BY <2>2, <2>4 DEF Recorded, ResultsOf
  <2>6. idx' \in {i, i + 1} /\ i \in Nat
    BY <1>5, <2>1 DEF Show
  <2>7. PICK m \in Nat : m = idx'
    BY <2>6
  <2>8. m \in {i, i + 1} /\ i \in Nat
    BY <2>6, <2>7
  <2>9. \A k \in 1..(m - 1) : k \in 1..i
    BY <2>8
  <2> QED BY <2>5, <2>7, <2>9 DEF PassedRecorded
<1>6. CASE Catch
  <2>1. PICK i \in 1..Len(list) : i = idx
    BY <1>6 DEF Catch, TypeOK, AtAnItem
  <2>2. idx <= Len(list) /\ UNCHANGED list /\ Report("error") /\ "error" \in Statuses
    BY <1>6, <2>1 DEF Catch, Statuses
  <2>3. \A k \in 1..(i - 1) : Recorded(k)'
    BY <2>1, <2>2, ReportKeepsRecords
  <2>4. Recorded(i)'
    <3> DEFINE n == Len(results)
    <3>1. list[i] \in EntryIds /\ list[i] = Item /\ n \in Nat
      BY <2>1, <2>2, ItemIsListed DEF TypeOK, Item
    <3>2. /\ Len(results') = n + 1
          /\ results'[n + 1].status = "error"
          /\ ResultsOf(list[i])' = ResultsOf(list[i]) \cup {n + 1}
      BY <2>2, <3>1, ReportEffect DEF ResultsOf
    <3>3. CASE ResultsOf(list[i]) = {}
      <4>1. ResultsOf(list[i])' = {n + 1} /\ n + 1 \in 1..Len(results')
        BY <3>1, <3>2, <3>3
      <4> QED BY <4>1 DEF Recorded
    <3>4. CASE ResultsOf(list[i]) = {n}
      <4>1. n \in 1..n
        BY <3>4 DEF ResultsOf
      <4>2. ResultsOf(list[i])' = {n, n + 1} /\ n \in 1..Len(results')
        BY <3>1, <3>2, <3>4, <4>1
      <4> QED BY <3>2, <4>2 DEF Recorded
    <3> QED BY <1>6, <3>1, <3>3, <3>4 DEF Catch, ResultsInOrder
  <2>5. idx' \in {i, i + 1} /\ i \in Nat
    BY <1>6, <2>1 DEF Catch
  <2>6. \A k \in 1..i : Recorded(k)'
    BY <2>3, <2>4, <2>5
  <2>7. PICK m \in Nat : m = idx'
    BY <2>5
  <2>8. m \in {i, i + 1} /\ i \in Nat
    BY <2>5, <2>7
  <2>9. \A k \in 1..(m - 1) : k \in 1..i
    BY <2>8
  <2> QED BY <2>6, <2>7, <2>9 DEF PassedRecorded
<1>7. CASE QuietAction
  BY <1>7, QuietStep DEF PassedRecorded, Recorded, ResultsOf
<1> QED
  BY <1>1, <1>2, <1>3, <1>4, <1>5, <1>6, <1>7 DEF Next, Command, QuietAction

-----------------------------------------------------------------------------
(* What exit status 0 says                                                 *)

(* What is good stays good: only the item of the turn is built, results    *)
(* are only added, and the status of one only turns into an error.         *)
LEMMA ImagesStay ==
  ASSUME TypeOK, TypeOK', ResultsInOrder, Next, NEW e \in EntryIds, Trusted(e),
         EndBuild => e # Item
  PROVE  Trusted(e)'
<1>1. UNCHANGED opts
  BY DEF Next, Command, Discover, SkipOrPlan, SizeRaises, AnnounceItem, BeginBuild,
     EndBuild, Converted, Verify, Show, Catch, Finish, Vanish, RequestCancel, Interrupt
<1>2. out'[e] = out[e]
  <2>1. EndBuild => out'[e] = out[e]
    BY DEF EndBuild, TypeOK
  <2>2. ~EndBuild => UNCHANGED out
    BY DEF Next, Command, Discover, SkipOrPlan, SizeRaises, AnnounceItem, BeginBuild,
       Converted, Verify, Show, Catch, Finish, Vanish, RequestCancel, Interrupt
  <2> QED BY <2>1, <2>2
<1>3. ASSUME NEW j \in Errors, results[j].item = e
      PROVE  j \in Errors' /\ results'[j].item = e
  <2>1. j \in 1..Len(results)
    BY DEF Errors
  <2>2. CASE UNCHANGED results
    BY <1>3, <2>2 DEF Errors
  <2>3. CASE SkipOrPlan \/ Converted \/ Catch
    <3>1. idx <= Len(list) /\ \E status \in Statuses : Report(status)
      BY <2>3 DEF SkipOrPlan, Converted, Catch, AtItem, TypeOK, AtAnItem, Statuses
    <3>2. PICK status \in Statuses : Report(status)
      BY <3>1
    <3> QED BY <1>3, <2>1, <3>1, <3>2, ReportEffect
  <2>4. CASE Verify
    <3>1. results # <<>>
      BY <2>4 DEF Verify, TypeOK
    <3> QED BY <1>3, <2>1, <2>2, <2>4, <3>1, SetLastEffect DEF Verify
  <2> QED BY <2>2, <2>3, <2>4
       DEF Next, Command, Discover, SizeRaises, AnnounceItem, BeginBuild, EndBuild,
           Show, Finish, Vanish, RequestCancel, Interrupt
<1> QED BY <1>1, <1>2, <1>3 DEF Trusted, TypeOK

(* A listed position is the entry of its item.                             *)
LEMMA ListedEntry ==
  ASSUME TypeOK, NEW k \in 1..Len(list)
  PROVE  list[k] \in EntryIds
BY EntryIdsFinite, ElementOfSeq DEF TypeOK

LEMMA InitImages == Init => PassedHaveImages
<1> SUFFICES ASSUME Init PROVE PassedHaveImages
  OBVIOUS
<1> QED BY DEF Init, PassedHaveImages

LEMMA NextImages ==
  TypeOK /\ TypeOK' /\ ResultsInOrder /\ NotYetBuilt /\ PassedHaveImages /\ [Next]_vars
    => PassedHaveImages'
<1> SUFFICES ASSUME TypeOK, TypeOK', ResultsInOrder, NotYetBuilt, PassedHaveImages,
                    [Next]_vars
             PROVE  PassedHaveImages'
  OBVIOUS
<1> USE DEF Goto, Escape
<1>1. ASSUME Next, UNCHANGED list, NEW k \in 1..Len(list), Trusted(list[k]),
             EndBuild => list[k] # Item
      PROVE  Trusted(list[k])'
  <2>1. PICK e \in EntryIds : e = list[k]
    BY <1>1, ListedEntry
  <2>2. Trusted(e)'
    BY <1>1, <2>1, ImagesStay
  <2> QED BY <1>1, <2>1, <2>2
<1>2. ASSUME Next, UNCHANGED <<list, idx>>
      PROVE  \A k \in 1..(idx' - 1) : Trusted(list[k])'
  <2>1. \A k \in 1..(idx - 1) : k \in 1..Len(list)
    BY DEF TypeOK
  <2>2. EndBuild => \A k \in 1..(idx - 1) : list[k] # Item
    BY ItemsDiffer DEF EndBuild, TypeOK, AtAnItem
  <2> QED BY <1>1, <1>2, <2>1, <2>2 DEF PassedHaveImages
<1>3. ASSUME Next, UNCHANGED list, idx \in 1..Len(list), idx' \in {idx, idx + 1},
             Trusted(list[idx]), ~EndBuild
      PROVE  \A k \in 1..(idx' - 1) : Trusted(list[k])'
  <2>1. PICK i \in 1..Len(list) : i = idx
    BY <1>3
  <2>2. PICK m \in Nat : m = idx'
    BY <1>3
  <2>3. m \in {i, i + 1} /\ i \in Nat
    BY <1>3, <2>1, <2>2
  <2>4. \A k \in 1..(m - 1) : k \in 1..Len(list) /\ (k \in 1..(i - 1) \/ k = i)
    BY <2>3
  <2>5. \A k \in 1..(m - 1) : Trusted(list[k])
    BY <1>3, <2>1, <2>4 DEF PassedHaveImages
  <2> QED BY <1>1, <1>3, <2>2, <2>4, <2>5
<1>4. CASE Discover
  <2>1. idx' = 1 /\ results' = <<>> /\ pc' \in {"item", "ended"}
        /\ (exit' = "zero" => list' = <<>>)
    BY <1>4 DEF Discover, TypeOK
  <2> QED BY <2>1 DEF PassedHaveImages, Errors
<1>5. CASE SkipOrPlan
  <2>1. PICK e \in EntryIds : e = Item
    BY <1>5, ItemIsListed DEF SkipOrPlan, AtItem
  <2>2. pc' = "show" /\ UNCHANGED <<exit, list, idx, opts, out>> /\ exit' # "zero"
    BY <1>5 DEF SkipOrPlan, AtItem, TypeOK
  <2>3. (out[e] = "earlier" /\ ~opts.overwrite) \/ opts.dryRun
    <3>1. ~HasImage(e)
      BY <1>5, <2>1 DEF SkipOrPlan, AtItem, NotYetBuilt
    <3> QED BY <1>5, <2>1, <3>1 DEF SkipOrPlan, Skips, HasImage, TypeOK
  <2>4. Trusted(e)'
    BY <2>2, <2>3 DEF Trusted
  <2>5. e = Item'
    BY <2>1, <2>2 DEF Item
  <2> QED BY <1>2, <1>5, <2>2, <2>4, <2>5 DEF PassedHaveImages, Next, Command
<1>6. CASE Converted
  <2>1. pc = "built" /\ UNCHANGED <<exit, list, idx, out, opts>> /\ exit' # "zero"
        /\ pc' = IF opts.verify THEN "verify" ELSE "show_built"
    BY <1>6 DEF Converted, TypeOK
  <2>2. HasImage(Item)'
    BY <2>1 DEF PassedHaveImages, HasImage, Item
  <2>3. pc' = "show_built" => Trusted(Item)'
    BY <2>1, <2>2 DEF HasImage, Images, Trusted
  <2> QED BY <1>2, <1>6, <2>1, <2>2, <2>3 DEF PassedHaveImages, Next, Command
<1>7. CASE Verify
  <2>1. pc = "verify" /\ pc' = "show_built" /\ UNCHANGED <<exit, list, idx, out>>
        /\ exit' # "zero" /\ results # <<>>
    BY <1>7 DEF Verify, TypeOK
  <2>2. Trusted(Item)'
    <3>1. CASE ~Finds
      BY <2>1, <3>1 DEF Finds, PassedHaveImages, HasImage, Images, Trusted, Item
    <3>2. CASE SetLast("error")
      <4>1. results[Len(results)].item = Item /\ Len(results) \in 1..Len(results)
        BY <2>1 DEF ResultsInOrder, ResultsOf
      <4>2. Len(results) \in Errors' /\ results'[Len(results)].item = Item
        BY <2>1, <3>2, <4>1, SetLastEffect
      <4> QED BY <2>1, <4>2 DEF Trusted, Item
    <3> QED BY <1>7, <3>1, <3>2 DEF Verify
  <2> QED BY <1>2, <1>7, <2>1, <2>2 DEF PassedHaveImages, Next, Command
<1>8. CASE Show
  <2>1. idx \in 1..Len(list) /\ UNCHANGED <<list, out, opts>> /\ idx' \in {idx, idx + 1}
    BY <1>8 DEF Show, TypeOK, AtAnItem
  <2>2. Trusted(list[idx])
    BY <1>8 DEF Show, PassedHaveImages, Item
  <2>3. pc' \in {"item", "caught", "ended"} /\ exit' # "zero" /\ ~EndBuild
    BY <1>8 DEF Show, EndBuild, TypeOK
  <2> QED BY <1>3, <1>8, <2>1, <2>2, <2>3 DEF PassedHaveImages, Next, Command
<1>9. CASE Catch
  <2>1. PICK i \in 1..Len(list) : i = idx
    BY <1>9 DEF Catch, TypeOK, AtAnItem
  <2>2. UNCHANGED list /\ idx' \in {i, i + 1} /\ i \in Nat
        /\ pc' \in {"item", "ended"} /\ exit' # "zero"
    BY <1>9, <2>1 DEF Catch, TypeOK
  <2>3. Trusted(list[i])'
    <3>1. Len(results) + 1 \in Errors' /\ results'[Len(results) + 1].item = list[i]
      BY <1>9, <2>1, ReportEffect DEF Catch, Item, Statuses
    <3> QED BY <2>2, <3>1 DEF Trusted
  <2>4. \A k \in 1..(i - 1) : k \in 1..Len(list) /\ Trusted(list[k])
    BY <2>1 DEF PassedHaveImages
  <2>5. \A k \in 1..(i - 1) : Trusted(list[k])'
    BY <1>1, <1>9, <2>2, <2>4 DEF Next, Command, Catch, EndBuild
  <2>6. PICK m \in Nat : m = idx'
    BY <2>2
  <2>7. m \in {i, i + 1} /\ i \in Nat
    BY <2>2, <2>6
  <2>8. \A k \in 1..(m - 1) : k \in 1..(i - 1) \/ k = i
    BY <2>7
  <2>9. \A k \in 1..(m - 1) : Trusted(list[k])'
    BY <2>3, <2>5, <2>8
  <2> QED BY <2>2, <2>6, <2>9 DEF PassedHaveImages
<1>10. CASE Finish
  <2>1. UNCHANGED <<opts, list, idx, results, out>> /\ pc' = "ended" /\ idx > Len(list)
        /\ (exit' = "zero" => Errors = {})
    BY <1>10 DEF Finish
  <2>2. \A k \in 1..Len(list) : k \in 1..(idx - 1)
    BY <2>1 DEF TypeOK
  <2> QED BY <2>1, <2>2 DEF PassedHaveImages, Trusted, Errors
<1>11. CASE EndBuild
  <2>1. UNCHANGED <<list, idx, exit>> /\ pc' \in {"built", "caught"} /\ exit' # "zero"
        /\ Item \in EntryIds
    BY <1>11, ItemIsListed DEF EndBuild, TypeOK, AtAnItem
  <2>2. pc' = "built" => HasImage(Item)'
    BY <1>11, <2>1 DEF EndBuild, Item, HasImage, TypeOK
  <2> QED BY <1>2, <1>11, <2>1, <2>2 DEF PassedHaveImages, Next, Command
<1>12. CASE SizeRaises \/ AnnounceItem \/ BeginBuild
  <2>1. UNCHANGED <<list, idx>> /\ pc' \in {"ended", "build", "building", "caught"}
        /\ exit' # "zero"
    BY <1>12 DEF SizeRaises, AnnounceItem, BeginBuild, TypeOK
  <2> QED BY <1>2, <1>12, <2>1 DEF PassedHaveImages, Next, Command
<1>13. CASE \/ \E e \in Packable : Vanish(e)
            \/ RequestCancel \/ Interrupt \/ UNCHANGED vars
  <2>1. UNCHANGED <<opts, list, idx, results, out>>
        /\ (pc' = pc \/ pc' = "ended")
        /\ (exit' = "zero" => exit = "zero")
    BY <1>13 DEF Vanish, RequestCancel, Interrupt, vars
  <2> QED BY <2>1 DEF PassedHaveImages, Trusted, HasImage, Errors, Item
<1> QED
  BY <1>4, <1>5, <1>6, <1>7, <1>8, <1>9, <1>10, <1>11, <1>12, <1>13 DEF Next, Command

-----------------------------------------------------------------------------
(* What a converted item says                                              *)

LEMMA InitVerified == Init => VerifiedOnes
<1> SUFFICES ASSUME Init PROVE VerifiedOnes
  OBVIOUS
<1> QED BY DEF Init, VerifiedOnes

LEMMA NextVerified ==
  TypeOK /\ TypeOK' /\ ResultsInOrder /\ VerifiedOnes /\ [Next]_vars => VerifiedOnes'
<1> SUFFICES ASSUME TypeOK, TypeOK', ResultsInOrder, VerifiedOnes, [Next]_vars,
                    opts'.verify, exit' # "killed",
                    NEW k \in 1..Len(results'), results'[k].status = "converted"
             PROVE  \/ Sound(out', results'[k].item)
                    \/ pc' = "verify" /\ k = Len(results')
  BY DEF VerifiedOnes, Sound, SourcePaths, ImagePaths
<1> USE DEF Goto, Escape
<1>1. ASSUME UNCHANGED out, opts.verify, exit # "killed", pc # "verify",
             k \in 1..Len(results), results[k] = results'[k]
      PROVE  Sound(out', results'[k].item)
  BY <1>1 DEF VerifiedOnes, Sound, SourcePaths, ImagePaths
<1>2. ASSUME UNCHANGED out, opts.verify, exit # "killed", pc # "verify", idx <= Len(list),
             NEW status \in Statuses, Report(status), k # Len(results')
      PROVE  Sound(out', results'[k].item)
  <2>1. Len(results) \in Nat /\ Len(results') = Len(results) + 1
    BY <1>2, ReportEffect DEF TypeOK
  <2>2. k \in 1..Len(results)
    BY <1>2, <2>1
  <2>3. results'[k] = results[k]
    BY <1>2, <2>2, ReportEffect
  <2> QED BY <1>1, <1>2, <2>2, <2>3
<1>3. ASSUME NEW status \in Statuses, Report(status), idx <= Len(list),
             k = Len(results')
      PROVE  status = "converted"
  <2>1. results'[Len(results) + 1].status = status /\ Len(results') = Len(results) + 1
    BY <1>3, ReportEffect
  <2> QED BY <1>3, <2>1
<1>4. CASE Discover
  BY <1>4 DEF Discover, TypeOK
<1>5. CASE SkipOrPlan
  <2>1. PICK status \in Statuses \ {"converted"} : Report(status)
    BY <1>5 DEF SkipOrPlan, Statuses
  <2> QED BY <1>2, <1>3, <1>5, <2>1 DEF SkipOrPlan, AtItem
<1>6. CASE Converted
  <2>1. Report("converted") /\ "converted" \in Statuses /\ idx <= Len(list)
        /\ UNCHANGED <<opts, exit, out>> /\ pc = "built"
    BY <1>6 DEF Converted, Statuses, TypeOK, AtAnItem
  <2>2. opts.verify /\ pc' = "verify"
    BY <1>6, <2>1 DEF Converted
  <2> QED BY <1>2, <2>1, <2>2
<1>7. CASE Verify
  <2> DEFINE n == Len(results)
  <2>1. opts.verify /\ exit # "killed" /\ pc = "verify" /\ results # <<>>
        /\ n \in 1..n /\ results[n] \in Result /\ UNCHANGED out
    BY <1>7 DEF Verify, TypeOK
  <2>2. results[n].item = Item
    BY <2>1 DEF ResultsInOrder, ResultsOf
  <2>3. CASE SetLast("error")
    <3>1. k \in 1..n /\ k # n /\ results'[k].item = results[k].item
          /\ results[k].status = "converted"
      BY <2>1, <2>3, SetLastEffect
    <3> QED BY <2>1, <3>1 DEF VerifiedOnes, Sound, SourcePaths, ImagePaths
  <2>4. CASE UNCHANGED results /\ Sound(out, Item)
    BY <2>1, <2>2, <2>4 DEF VerifiedOnes, Sound, SourcePaths, ImagePaths
  <2> QED BY <1>7, <2>3, <2>4 DEF Verify, Finds, Sound
<1>8. CASE Show
  <2>1. UNCHANGED <<opts, results, out>> /\ pc # "verify" /\ exit # "killed"
    BY <1>8 DEF Show, TypeOK
  <2> QED BY <1>1, <2>1
<1>9. CASE Catch
  <2>1. Report("error") /\ "error" \in Statuses \ {"converted"} /\ idx <= Len(list)
        /\ UNCHANGED <<opts, out>> /\ pc = "caught" /\ exit # "killed"
    BY <1>9 DEF Catch, Statuses, TypeOK, AtAnItem
  <2> QED BY <1>2, <1>3, <2>1
<1>10. CASE QuietAction
  <2>1. UNCHANGED <<opts, results>> /\ (exit = "killed" => exit' = "killed")
    BY <1>10, QuietStep
       DEF QuietAction, SizeRaises, AnnounceItem, BeginBuild, EndBuild, Finish, Vanish,
           RequestCancel, Interrupt, vars, TypeOK, AtItem
  <2>2. pc = "verify" => pc' = "verify" \/ exit' = "killed"
    BY <1>10
       DEF QuietAction, SizeRaises, AnnounceItem, BeginBuild, EndBuild, Finish, Vanish,
           RequestCancel, Interrupt, vars, AtItem
  <2>3. results[k].item \in EntryIds /\ k \in 1..Len(results)
    <3>1. k \in 1..Len(results) /\ results \in Seq(Result)
      BY <2>1 DEF TypeOK
    <3>2. results[k] \in Result
      BY <3>1
    <3> QED BY <3>1, <3>2 DEF Result
  <2>4. out'[results[k].item] = out[results[k].item]
    <3>1. CASE EndBuild
      <4>1. results[k].item # Item
        BY <2>3, <3>1 DEF EndBuild, ResultsInOrder, ResultsOf, TypeOK, AtAnItem
      <4> QED BY <2>3, <3>1, <4>1 DEF EndBuild, TypeOK
    <3>2. CASE ~EndBuild
      BY <1>10, <3>2
         DEF QuietAction, SizeRaises, AnnounceItem, BeginBuild, Finish, Vanish,
             RequestCancel, Interrupt, vars
    <3> QED BY <3>1, <3>2
  <2> QED BY <2>1, <2>2, <2>3, <2>4 DEF VerifiedOnes, Sound, SourcePaths, ImagePaths
<1> QED
  BY <1>4, <1>5, <1>6, <1>7, <1>8, <1>9, <1>10 DEF Next, Command, QuietAction

-----------------------------------------------------------------------------
(* What a cancellation stops                                               *)

CancelInv == NotYetBuilt /\ CancelStopsBuilding

LEMMA InitCancel == Init => CancelInv
<1> SUFFICES ASSUME Init PROVE CancelInv
  OBVIOUS
<1> QED BY DEF Init, CancelInv, NotYetBuilt, CancelStopsBuilding, HasImage, Images

LEMMA NextCancel ==
  TypeOK /\ TypeOK' /\ CancelInv /\ [Next]_vars => CancelInv'
<1> SUFFICES ASSUME TypeOK, TypeOK', CancelInv, [Next]_vars PROVE CancelInv'
  OBVIOUS
<1> USE DEF Goto, Escape
<1>1. idx \in Nat /\ cancel \in Nat /\ Len(list) \in Nat
  BY DEF TypeOK
<1>2. CASE Discover
  <2>1. \A e \in EntryIds : out'[e] \notin Images
    BY <1>2 DEF Discover, TypeOK, HasImage
  <2>2. \A k \in 1..Len(list') : list'[k] \in EntryIds
    BY EntryIdsFinite, ElementOfSeq DEF TypeOK
  <2>3. idx' \in Nat /\ idx' >= 1 /\ cancel' \in Nat /\ Len(list') \in Nat
        /\ pc' \in {"item", "ended"}
    BY <1>2 DEF Discover, TypeOK
  <2>4. \A m \in Nat : \A k \in (m + 1)..Len(list') : k \in 1..Len(list')
    BY <2>3
  <2>5. \A m \in Nat : \A k \in (m + 1)..Len(list') : out'[list'[k]] \notin Images
    BY <2>1, <2>2, <2>4
  <2>6. idx' <= Len(list') => out'[Item'] \notin Images
    BY <2>1, <2>2, <2>3 DEF Item
  <2> QED BY <2>3, <2>5, <2>6 DEF CancelInv, NotYetBuilt, CancelStopsBuilding, HasImage
<1>3. CASE EndBuild
  <2>1. idx \in 1..Len(list) /\ Item \in EntryIds /\ UNCHANGED <<list, idx, cancel>>
        /\ pc = "building" /\ pc' \in {"built", "caught"}
    BY <1>3, ItemIsListed DEF EndBuild, TypeOK, AtAnItem
  <2>2. \A k \in (idx + 1)..Len(list) : out'[list[k]] = out[list[k]]
    <3> SUFFICES ASSUME NEW k \in (idx + 1)..Len(list)
                 PROVE  out'[list[k]] = out[list[k]]
      OBVIOUS
    <3>1. k \in 1..Len(list) /\ idx < k
      BY <1>1, <2>1
    <3>2. list[idx] < list[k]
      BY <2>1, <3>1 DEF TypeOK
    <3>3. list[idx] \in Nat /\ list[k] \in Nat
      BY <2>1, <3>1, ListedEntry, EntryIdsFinite
    <3>4. list[k] # Item
      BY <3>2, <3>3 DEF Item
    <3> QED BY <1>3, <3>1, <3>4, ListedEntry DEF EndBuild, TypeOK
  <2>3. cancel # 0 => cancel = idx
    BY <2>1 DEF CancelInv, NotYetBuilt
  <2> QED BY <2>1, <2>2, <2>3 DEF CancelInv, NotYetBuilt, CancelStopsBuilding, HasImage
<1>4. CASE (Show \/ Catch) /\ idx' = idx + 1
  <2>1. UNCHANGED <<list, out, cancel>> /\ pc' = "item"
    BY <1>4 DEF Show, Catch
  <2>2. idx + 1 <= Len(list) => ~HasImage(list[idx + 1])
    BY <1>1 DEF CancelInv, NotYetBuilt
  <2>3. \A k \in (idx + 1 + 1)..Len(list) : k \in (idx + 1)..Len(list)
    BY <1>1
  <2>4. \A k \in (idx + 1 + 1)..Len(list) : ~HasImage(list[k])
    BY <2>3 DEF CancelInv, NotYetBuilt
  <2> QED BY <1>4, <2>1, <2>2, <2>4
          DEF CancelInv, NotYetBuilt, CancelStopsBuilding, HasImage, Item
<1>5. CASE RequestCancel
  BY <1>5 DEF RequestCancel, CancelInv, NotYetBuilt, CancelStopsBuilding, HasImage, Item
<1>6. CASE BeginBuild
  BY <1>6 DEF BeginBuild, CancelInv, NotYetBuilt, CancelStopsBuilding, HasImage, Item,
              TypeOK, AtAnItem
<1>7. ASSUME UNCHANGED <<list, out, idx, cancel>>,
             \/ pc' = pc
             \/ pc' \notin {"item", "build", "building"}
             \/ pc = "item" /\ pc' = "build" /\ idx <= Len(list)
      PROVE  CancelInv'
  BY <1>7 DEF CancelInv, NotYetBuilt, CancelStopsBuilding, HasImage, Item
<1>8. CASE SkipOrPlan \/ SizeRaises \/ AnnounceItem \/ Converted \/ Verify
  <2>1. UNCHANGED <<list, out, idx, cancel>>
    BY <1>8 DEF SkipOrPlan, SizeRaises, AnnounceItem, Converted, Verify
  <2>2. \/ pc' \in {"show", "ended", "verify", "show_built"}
        \/ pc = "item" /\ pc' = "build" /\ idx <= Len(list)
    BY <1>8 DEF SkipOrPlan, SizeRaises, AnnounceItem, Converted, Verify, AtItem
  <2> QED BY <1>7, <2>1, <2>2
<1>9. CASE (Show \/ Catch) /\ idx' = idx
  <2>1. idx' # idx + 1
    BY <1>1, <1>9
  <2>2. UNCHANGED <<list, out, idx, cancel>> /\ pc' \in {"caught", "ended"}
    BY <1>9, <2>1 DEF Show, Catch
  <2> QED BY <1>7, <2>2
<1>10. CASE \/ Finish \/ \E e \in Packable : Vanish(e)
            \/ Interrupt \/ UNCHANGED vars
  <2>1. UNCHANGED <<list, out, idx, cancel>> /\ pc' \in {pc, "ended"}
    BY <1>10 DEF Finish, Vanish, Interrupt, vars
  <2> QED BY <1>7, <2>1
<1>11. Show \/ Catch => idx' \in {idx, idx + 1}
  BY DEF Show, Catch
<1> QED
  BY <1>2, <1>3, <1>4, <1>5, <1>6, <1>8, <1>9, <1>10, <1>11 DEF Next, Command

-----------------------------------------------------------------------------
(* What the runs check, for every directory                                *)

BatchInv ==
  TypeOK /\ ResultsInOrder /\ PassedRecorded /\ PassedHaveImages /\ VerifiedOnes
  /\ CancelInv

THEOREM BatchInvariant == Spec => []BatchInv
<1>1. Init => BatchInv
  <2>1. Init => PassedRecorded
    BY DEF Init, PassedRecorded
  <2> QED BY <2>1, InitTypes, InitResults, InitImages, InitVerified, InitCancel
          DEF BatchInv
<1>2. BatchInv /\ [Next]_vars => BatchInv'
  BY NextTypes, NextResults, NextRecorded, NextImages, NextVerified, NextCancel
     DEF BatchInv, CancelInv
<1> QED BY <1>1, <1>2, PTL DEF Spec

(* When the loop has passed an item, the summary has a result for it, in   *)
(* the order of the list, at most one and a following error; exit status 0 *)
(* means that every item has its image, checked if that was asked for.     *)
THEOREM EveryItemIsRecorded == Spec => []EveryItemRecorded
<1>1. BatchInv => EveryItemRecorded
  <2> SUFFICES ASSUME BatchInv PROVE EveryItemRecorded
    OBVIOUS
  <2>1. \A k \in 1..(idx - 1) : \E j \in 1..Len(results) :
          \/ ResultsOf(list[k]) = {j}
          \/ ResultsOf(list[k]) = {j, j + 1} /\ results[j + 1].status = "error"
    BY DEF BatchInv, PassedRecorded, Recorded
  <2>2. exit = "zero" /\ ~opts.dryRun =>
          \A k \in 1..Len(list) :
            \/ out[list[k]] = "own"
            \/ out[list[k]] = "damaged" /\ ~opts.verify
            \/ out[list[k]] = "earlier" /\ ~opts.overwrite
    BY DEF BatchInv, PassedHaveImages, Trusted
  <2> QED BY <2>1, <2>2 DEF BatchInv, ResultsInOrder, EveryItemRecorded
<1> QED BY <1>1, BatchInvariant, PTL

(* With --verify, a result that still says "converted" after its           *)
(* verification is one with an undamaged image that lists the same paths   *)
(* as the source.                                                          *)
THEOREM ConvertedIsVerified == Spec => []ConvertedMeansVerified
<1>1. BatchInv => ConvertedMeansVerified
  BY DEF BatchInv, VerifiedOnes, Sound, ConvertedMeansVerified
<1> QED BY <1>1, BatchInvariant, PTL

(* No item after the one at which the cancellation was requested gets an   *)
(* image.                                                                  *)
THEOREM CancelStops == Spec => []CancelStopsBuilding
<1>1. BatchInv => CancelStopsBuilding
  BY DEF BatchInv, CancelInv
<1> QED BY <1>1, BatchInvariant, PTL
=============================================================================
