----------------------------- MODULE AmprIndex -----------------------------
(***************************************************************************)
(* ensure_ampr_index: before a folder is packed, ampr_emu.index is written *)
(* into it: one row per file, found through an open-addressed hash table.  *)
(* The folder can change meanwhile.  A file's size stands for its size and *)
(* modification time.                                                      *)
(***************************************************************************)
EXTENDS Integers, Sequences, FiniteSets, SequencesExt, FiniteSetsExt, Builtins

CONSTANTS
  Files,     \* the files the folder may hold, numbered in walk order and by key
  Key,       \* ampr_key_for a file: files that differ in case share a key
  Links,     \* those of them that are symbolic links
  Ignored,   \* those with an is_ignored_name in their path
  Marker,    \* fakelib/libSceAmpr.sprx
  Options,   \* the options: [enabled, create, force, validate]
  Folders,   \* the folders to start with
  Earlier,   \* those of them an index may have been made for before
  Edits,     \* what a file may become: [file, size]
  HashValues \* fnv1a64_path_hash of the keys

Gone == -1

ASSUME FolderAssumption ==
  /\ Files \subseteq Nat
  /\ Key \in [Files -> Nat]
  /\ Links \subseteq Files
  /\ Ignored \subseteq Files
  /\ \A f, g \in Files : Key[f] = Key[g] => (f \in Ignored <=> g \in Ignored)
  /\ Marker \in Files \ (Links \cup Ignored)
  /\ Folders \subseteq [Files -> Nat \cup {Gone}]
  /\ Earlier \subseteq Folders
  /\ Edits \subseteq [file : Files, size : Nat \cup {Gone}]
  /\ HashValues \subseteq Nat \ {0}

VARIABLES
  folder,    \* size of every file, or Gone
  keyHash,   \* hash of every key (input)
  opts,      \* the options of this run (input)
  index,     \* ampr_emu.index: [rows, slots], NoIndex or Corrupt
  tmpLeft,   \* ampr_emu.index.tmp was left behind
  rows,      \* the walk of build_ampr_index: [file, size]
  slots,     \* the hash table it fills
  walked,    \* the files it has passed
  fresh,     \* the index was generated and nothing changed since the walk began
  edited,    \* the folder was changed
  pc

indexVars == <<folder, keyHash, opts, index, tmpLeft, rows, slots, walked, fresh, edited>>

NoIndex == [rows |-> <<>>, slots |-> <<>>, ok |-> FALSE, there |-> FALSE]
Corrupt == [NoIndex EXCEPT !.there = TRUE]

-----------------------------------------------------------------------------
(* The table                                                               *)

(* Doubled until there are two slots to a row; n turns always do.          *)
SlotCount(n) ==
  LET grown[turn \in 0..n] ==
        IF turn = 0 THEN 2
        ELSE IF grown[turn - 1] < 2 * n THEN 2 * grown[turn - 1] ELSE grown[turn - 1]
  IN  IF n = 0 THEN 0 ELSE grown[n]

Free == [hash |-> 0, row |-> 0, dup |-> FALSE]

(* Mutant: the slot the hash asks for is taken, whether it is free or not. *)
InsertedUnprobed(table, k, h) ==
  [table EXCEPT ![(h % Len(table)) + 1] = [hash |-> h, row |-> k, dup |-> FALSE]]

(* Row k goes to the first free slot from its hash on; the slots it passes *)
(* that hold the same hash are flagged.                                    *)
Inserted(table, k, h) ==
  LET Pos(d) == ((h + d) % Len(table)) + 1
      steps == CHOOSE d \in 0..(Len(table) - 1) :
                 /\ table[Pos(d)].row = 0
                 /\ \A e \in 0..(d - 1) : table[Pos(e)].row # 0
      passed == {Pos(d) : d \in 0..(steps - 1)}
  IN  [p \in 1..Len(table) |->
         IF p = Pos(steps) THEN [hash |-> h, row |-> k, dup |-> FALSE]
         ELSE [table[p] EXCEPT !.dup = @ \/ (p \in passed /\ table[p].hash = h)]]

HashOf(f) == keyHash[Key[f]]

EmptySlots(n) == [p \in 1..SlotCount(n) |-> Free]

Present == {f \in Files : folder[f] # Gone}
Kept(content) == {f \in Files \ Ignored : content[f] # Gone}

(* The index that a folder got at an earlier run.                          *)
IndexOf(content) ==
  LET named == {f \in Kept(content) : ~\E g \in Kept(content) : g < f /\ Key[g] = Key[f]}
      order == InOrder(named)
      table == [k \in 1..Len(order) |-> [file |-> order[k], size |-> content[order[k]]]]
  IN  [there |-> TRUE, ok |-> TRUE, rows |-> table,
       slots |-> FoldLeft(LAMBDA filled, k : Inserted(filled, k, HashOf(order[k])),
                          EmptySlots(Len(order)), [k \in 1..Len(order) |-> k])]

-----------------------------------------------------------------------------
IndexInit ==
  /\ folder \in Folders
  /\ keyHash \in [{Key[f] : f \in Files} -> HashValues]
  /\ opts \in Options
  /\ index \in {NoIndex, Corrupt} \cup {IndexOf(content) : content \in Earlier}
  /\ tmpLeft = FALSE
  /\ rows = <<>> /\ slots = <<>> /\ walked = {}
  /\ fresh = FALSE /\ edited = FALSE
  /\ pc = "ensure"

(* validate_ampr_index: a sound header, and as many rows as there are      *)
(* files, whatever they are.                                               *)
Valid ==
  /\ index.ok
  /\ index.rows # <<>>
  /\ Len(index.rows) = Cardinality({Key[f] : f \in Kept(folder)})

Wanted == opts.enabled /\ folder[Marker] # Gone
Keeps == opts.create /\ ~opts.force /\ index.there /\ (~opts.validate \/ Valid)

EnsureSkips ==
  /\ pc = "ensure"
  /\ ~Wanted \/ Keeps
  /\ pc' = "scan"
  /\ UNCHANGED indexVars

EnsureBuilds ==
  /\ pc = "ensure"
  /\ Wanted /\ ~Keeps
  /\ pc' = "index"
  /\ fresh' = TRUE
  /\ UNCHANGED <<folder, keyHash, opts, index, tmpLeft, rows, slots, walked, edited>>

(* The next file of the walk: gone, ignored, a case-insensitive double, or *)
(* a row.                                                                  *)
WalkFile ==
  /\ pc = "index"
  /\ walked # Files
  /\ LET f == CHOOSE f \in Files \ walked : \A g \in Files \ walked : f <= g
     IN  /\ walked' = walked \cup {f}
         /\ IF f \notin Kept(folder) \/ \E k \in 1..Len(rows) : Key[rows[k].file] = Key[f]
            THEN UNCHANGED rows
            ELSE rows' = Append(rows, [file |-> f, size |-> folder[f]])
  /\ UNCHANGED <<folder, keyHash, opts, index, tmpLeft, slots, fresh, edited, pc>>

(* Nothing to index, or build_ampr_hash_slots.                             *)
EndWalk ==
  /\ pc = "index"
  /\ walked = Files
  /\ IF rows = <<>> THEN pc' = "scan" /\ fresh' = FALSE ELSE pc' = "slots" /\ UNCHANGED fresh
  /\ slots' = EmptySlots(Len(rows))
  /\ UNCHANGED <<folder, keyHash, opts, index, tmpLeft, rows, walked, edited>>

Filled == Max({0} \cup {slots[p].row : p \in 1..Len(slots)})

FillSlot ==
  /\ pc = "slots"
  /\ Filled < Len(rows)
  /\ slots' = Inserted(slots, Filled + 1, HashOf(rows[Filled + 1].file))
  /\ UNCHANGED <<folder, keyHash, opts, index, tmpLeft, rows, walked, fresh, edited, pc>>

(* Written to .tmp and put in place; a failure is a warning that leaves    *)
(* the index as it was, and perhaps the .tmp.                              *)
WriteIndex ==
  /\ pc = "slots"
  /\ Filled = Len(rows)
  /\ \/ /\ index' = [there |-> TRUE, ok |-> TRUE, rows |-> rows, slots |-> slots]
        /\ UNCHANGED <<tmpLeft, fresh>>
     \/ tmpLeft' \in BOOLEAN /\ fresh' = FALSE /\ UNCHANGED index
  /\ pc' = "scan"
  /\ UNCHANGED <<folder, keyHash, opts, rows, slots, walked, edited>>

(* Somebody changes the folder.                                            *)
Edit(e) ==
  /\ folder[e.file] # e.size
  /\ folder' = [folder EXCEPT ![e.file] = e.size]
  /\ edited' = TRUE
  /\ fresh' = FALSE
  /\ UNCHANGED <<keyHash, opts, index, tmpLeft, rows, slots, walked, pc>>

Ensure == EnsureSkips \/ EnsureBuilds \/ WalkFile \/ EndWalk \/ FillSlot \/ WriteIndex

-----------------------------------------------------------------------------
(* What the console does: probe from the hash until a free slot; a slot of *)
(* the same hash on the way says that there are more.                      *)
Reached(k) ==
  LET h == HashOf(index.rows[k].file)
      Pos(d) == ((h + d) % Len(index.slots)) + 1
  IN  \E d \in 0..(Len(index.slots) - 1) :
        /\ index.slots[Pos(d)].row = k
        /\ index.slots[Pos(d)].hash = h
        /\ \A e \in 0..(d - 1) :
             /\ index.slots[Pos(e)].row # 0
             /\ index.slots[Pos(e)].hash = h => index.slots[Pos(e)].dup

(* A probe for a path that is not there ends at a free slot.               *)
ProbesEnd == \E p \in 1..Len(index.slots) : index.slots[p].row = 0
=============================================================================
