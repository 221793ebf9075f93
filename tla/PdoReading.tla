----------------------------- MODULE PdoReading -----------------------------
(***************************************************************************)
(* Reading the PDO mapping of one slave by SDO uploads: per direction a    *)
(* count of PDOs and that many assignments, then per PDO a count and that  *)
(* many mapping entries.  PdoMappingActivity and the DumpPdoMapping of     *)
(* MoEcatMaster both read in this order.  A reading is the position in it. *)
(*                                                                         *)
(* Counts and loop variables are uint8_t, here words with WordSize values: *)
(*     for (uint8_t i = 1; i <= count; ++i)                                *)
(* has no end when count is the largest value of its type.                 *)
(***************************************************************************)
EXTENDS Naturals

CONSTANTS
  WordSize, \* values of a count (256 in the code)
  Counts    \* the counts that slaves report

MaxCount == WordSize - 1

ASSUME CountsAssumption == WordSize \in Nat \ {0, 1} /\ Counts \subseteq 0..MaxCount

Reading == [direction : 1..3, table : {"assignment", "mapping"}, next : {"count", "entry"},
            i : 0..MaxCount, count : 0..MaxCount, pdos : 0..MaxCount]

Direction(d) == [direction |-> d, table |-> "assignment", next |-> "count",
                 i |-> 0, count |-> 0, pdos |-> 0]
FirstRead == Direction(1)
Finished(r) == r.direction = 3

(* Mutant: the PDO list is walked once too often.                          *)
NextPdoOneMore(r) ==
  IF r.pdos + 1 = 0 THEN Direction(r.direction + 1)
  ELSE [Direction(r.direction) EXCEPT !.table = "mapping", !.pdos = r.pdos - 1]

(* The PDO after this one, or the next direction when there is none left.  *)
NextPdo(r) ==
  IF r.pdos = 0 THEN Direction(r.direction + 1)
  ELSE [Direction(r.direction) EXCEPT !.table = "mapping", !.pdos = r.pdos - 1]

(* The head of the for loop.  An assignment loop that ends has collected   *)
(* count PDOs.                                                             *)
LoopHead(r) ==
  IF r.i <= r.count THEN [r EXCEPT !.next = "entry"]
  ELSE NextPdo(IF r.table = "assignment" THEN [r EXCEPT !.pdos = r.count] ELSE r)

Advance(r) == [r EXCEPT !.i = (@ + 1) % WordSize]

(* Mutant: an assignment that fails is read again from its count.          *)
AfterReadOver(r, ok, count) ==
  CASE ~ok /\ r.table = "assignment" -> Direction(r.direction)
    [] ~ok /\ r.table = "mapping" -> NextPdo(r)
    [] ok /\ r.next = "count" -> LoopHead([r EXCEPT !.i = 1, !.count = count])
    [] ok /\ r.next = "entry" -> LoopHead(Advance(r))

(* Where the reading stands after an upload; count is what a count upload  *)
(* that succeeds returns.  A failed assignment ends the direction, a       *)
(* failed mapping only its PDO.                                            *)
AfterRead(r, ok, count) ==
  CASE ~ok /\ r.table = "assignment" -> Direction(r.direction + 1)
    [] ~ok /\ r.table = "mapping" -> NextPdo(r)
    [] ok /\ r.next = "count" -> LoopHead([r EXCEPT !.i = 1, !.count = count])
    [] ok /\ r.next = "entry" -> LoopHead(Advance(r))

(* Only a slave that reports the largest count keeps a loop from ending.   *)
Endless(r) == r.next = "entry" /\ r.count = MaxCount
=============================================================================
