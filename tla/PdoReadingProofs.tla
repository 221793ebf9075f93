-------------------------- MODULE PdoReadingProofs --------------------------
(***************************************************************************)
(* A reading of PDO tables stays a position, for words of any size, and    *)
(* each upload brings it closer to its end unless it is Endless: Later is  *)
(* a lexicographic order on positions with bounded components.             *)
(***************************************************************************)
EXTENDS PdoReading, TLAPS

(* A loop that is not endless is inside its bounds.                        *)
InLoop(r) == r.next = "entry" /\ r.count # MaxCount => r.i \in 1..r.count

Position == {r \in Reading : InLoop(r)}

(* The direction, the table, the PDOs still to read, the loop variable.    *)
Later(q, r) ==
  \/ q.direction > r.direction
  \/ /\ q.direction = r.direction
     /\ r.table = "assignment" /\ q.table = "mapping"
  \/ /\ q.direction = r.direction /\ q.table = r.table
     /\ q.pdos < r.pdos
  \/ /\ q.direction = r.direction /\ q.table = r.table /\ q.pdos = r.pdos
     /\ r.next = "count" /\ q.next = "entry"
  \/ /\ q.direction = r.direction /\ q.table = r.table /\ q.pdos = r.pdos
     /\ r.next = "entry" /\ q.next = "entry" /\ q.count = r.count
     /\ r.i < q.i /\ q.i <= q.count

LEMMA WordFacts == MaxCount \in Nat \ {0} /\ 1 \in 0..MaxCount /\ Counts \subseteq 0..MaxCount
  BY CountsAssumption DEF MaxCount

LEMMA DirectionIsPosition == \A d \in 1..3 : Direction(d) \in Position
  BY WordFacts DEF Direction, Position, Reading, InLoop

LEMMA FirstReadIsPosition == FirstRead \in Position /\ ~Finished(FirstRead)
  BY DirectionIsPosition DEF FirstRead, Finished, Direction

(* A direction goes on with its next PDO, or the next direction begins.    *)
LEMMA NextPdoIsLater ==
  ASSUME NEW r \in Reading, ~Finished(r)
  PROVE  /\ NextPdo(r) \in Position
         /\ NextPdo(r).direction = r.direction + 1
            \/ /\ NextPdo(r).direction = r.direction /\ NextPdo(r).table = "mapping"
               /\ NextPdo(r).pdos < r.pdos
  <1>1. r.direction \in 1..2 /\ r.pdos \in 0..MaxCount /\ MaxCount \in Nat
    BY WordFacts DEF Reading, Finished
  <1>2. CASE r.pdos = 0
    <2>1. NextPdo(r) = Direction(r.direction + 1)
      BY <1>2 DEF NextPdo
    <2> QED
      BY <1>1, <2>1, DirectionIsPosition DEF Direction
  <1>3. CASE r.pdos # 0
    <2>1. NextPdo(r) = [direction |-> r.direction, table |-> "mapping", next |-> "count",
                        i |-> 0, count |-> 0, pdos |-> r.pdos - 1]
      BY <1>3 DEF NextPdo, Direction
    <2>2. r.pdos - 1 \in 0..MaxCount
      BY <1>1, <1>3
    <2> QED
      BY <1>1, <2>1, <2>2, WordFacts DEF Position, Reading, InLoop
  <1> QED
    BY <1>2, <1>3

(* A loop begins or goes on with its body, or the reading leaves it.       *)
Entered(p, r) ==
  /\ p.direction = r.direction /\ p.table = r.table /\ p.pdos = r.pdos
  /\ p.next = "entry" /\ p.i = r.i /\ p.count = r.count /\ r.i <= r.count

Passed(p, r) ==
  \/ p.direction = r.direction + 1
  \/ /\ p.direction = r.direction /\ p.table = "mapping"
     /\ r.table = "mapping" => p.pdos < r.pdos

LEMMA LoopHeadIsLater ==
  ASSUME NEW r \in Reading, ~Finished(r), r.i # 0 \/ r.count = MaxCount
  PROVE  /\ LoopHead(r) \in Position
         /\ Entered(LoopHead(r), r) \/ Passed(LoopHead(r), r)
  <1>1. r.i \in 0..MaxCount /\ r.count \in 0..MaxCount /\ MaxCount \in Nat
    BY WordFacts DEF Reading
  <1>2. CASE r.i <= r.count
    <2>1. PICK p : p = [r EXCEPT !.next = "entry"]
      OBVIOUS
    <2>2. p \in Reading
      BY <2>1 DEF Reading
    <2>3. Entered(p, r)
      BY <1>2, <2>1 DEF Reading, Entered
    <2>4. InLoop(p)
      BY <1>1, <1>2, <2>3 DEF InLoop, Entered
    <2>5. LoopHead(r) = p
      BY <1>2, <2>1 DEF LoopHead
    <2> QED
      BY <2>2, <2>3, <2>4, <2>5 DEF Position
  <1>3. CASE ~(r.i <= r.count)
    <2>1. PICK q : q = IF r.table = "assignment" THEN [r EXCEPT !.pdos = r.count] ELSE r
      OBVIOUS
    <2>2. q \in Reading /\ q.direction = r.direction /\ (r.table = "mapping" => q.pdos = r.pdos)
      BY <2>1 DEF Reading
    <2>3. ~Finished(q)
      BY <2>2 DEF Finished
    <2>4. LoopHead(r) = NextPdo(q)
      BY <1>3, <2>1 DEF LoopHead
    <2> QED
      BY <2>2, <2>3, <2>4, NextPdoIsLater DEF Passed
  <1> QED
    BY <1>2, <1>3

(* An upload of a reading that goes on leaves a position, and brings it    *)
(* closer to the end unless the loop has no end.                           *)
THEOREM UploadMovesOn ==
  ASSUME NEW r \in Position, ~Finished(r), NEW ok \in BOOLEAN, NEW count \in Counts
  PROVE  /\ AfterRead(r, ok, count) \in Position
         /\ Endless(r) \/ Later(AfterRead(r, ok, count), r)
  <1>1. /\ r \in Reading /\ InLoop(r) /\ r.direction \in 1..2
        /\ r.i \in 0..MaxCount /\ r.count \in 0..MaxCount /\ r.pdos \in 0..MaxCount
        /\ MaxCount \in Nat \ {0} /\ WordSize = MaxCount + 1
        /\ r.table \in {"assignment", "mapping"} /\ r.next \in {"count", "entry"}
    BY WordFacts, CountsAssumption DEF Position, Reading, Finished, MaxCount
  <1>2. CASE ~ok /\ r.table = "assignment"
    <2>1. AfterRead(r, ok, count) = Direction(r.direction + 1)
      BY <1>2 DEF AfterRead
    <2> QED
      BY <1>1, <2>1, DirectionIsPosition DEF Later, Direction
  <1>3. CASE ~ok /\ r.table = "mapping"
    <2>1. AfterRead(r, ok, count) = NextPdo(r)
      BY <1>3 DEF AfterRead
    <2> QED
      BY <1>1, <1>3, <2>1, NextPdoIsLater DEF Later
  <1>4. CASE ok /\ r.next = "count"
    <2>1. PICK q : q = [r EXCEPT !.i = 1, !.count = count]
      OBVIOUS
    <2>2. /\ q \in Reading
          /\ q.direction = r.direction /\ q.table = r.table /\ q.pdos = r.pdos /\ q.i = 1
      BY <1>1, <2>1, WordFacts DEF Reading
    <2>3. ~Finished(q)
      BY <2>2 DEF Finished
    <2>4. PICK p : p = LoopHead(q)
      OBVIOUS
    <2>5. p \in Position /\ (Entered(p, q) \/ Passed(p, q))
      BY <2>2, <2>3, <2>4, LoopHeadIsLater
    <2>6. Later(p, r)
      BY <1>1, <1>4, <2>2, <2>5 DEF Later, Entered, Passed
    <2>7. AfterRead(r, ok, count) = p
      BY <1>4, <2>1, <2>4 DEF AfterRead
    <2> QED
      BY <2>5, <2>6, <2>7
  <1>5. CASE ok /\ r.next = "entry"
    <2>1. PICK q : q = Advance(r)
      OBVIOUS
    <2>2. (r.i + 1) % WordSize \in 0..MaxCount
      BY <1>1
    <2>3. r.count # MaxCount => (r.i + 1) % WordSize = r.i + 1
      BY <1>1, <1>5 DEF InLoop
    <2>4. /\ q \in Reading
          /\ q.direction = r.direction /\ q.table = r.table /\ q.pdos = r.pdos
          /\ q.count = r.count /\ q.i = (r.i + 1) % WordSize
      BY <1>1, <2>1, <2>2 DEF Advance, Reading
    <2>5. ~Finished(q) /\ (q.i # 0 \/ q.count = MaxCount)
      BY <1>1, <2>3, <2>4 DEF Finished
    <2>6. PICK p : p = LoopHead(q)
      OBVIOUS
    <2>7. p \in Position /\ (Entered(p, q) \/ Passed(p, q))
      BY <2>4, <2>5, <2>6, LoopHeadIsLater
    <2>8. r.count # MaxCount => Later(p, r)
      <3>1. r.count # MaxCount => q.i = r.i + 1
        BY <2>3, <2>4
      <3> QED
        BY <1>1, <1>5, <2>4, <2>7, <3>1 DEF Later, Entered, Passed
    <2>9. AfterRead(r, ok, count) = p
      BY <1>5, <2>1, <2>6 DEF AfterRead
    <2> QED
      BY <1>5, <2>7, <2>8, <2>9 DEF Endless
  <1> QED
    BY <1>1, <1>2, <1>3, <1>4, <1>5
=============================================================================
