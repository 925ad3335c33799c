--------------------------- MODULE InventoryProofs ---------------------------
(***************************************************************************)
(* The stock for any number of handlers, items, quantities and crashes.     *)
(* NegativeWhereTurned needs no lock: a handler that is about to write saw  *)
(* enough of the row it tested, and writes the difference of what it saw,   *)
(* whatever the row holds by then; only what is brought in is not tested.   *)
(* TransfersCreateNothing: what a transfer has not put back is owed by the  *)
(* handler that took it out, or was lost with it.  BookedAlone: a lone      *)
(* handler writes what it saw, so the row moves by what is booked.  The     *)
(* last two are about sums over finite sets, of which the second section    *)
(* proves what they need.                                                   *)
(***************************************************************************)
EXTENDS MCStockKeeper, SequenceTheorems, FiniteSetTheorems, WellFoundedInduction, TLAPS

(* The job of h: a move that is being read or written is there; a negative  *)
(* quantity it brings in is on record; and what it saw of a row allows to   *)
(* write, below zero only where such a quantity has been.                   *)
JobOK(h) ==
    /\ work[h].moves # <<>> \/ work[h].pc \in {"idle", "done", "failed"}
    /\ Turned(work[h].moves) \subseteq turned
    /\ work[h].pc = "writing" =>
          /\ work[h].seen < 0 => HasTurned(Head(work[h].moves).key)
          /\ Head(work[h].moves).out => work[h].seen >= Head(work[h].moves).qty
          /\ work[h].row = 0 \/ work[h].row \in Rows(Head(work[h].moves).key)
JobsOK == \A h \in Handlers : JobOK(h)

JobType == [pc : {"idle", "reading", "writing", "done", "failed"},
            moves : Seq(Moves), row : Nat, seen : Int]
WorkType == work \in [Handlers -> JobType]

StockType == stock \in [Keys -> Seq(Int)]

IInv == StockType /\ WorkType /\ JobsOK /\ NegativeWhereTurned

(* What a move is made of.                                                  *)
LEMMA MoveType ==
    ASSUME NEW m \in Moves
    PROVE  /\ m.key \in Keys /\ m.out \in BOOLEAN /\ m.qty \in Int
           /\ m.ref \in Refs \cup {Unbooked}
           /\ Signed(m) \in Int /\ (m.qty = 0 => Signed(m) = 0)
<1>1. /\ m.key \in Keys /\ m.out \in BOOLEAN /\ m.qty \in Quantities
      /\ m.ref \in Refs \cup {Unbooked}
  BY DEF Moves
<1>2. m.qty \in Int
  BY <1>1, InventoryAssumption
<1>3. Signed(m) \in Int /\ (m.qty = 0 => Signed(m) = 0)
  BY <1>1, <1>2 DEF Signed
<1> QED
  BY <1>1, <1>2, <1>3

(* The rows of an item in a warehouse are numbered from one.                *)
LEMMA RowsAreInts ==
    ASSUME StockType, NEW k \in Keys
    PROVE  /\ stock[k] \in Seq(Int) /\ Len(stock[k]) \in Nat
           /\ Rows(k) = 1..Len(stock[k])
           /\ \A i \in Rows(k) : i \in Nat \ {0} /\ stock[k][i] \in Int
<1>1. stock[k] \in Seq(Int)
  BY DEF StockType
<1>2. Rows(k) = 1..Len(stock[k]) /\ Len(stock[k]) \in Nat
  BY <1>1, LenProperties DEF Rows
<1> QED
  BY <1>1, <1>2, ElementOfSeq

(* What is on record of a job is on record of what is left of it.           *)
LEMMA TurnedTail ==
    ASSUME NEW moves \in Seq(Moves), moves # <<>>
    PROVE  /\ Turned(Tail(moves)) \subseteq Turned(moves)
           /\ ~Head(moves).out /\ Head(moves).qty < 0 =>
                 <<Head(moves).key, Head(moves).ref = Transfers>> \in Turned(moves)
<1>1. Head(moves) = moves[1] /\ 1 \in DOMAIN moves
  OBVIOUS
<1>2. \A i \in DOMAIN Tail(moves) : i + 1 \in DOMAIN moves /\ Tail(moves)[i] = moves[i + 1]
  OBVIOUS
<1>3. Turned(Tail(moves)) \subseteq Turned(moves)
  <2> SUFFICES ASSUME NEW i \in DOMAIN Tail(moves),
                      ~Tail(moves)[i].out, Tail(moves)[i].qty < 0
               PROVE  <<Tail(moves)[i].key, Tail(moves)[i].ref = Transfers>> \in Turned(moves)
    BY Zenon DEF Turned
  <2>1. PICK j \in DOMAIN moves : Tail(moves)[i] = moves[j]
    BY <1>2
  <2>2. QED
    BY <2>1, Zenon DEF Turned
<1>4. ~Head(moves).out /\ Head(moves).qty < 0 =>
         <<Head(moves).key, Head(moves).ref = Transfers>> \in Turned(moves)
  BY <1>1, Zenon DEF Turned
<1> QED
  BY <1>3, <1>4

(* A job that is over, or not begun, has nothing on record.                 *)
LEMMA TurnedNothing == Turned(<<>>) = {}
  BY DEF Turned

(* A row that went below zero did so where a negative quantity came in.     *)
LEMMA TurnedStays ==
    ASSUME NEW k \in Keys, HasTurned(k), turned \subseteq turned'
    PROVE  HasTurned(k)'
  BY DEF HasTurned

(* Jobs of others are as they were, when the rows they read are still there.*)
LEMMA OthersJobs ==
    ASSUME IInv, NEW g \in Handlers, work'[g] = work[g], turned \subseteq turned',
           \A k \in Keys : Rows(k) \subseteq Rows(k)'
    PROVE  JobOK(g)'
<1>1. JobOK(g)
  BY DEF IInv, JobsOK
<1>2. work[g].pc = "writing" => Head(work[g].moves).key \in Keys
  <2> SUFFICES ASSUME work[g].pc = "writing" PROVE Head(work[g].moves).key \in Keys
    OBVIOUS
  <2>1. work[g].moves \in Seq(Moves) /\ work[g].moves # <<>>
    BY <1>1 DEF IInv, WorkType, JobType, JobOK
  <2>2. Head(work[g].moves) \in Moves
    BY <2>1, HeadTailProperties
  <2> QED
    BY <2>2 DEF Moves
<1>3. Turned(work[g].moves)' = Turned(work[g].moves)
  BY DEF Turned
<1>4. work[g].pc = "writing" => (HasTurned(Head(work[g].moves).key) => HasTurned(Head(work[g].moves).key)')
  BY <1>2, TurnedStays
<1>5. /\ work'[g].moves # <<>> \/ work'[g].pc \in {"idle", "done", "failed"}
      /\ Turned(work[g].moves)' \subseteq turned'
  BY <1>1, <1>3 DEF JobOK
<1>6. ASSUME work'[g].pc = "writing"
      PROVE  /\ work'[g].seen < 0 => HasTurned(Head(work[g].moves).key)'
             /\ Head(work'[g].moves).out => work'[g].seen >= Head(work'[g].moves).qty
             /\ work'[g].row = 0 \/ work'[g].row \in Rows(Head(work[g].moves).key)'
  BY <1>1, <1>2, <1>4, <1>6 DEF JobOK
<1> QED
  BY <1>5, <1>6 DEF JobOK

(* The opening stock satisfies it, and no job is under way.                 *)
LEMMA InitIInv == Init /\ turned = {} => IInv
<1> SUFFICES ASSUME Init, turned = {} PROVE IInv
  OBVIOUS
<1> USE InventoryAssumption
<1>1. StockType /\ NegativeWhereTurned
  <2>1. \A k \in Keys : /\ stock[k] = IF Opening[k] = 0 THEN <<>> ELSE <<Opening[k]>>
                        /\ Opening[k] \in Nat
    BY DEF Init
  <2>2. ASSUME NEW k \in Keys
        PROVE  stock[k] \in Seq(Int) /\ \A i \in DOMAIN stock[k] : stock[k][i] >= 0
    <3>1. CASE Opening[k] = 0
      <4>1. stock[k] = <<>>
        BY <2>1, <3>1
      <4> QED
        BY <4>1
    <3>2. CASE Opening[k] # 0
      <4>1. stock[k] = <<Opening[k]>> /\ Opening[k] \in Nat
        BY <2>1, <3>2
      <4> QED
        BY <4>1
    <3> QED
      BY <3>1, <3>2
  <2> QED
    BY <2>2 DEF Init, StockType, NegativeWhereTurned, Rows
<1>2. Free \in JobType
  BY EmptySeq DEF Free, Job, JobType
<1>3. WorkType
  BY <1>2 DEF Init, WorkType
<1>4. JobsOK
  BY TurnedNothing DEF Init, JobsOK, JobOK, Free, Job
<1> QED
  BY <1>1, <1>3, <1>4 DEF IInv

(* Nothing is written: the rows are what they were.                         *)
LEMMA RowsStay ==
    ASSUME IInv, UNCHANGED stock, turned \subseteq turned'
    PROVE  /\ StockType' /\ NegativeWhereTurned'
           /\ \A k \in Keys : Rows(k) \subseteq Rows(k)'
<1>1. \A k \in Keys : HasTurned(k) => HasTurned(k)'
  BY TurnedStays
<1>2. \A k \in Keys : Rows(k)' = Rows(k)
  BY DEF Rows
<1> QED
  BY <1>1, <1>2 DEF IInv, StockType, NegativeWhereTurned

(* One handler's job changes, and nothing is written.                       *)
LEMMA OneJob ==
    ASSUME IInv, NEW h \in Handlers, UNCHANGED stock, turned \subseteq turned',
           NEW job \in JobType, work' = [work EXCEPT ![h] = job], JobOK(h)'
    PROVE  IInv'
<1>1. WorkType'
  BY DEF IInv, WorkType
<1>2. \A g \in Handlers \ {h} : work'[g] = work[g]
  BY DEF IInv, WorkType
<1>3. StockType' /\ NegativeWhereTurned' /\ \A k \in Keys : Rows(k) \subseteq Rows(k)'
  BY RowsStay
<1>4. JobsOK'
  BY <1>2, <1>3, OthersJobs DEF JobsOK
<1> QED
  BY <1>1, <1>3, <1>4 DEF IInv

(* Taking up a job with at least one move (Begin), put on record.           *)
LEMMA BeginIInv ==
    ASSUME IInv, NEW h \in Handlers, NEW moves \in Seq(Moves), moves # <<>>,
           Begin(h, moves), turned' = turned \cup Turned(work'[h].moves)
    PROVE  IInv'
<1> DEFINE job == Job("reading", moves, 0, 0)
<1>1. work' = [work EXCEPT ![h] = job] /\ UNCHANGED stock
  BY DEF Begin
<1>2. job \in JobType /\ job.pc = "reading" /\ job.moves = moves
  BY DEF Job, JobType
<1>3. work'[h] = job
  BY <1>1 DEF IInv, WorkType
<1> HIDE DEF job
<1>4. JobOK(h)'
  <2>1. turned' = turned \cup Turned(moves)
    BY <1>2, <1>3
  <2>2. (Turned(work[h].moves) \subseteq turned)'
    BY <1>2, <1>3, <2>1 DEF Turned
  <2> QED
    BY <1>2, <1>3, <2>2 DEF JobOK
<1>5. turned \subseteq turned'
  OBVIOUS
<1> QED
  BY <1>1, <1>2, <1>4, <1>5, OneJob

(* Reading a row (Read): what suffices is remembered.                       *)
LEMMA ReadIInv ==
    ASSUME IInv, NEW h \in Handlers, Read(h), UNCHANGED turned
    PROVE  IInv'
<1> DEFINE s == work[h].moves
           m == Head(s)
<1>1. /\ work[h].pc = "reading" /\ UNCHANGED stock
      /\ \E i \in Found(m.key) :
           work' = [work EXCEPT ![h] =
                      IF /\ Suffices(m, IF i = 0 THEN 0 ELSE stock[m.key][i])
                         /\ RowIsThere(m, i)
                      THEN Job("writing", @.moves, i, IF i = 0 THEN 0 ELSE stock[m.key][i])
                      ELSE Job("failed", @.moves, 0, 0)]
  BY DEF Read, Is
<1>2. PICK i \in Found(m.key) :
        work' = [work EXCEPT ![h] =
                   IF /\ Suffices(m, IF i = 0 THEN 0 ELSE stock[m.key][i])
                      /\ RowIsThere(m, i)
                   THEN Job("writing", @.moves, i, IF i = 0 THEN 0 ELSE stock[m.key][i])
                   ELSE Job("failed", @.moves, 0, 0)]
  BY <1>1
<1> DEFINE seen == IF i = 0 THEN 0 ELSE stock[m.key][i]
           fits == Suffices(m, seen) /\ RowIsThere(m, i)
           job == IF fits THEN Job("writing", s, i, seen) ELSE Job("failed", s, 0, 0)
<1>3. work' = [work EXCEPT ![h] = job] /\ work'[h] = job
  BY <1>2 DEF IInv, WorkType
<1>4. /\ s \in Seq(Moves) /\ s # <<>> /\ m \in Moves /\ m.key \in Keys
      /\ Turned(s) \subseteq turned
  <2>1. s \in Seq(Moves) /\ s # <<>> /\ Turned(s) \subseteq turned
    BY <1>1 DEF IInv, WorkType, JobType, JobsOK, JobOK
  <2>2. m \in Moves
    BY <2>1, HeadTailProperties
  <2> QED
    BY <2>1, <2>2 DEF Moves
<1>5. seen \in Int /\ i \in Nat /\ (i = 0 \/ i \in Rows(m.key)) /\ (seen < 0 => HasTurned(m.key))
  <2>1. i = 0 \/ i \in Rows(m.key)
    BY DEF Found, Rows
  <2>2. \A j \in Rows(m.key) : j \in Nat \ {0} /\ stock[m.key][j] \in Int
    BY <1>4, RowsAreInts DEF IInv
  <2>3. \A j \in Rows(m.key) : stock[m.key][j] < 0 => HasTurned(m.key)
    BY <1>4 DEF IInv, NegativeWhereTurned
  <2> HIDE DEF m
  <2> QED
    BY <2>1, <2>2, <2>3
<1>6. fits => (m.out => seen >= m.qty)
  BY DEF Suffices
<1> HIDE DEF m, seen, fits
<1>7. job \in JobType
  BY <1>4, <1>5 DEF Job, JobType
<1>8. JobOK(h)'
  <2>1. work'[h].moves = s
    BY <1>3 DEF Job
  <2>2. (Turned(work[h].moves) \subseteq turned)'
    BY <1>4, <2>1 DEF Turned
  <2>3. \A k \in Keys : (HasTurned(k) => HasTurned(k)') /\ Rows(k)' = Rows(k)
    BY <1>1 DEF HasTurned, Rows
  <2>4. CASE fits
    <3>1. /\ work'[h].pc = "writing" /\ work'[h].row = i /\ work'[h].seen = seen
      BY <1>3, <2>4 DEF Job
    <3>2. PICK key \in Keys : key = m.key
      BY <1>4
    <3>3. work'[h].seen < 0 => HasTurned(key)'
      BY <1>5, <2>3, <3>1, <3>2
    <3>4. work'[h].row = 0 \/ work'[h].row \in Rows(key)'
      BY <1>5, <2>3, <3>1, <3>2
    <3>5. m.out => work'[h].seen >= m.qty
      BY <1>6, <2>4, <3>1
    <3>6. Head(work'[h].moves) = m
      BY <2>1 DEF m
    <3>7. Head(work'[h].moves).key = key
      BY <3>2, <3>6
    <3> HIDE DEF s
    <3> QED
      BY <1>4, <2>1, <2>2, <3>1, <3>3, <3>4, <3>5, <3>6, <3>7 DEF JobOK
  <2>5. CASE ~fits
    <3>1. work'[h].pc = "failed"
      BY <1>3, <2>5 DEF Job
    <3> QED
      BY <2>2, <3>1 DEF JobOK
  <2> QED
    BY <2>4, <2>5
<1>9. UNCHANGED stock /\ turned \subseteq turned'
  BY <1>1
<1> HIDE DEF job
<1> QED
  BY <1>3, <1>7, <1>8, <1>9, OneJob

(* What is stored: the rows that were there are there, each with its        *)
(* quantity but the one that is written.                                    *)
LEMMA StoredRows ==
    ASSUME NEW rows \in Seq(Int), NEW i \in Nat, i = 0 \/ i \in DOMAIN rows,
           NEW m, NEW new \in Int
    PROVE  /\ Stored(rows, i, m, new) \in Seq(Int)
           /\ DOMAIN rows \subseteq DOMAIN Stored(rows, i, m, new)
           /\ \A j \in DOMAIN Stored(rows, i, m, new) :
                 \/ Stored(rows, i, m, new)[j] = new
                 \/ j \in DOMAIN rows /\ Stored(rows, i, m, new)[j] = rows[j]
<1>1. CASE i = 0
  <2>1. Stored(rows, i, m, new) = Append(rows, new)
    BY <1>1 DEF Stored
  <2> QED
    BY <2>1
<1>2. CASE i # 0 /\ m.qty # 0
  <2>1. Stored(rows, i, m, new) = [rows EXCEPT ![i] = new]
    BY <1>2 DEF Stored
  <2> QED
    BY <1>2, <2>1
<1>3. CASE i # 0 /\ m.qty = 0
  <2>1. Stored(rows, i, m, new) = rows
    BY <1>3 DEF Stored
  <2> QED
    BY <2>1
<1> QED
  BY <1>1, <1>2, <1>3

(* Writing it (Write): the new quantity is negative only where a negative   *)
(* quantity has come in, and the rows that others have read are still there.*)
LEMMA WriteIInv ==
    ASSUME IInv, NEW h \in Handlers, Write(h), UNCHANGED turned
    PROVE  IInv'
<1> DEFINE m == Head(work[h].moves)
           rest == Tail(work[h].moves)
           new == NewQuantity(h, m)
           k == m.key
           row == work[h].row
           job == Job(IF rest = <<>> THEN "done" ELSE "reading", rest, 0, 0)
<1>1. /\ work[h].pc = "writing"
      /\ stock' = [stock EXCEPT ![k] = Stored(@, row, m, new)]
      /\ work' = [work EXCEPT ![h] = job]
  BY DEF Write, Is
<1>2. /\ work[h].moves \in Seq(Moves) /\ work[h].moves # <<>>
      /\ m \in Moves /\ rest \in Seq(Moves)
      /\ Turned(work[h].moves) \subseteq turned
      /\ row \in Nat /\ work[h].seen \in Int
  <2>1. /\ work[h].moves \in Seq(Moves) /\ work[h].moves # <<>>
        /\ Turned(work[h].moves) \subseteq turned
        /\ row \in Nat /\ work[h].seen \in Int
    BY <1>1 DEF IInv, WorkType, JobType, JobsOK, JobOK
  <2> QED
    BY <2>1, HeadTailProperties
<1>3. k \in Keys /\ m.out \in BOOLEAN /\ m.qty \in Int
  BY <1>2, MoveType
<1>4. /\ work[h].seen < 0 => HasTurned(k)
      /\ m.out => work[h].seen >= m.qty
      /\ row = 0 \/ row \in Rows(k)
  BY <1>1 DEF IInv, JobsOK, JobOK
<1>5. Turned(rest) \subseteq turned /\ (~m.out /\ m.qty < 0 => HasTurned(k))
  <2>1. /\ Turned(rest) \subseteq Turned(work[h].moves)
        /\ ~m.out /\ m.qty < 0 => <<k, m.ref = Transfers>> \in Turned(work[h].moves)
    BY <1>2, TurnedTail
  <2> QED
    BY <1>2, <2>1, Zenon DEF HasTurned
<1>6. new \in Int /\ (new < 0 => HasTurned(k))
  <2>1. new = work[h].seen + IF m.out THEN -m.qty ELSE m.qty
    BY DEF NewQuantity, Signed
  <2> HIDE DEF m, k, new
  <2>2. CASE m.out
    BY <1>2, <1>3, <1>4, <2>1, <2>2
  <2>3. CASE ~m.out
    BY <1>2, <1>3, <1>4, <1>5, <2>1, <2>3
  <2> QED
    BY <2>2, <2>3
<1>7. \A q \in Keys : stock[q] \in Seq(Int) /\ Rows(q) = DOMAIN stock[q]
  BY RowsAreInts DEF IInv, Rows
<1>8. \A q \in Keys : stock'[q] = IF q = k THEN Stored(stock[q], row, m, new) ELSE stock[q]
  <2> HIDE DEF k, row, new, m
  <2> QED
    BY <1>1, <1>3 DEF IInv, StockType
<1>9. ASSUME NEW q \in Keys
      PROVE  /\ stock'[q] \in Seq(Int) /\ DOMAIN stock[q] \subseteq DOMAIN (stock'[q])
             /\ \A j \in DOMAIN (stock'[q]) :
                   \/ q = k /\ stock'[q][j] = new
                   \/ j \in DOMAIN stock[q] /\ stock'[q][j] = stock[q][j]
  <2> HIDE DEF k, row, new, m
  <2>1. CASE q = k
    <3>1. row = 0 \/ row \in DOMAIN stock[k]
      BY <1>3, <1>4, <1>7
    <3>2. stock'[k] = Stored(stock[k], row, m, new)
      BY <1>3, <1>8
    <3> QED
      BY <1>2, <1>3, <1>6, <1>7, <2>1, <3>1, <3>2, StoredRows
  <2>2. CASE q # k
    BY <1>7, <1>8, <2>2
  <2> QED
    BY <2>1, <2>2
<1>10. StockType'
  <2> HIDE DEF k, row, new, m
  <2>1. stock' = [q \in Keys |-> stock'[q]]
    BY <1>1 DEF IInv, StockType
  <2> QED
    BY <1>9, <2>1 DEF StockType
<1>11. NegativeWhereTurned'
  <2> HIDE DEF k, row, new, m
  <2>1. ASSUME NEW q \in Keys, NEW j \in DOMAIN (stock'[q]), stock'[q][j] < 0
        PROVE  HasTurned(q)
    <3>1. CASE q = k /\ stock'[q][j] = new
      BY <1>6, <2>1, <3>1
    <3>2. CASE j \in DOMAIN stock[q] /\ stock'[q][j] = stock[q][j]
      BY <2>1, <3>2 DEF IInv, NegativeWhereTurned, Rows
    <3> QED
      BY <1>9, <3>1, <3>2
  <2>2. \A q \in Keys : HasTurned(q) => HasTurned(q)'
    BY DEF HasTurned
  <2> QED
    BY <2>1, <2>2 DEF NegativeWhereTurned, Rows
<1>12. job \in JobType /\ work'[h] = job
  <2> HIDE DEF rest
  <2> QED
    BY <1>1, <1>2 DEF Job, JobType, IInv, WorkType
<1>13. WorkType'
  <2> HIDE DEF job
  <2> QED
    BY <1>1, <1>12 DEF IInv, WorkType
<1>14. JobsOK'
  <2>1. ASSUME NEW g \in Handlers, g # h
        PROVE  JobOK(g)'
    <3>1. work'[g] = work[g]
      BY <1>1, <2>1 DEF IInv, WorkType
    <3>2. \A q \in Keys : Rows(q) \subseteq Rows(q)'
      BY <1>9 DEF Rows
    <3> QED
      BY <3>1, <3>2, OthersJobs
  <2>2. JobOK(h)'
    <3>1. work'[h].moves = rest /\ work'[h].pc # "writing"
          /\ (rest = <<>> => work'[h].pc = "done")
      BY <1>12 DEF Job
    <3>2. (Turned(work[h].moves) \subseteq turned)'
      BY <1>5, <3>1 DEF Turned
    <3> QED
      BY <3>1, <3>2 DEF JobOK
  <2> QED
    BY <2>1, <2>2 DEF JobsOK
<1> QED
  BY <1>10, <1>11, <1>13, <1>14 DEF IInv

(* The end of a job (Finish), done, failed or dead.                         *)
LEMMA FinishIInv ==
    ASSUME IInv, NEW h \in Handlers, Finish(h), UNCHANGED turned
    PROVE  IInv'
<1>1. work' = [work EXCEPT ![h] = Free] /\ UNCHANGED stock /\ turned \subseteq turned'
  BY DEF Finish
<1>2. Free \in JobType /\ Free.pc = "idle" /\ Free.moves = <<>>
  BY EmptySeq DEF Free, Job, JobType
<1>3. work'[h] = Free
  BY <1>1 DEF IInv, WorkType
<1>4. JobOK(h)'
  BY <1>2, <1>3, TurnedNothing DEF JobOK, Turned
<1> QED
  BY <1>1, <1>2, <1>4, OneJob

(* The jobs of the stock keeper (Ask) are lists of moves.                   *)
LEMMA AskIInv ==
    ASSUME IInv, NEW h \in Handlers, Ask(h)
    PROVE  IInv'
<1>0. turned' = turned \cup Turned(work'[h].moves)
  BY DEF Ask
<1>1. PICK k \in Keys, q \in Quantities :
        \/ StockIn(h, k, q) \/ StockOut(h, k, q)
        \/ Increase(h, k, q) \/ Decrease(h, k, q)
        \/ \E to \in Keys : Move(h, k, to, q)
  BY DEF Ask
<1>2. \A key \in Keys, ref \in {Manual, Transfers, Unbooked} :
        In(key, q, ref) \in Moves /\ Out(key, q, ref) \in Moves
  BY StockKeeperAssumption DEF In, Out, Moves
<1>3. \A move \in Moves : <<move>> \in Seq(Moves) /\ <<move>> # <<>>
  OBVIOUS
<1>4. CASE StockIn(h, k, q)
  <2>1. In(k, q, Manual) \in Moves /\ Begin(h, <<In(k, q, Manual)>>)
    BY <1>2, <1>4 DEF StockIn
  <2> QED
    BY <1>0, <1>3, <2>1, BeginIInv
<1>5. CASE StockOut(h, k, q)
  <2>1. Out(k, q, Manual) \in Moves /\ Begin(h, <<Out(k, q, Manual)>>)
    BY <1>2, <1>5 DEF StockOut
  <2> QED
    BY <1>0, <1>3, <2>1, BeginIInv
<1>6. CASE Increase(h, k, q) \/ Decrease(h, k, q)
  <2>1. PICK move \in {In(k, q, Unbooked), Out(k, q, Unbooked)} : Begin(h, <<move>>)
    BY <1>6 DEF Increase, Decrease
  <2>2. move \in Moves
    BY <1>2, <2>1
  <2> QED
    BY <1>0, <1>3, <2>1, <2>2, BeginIInv
<1>7. CASE \E to \in Keys : Move(h, k, to, q)
  <2>1. PICK to \in Keys : Move(h, k, to, q)
    BY <1>7
  <2> DEFINE moves == <<Out(k, q, Transfers), In(to, q, Transfers)>>
  <2>2. moves \in Seq(Moves) /\ moves # <<>>
    BY <1>2
  <2>3. Begin(h, moves)
    BY <2>1 DEF Move, Transfer
  <2> HIDE DEF moves
  <2> QED
    BY <1>0, <2>2, <2>3, BeginIInv
<1> QED
  BY <1>1, <1>4, <1>5, <1>6, <1>7

(* Every step keeps the invariant.                                          *)
LEMMA NextIInv ==
    ASSUME IInv, [Next]_keeperVars
    PROVE  IInv'
<1>1. CASE UNCHANGED keeperVars
  <2>1. UNCHANGED <<stock, work, turned>>
    BY <1>1 DEF keeperVars, vars
  <2>2. StockType' /\ NegativeWhereTurned' /\ \A k \in Keys : Rows(k) \subseteq Rows(k)'
    BY <2>1, RowsStay
  <2>3. WorkType' /\ JobsOK'
    BY <2>1, <2>2, OthersJobs DEF IInv, WorkType, JobsOK
  <2> QED
    BY <2>2, <2>3 DEF IInv
<1>2. CASE Next
  <2>1. PICK h \in Handlers : Ask(h) \/ Goes(h)
    BY <1>2 DEF Next
  <2> QED
    BY <2>1, AskIInv, ReadIInv, WriteIInv, FinishIInv DEF Goes
<1> QED
  BY <1>1, <1>2

(* For any number of concurrent handlers, items and warehouses, any amounts *)
(* and wherever processes die, a stock row is negative only where a         *)
(* negative quantity was brought in: the test of stock_out protects the row *)
(* it is about to write, though not the books.                              *)
THEOREM StockNegativeWhereTurned == Spec => []NegativeWhereTurned
<1>1. IInv /\ [Next]_keeperVars => IInv'
  BY NextIInv
<1>2. IInv => NegativeWhereTurned
  BY DEF IInv
<1> QED
  BY InitIInv, <1>1, <1>2, PTL DEF Spec
-----------------------------------------------------------------------------
(* Sums over finite sets.                                                   *)

(* Among sets of parts of a finite set there is one that includes no other: *)
(* what holds of a set when it holds of the smaller ones holds of all.      *)
LEMMA SmallestPart ==
    ASSUME NEW S, IsFiniteSet(S), NEW B \in SUBSET SUBSET S, B # {}
    PROVE  \E U \in B : \A V \in SUBSET U : V # U => V \notin B
  <1> DEFINE Sizes == {Cardinality(U) : U \in B}
             R == OpToRel(<, Nat)
  <1>1. \A U \in B : IsFiniteSet(U) /\ Cardinality(U) \in Nat
    BY FS_Subset, FS_CardinalityType
  <1>2. Sizes \subseteq Nat /\ Sizes # {}
    BY <1>1
  <1>3. PICK n \in Sizes : \A k \in Sizes : ~ (<<k, n>> \in R)
    <2>1. IsWellFoundedOn(R, Nat)
      BY NatLessThanWellFounded
    <2> HIDE DEF Sizes, R
    <2>2. QED
      BY <1>2, <2>1, WFMin
  <1>4. \A k \in Sizes : ~ (k < n)
    BY <1>2, <1>3 DEF OpToRel
  <1>5. PICK U \in B : n = Cardinality(U)
    OBVIOUS
  <1>6. ASSUME NEW V \in SUBSET U, V # U, V \in B
        PROVE  FALSE
    <2>1. Cardinality(V) <= n /\ Cardinality(V) # n /\ Cardinality(V) \in Nat
      BY <1>1, <1>5, <1>6, FS_Subset
    <2>2. Cardinality(V) < n /\ Cardinality(V) \in Sizes
      BY <1>2, <1>6, <2>1
    <2>3. QED
      BY <1>4, <2>2
  <1>7. QED
    BY <1>5, <1>6

(* Sums are folds of the community modules: a function of the subsets, which *)
(* takes out of each an element that it picks.                              *)
Pick(s) == CHOOSE x \in s : TRUE
Sums(f, S, g) ==
   g = [s \in SUBSET S |-> IF s = {} THEN 0 ELSE f[Pick(s)] + g[s \ {Pick(s)}]]
Iter(f, S) == CHOOSE g : Sums(f, S, g)

(* The sum is that function at the whole set.                               *)
LEMMA Unfold ==
    ASSUME NEW f, NEW S
    PROVE  SumFunctionOnSet(f, S) = Iter(f, S)[S]
  BY Zenon DEF SumFunctionOnSet, FoldFunctionOnSet, MapThenFoldSet, Iter, Sums, Pick

(* What is picked from a set is in it.                                      *)
LEMMA Picked ==
    ASSUME NEW s, s # {}
    PROVE  Pick(s) \in s
  BY Zenon DEF Pick

(* Two partial sums agree where both are defined.                           *)
LEMMA SumsAgree ==
    ASSUME NEW f, NEW T, NEW S \in SUBSET T, IsFiniteSet(S), NEW g, NEW h, Sums(f, S, g), Sums(f, T, h)
    PROVE  g[S] = h[S]
  <1> DEFINE B == {s \in SUBSET S : g[s] # h[s]}
  <1>0. /\ \A s \in SUBSET S : g[s] = IF s = {} THEN 0 ELSE f[Pick(s)] + g[s \ {Pick(s)}]
        /\ \A s \in SUBSET S : h[s] = IF s = {} THEN 0 ELSE f[Pick(s)] + h[s \ {Pick(s)}]
    <2>1. g = [s \in SUBSET S |-> IF s = {} THEN 0 ELSE f[Pick(s)] + g[s \ {Pick(s)}]]
      BY Zenon DEF Sums
    <2>2. h = [s \in SUBSET T |-> IF s = {} THEN 0 ELSE f[Pick(s)] + h[s \ {Pick(s)}]]
      BY Zenon DEF Sums
    <2>3. \A s \in SUBSET S : s \in SUBSET T
      OBVIOUS
    <2>4. \A s \in SUBSET S : g[s] = IF s = {} THEN 0 ELSE f[Pick(s)] + g[s \ {Pick(s)}]
      BY <2>1, Zenon
    <2>5. \A s \in SUBSET S : h[s] = IF s = {} THEN 0 ELSE f[Pick(s)] + h[s \ {Pick(s)}]
      BY <2>2, <2>3, Zenon
    <2>6. QED
      BY <2>4, <2>5
  <1>1. SUFFICES ASSUME B # {} PROVE FALSE
    OBVIOUS
  <1>2. PICK U \in B : \A V \in SUBSET U : V # U => V \notin B
    <2>1. B \in SUBSET SUBSET S
      OBVIOUS
    <2> HIDE DEF B
    <2>2. QED
      BY <1>1, <2>1, SmallestPart
  <1>3. CASE U = {}
    BY <1>0, <1>3
  <1>4. CASE U # {}
    <2>1. Pick(U) \in U
      BY <1>4, Picked
    <2>2. U \ {Pick(U)} \in SUBSET U /\ U \ {Pick(U)} # U /\ U \ {Pick(U)} \in SUBSET S
      BY <2>1
    <2>3. g[U \ {Pick(U)}] = h[U \ {Pick(U)}]
      BY <1>2, <2>2
    <2>4. QED
      BY <1>0, <1>4, <2>3
  <1>5. QED
    BY <1>3, <1>4

(* Every finite set has its partial sums.                                   *)
LEMMA SumsExist ==
    ASSUME NEW f, NEW S, IsFiniteSet(S)
    PROVE  Sums(f, S, Iter(f, S))
  <1> DEFINE B == {s \in SUBSET S : ~\E g : Sums(f, s, g)}
  <1>0. \A s : (\E g : Sums(f, s, g)) => Sums(f, s, Iter(f, s))
    BY Zenon DEF Iter
  <1>1. SUFFICES ASSUME B # {} PROVE FALSE
    <2>1. S \notin B => \E g : Sums(f, S, g)
      OBVIOUS
    <2>2. QED
      BY <1>0, <2>1
  <1>2. PICK U \in B : \A V \in SUBSET U : V # U => V \notin B
    <2>1. B \in SUBSET SUBSET S
      OBVIOUS
    <2> HIDE DEF B
    <2>2. QED
      BY <1>1, <2>1, SmallestPart
  <1>3. ASSUME NEW V \in SUBSET U, V # U
        PROVE  IsFiniteSet(V) /\ Sums(f, V, Iter(f, V))
    <2>1. V \in SUBSET S /\ V \notin B
      BY <1>2, <1>3
    <2>2. QED
      BY <1>0, <2>1, FS_Subset
  <1> DEFINE It(V) == Iter(f, V)[V]
             G == [s \in SUBSET U |-> IF s = {} THEN 0 ELSE f[Pick(s)] + It(s \ {Pick(s)})]
  <1>4. ASSUME NEW V \in SUBSET U, V # U
        PROVE  G[V] = It(V)
    <2>1. Iter(f, V) = [s \in SUBSET V |->
              IF s = {} THEN 0 ELSE f[Pick(s)] + Iter(f, V)[s \ {Pick(s)}]]
      BY <1>3, <1>4, Zenon DEF Sums
    <2>2. It(V) = IF V = {} THEN 0 ELSE f[Pick(V)] + Iter(f, V)[V \ {Pick(V)}]
      <3>1. V \in SUBSET V
        OBVIOUS
      <3>2. QED
        BY <2>1, <3>1, Zenon
    <2>3. V # {} => Iter(f, V)[V \ {Pick(V)}] = It(V \ {Pick(V)})
      <3> SUFFICES ASSUME V # {} PROVE Iter(f, V)[V \ {Pick(V)}] = It(V \ {Pick(V)})
        OBVIOUS
      <3>1. V \ {Pick(V)} \in SUBSET U /\ V \ {Pick(V)} # U /\ V \ {Pick(V)} \in SUBSET V
        BY <1>4, Picked
      <3>2. /\ Sums(f, V, Iter(f, V)) /\ IsFiniteSet(V \ {Pick(V)})
            /\ Sums(f, V \ {Pick(V)}, Iter(f, V \ {Pick(V)}))
        BY <1>3, <1>4, <3>1
      <3>3. QED
        BY <3>1, <3>2, SumsAgree
    <2>4. G[V] = IF V = {} THEN 0 ELSE f[Pick(V)] + It(V \ {Pick(V)})
      BY Zenon
    <2> HIDE DEF G, It
    <2>5. QED
      BY <2>2, <2>3, <2>4
  <1>5. \A s \in SUBSET U : s # {} => It(s \ {Pick(s)}) = G[s \ {Pick(s)}]
    <2> SUFFICES ASSUME NEW s \in SUBSET U, s # {} PROVE It(s \ {Pick(s)}) = G[s \ {Pick(s)}]
      OBVIOUS
    <2>1. s \ {Pick(s)} \in SUBSET U /\ s \ {Pick(s)} # U
      BY Picked
    <2> HIDE DEF G, It
    <2>2. QED
      BY <1>4, <2>1
  <1>6. Sums(f, U, G)
    <2>1. G = [s \in SUBSET U |-> IF s = {} THEN 0 ELSE f[Pick(s)] + It(s \ {Pick(s)})]
      OBVIOUS
    <2>2. G = [s \in SUBSET U |-> IF s = {} THEN 0 ELSE f[Pick(s)] + G[s \ {Pick(s)}]]
      <3> HIDE DEF G, It
      <3>1. QED
        BY <1>5, <2>1
    <2> HIDE DEF G
    <2>3. QED
      BY <2>2 DEF Sums
  <1>7. QED
    BY <1>2, <1>6

Sum(f, S) == SumFunctionOnSet(f, S)

(* A sum is that of an element and of the rest.                             *)
LEMMA SumPicked ==
    ASSUME NEW f, NEW S, IsFiniteSet(S)
    PROVE  /\ S = {} => Sum(f, S) = 0
           /\ S # {} => Sum(f, S) = f[Pick(S)] + Sum(f, S \ {Pick(S)})
  <1>1. Sum(f, S) = Iter(f, S)[S] /\ Sum(f, S \ {Pick(S)}) = Iter(f, S \ {Pick(S)})[S \ {Pick(S)}]
    BY Unfold DEF Sum
  <1>2. Sums(f, S, Iter(f, S)) /\ Sums(f, S \ {Pick(S)}, Iter(f, S \ {Pick(S)}))
        /\ IsFiniteSet(S \ {Pick(S)})
    BY SumsExist, FS_Subset
  <1>3. Iter(f, S) = [s \in SUBSET S |->
            IF s = {} THEN 0 ELSE f[Pick(s)] + Iter(f, S)[s \ {Pick(s)}]]
    BY <1>2, Zenon DEF Sums
  <1>4. Iter(f, S)[S] = IF S = {} THEN 0 ELSE f[Pick(S)] + Iter(f, S)[S \ {Pick(S)}]
    <2>1. S \in SUBSET S
      OBVIOUS
    <2>2. QED
      BY <1>3, <2>1, Zenon
  <1>5. Iter(f, S \ {Pick(S)})[S \ {Pick(S)}] = Iter(f, S)[S \ {Pick(S)}]
    BY <1>2, SumsAgree
  <1>6. QED
    BY <1>1, <1>4, <1>5

(* Whole numbers add up to a whole number, and so do none.                  *)
LEMMA SumType ==
    ASSUME NEW S, IsFiniteSet(S), NEW f, \A x \in S : f[x] \in Int
    PROVE  Sum(f, S) \in Int /\ Sum(f, {}) = 0
  <1> DEFINE B == {s \in SUBSET S : Sum(f, s) \notin Int}
  <1>1. \A s \in SUBSET S : IsFiniteSet(s)
    BY FS_Subset
  <1>2. SUFFICES ASSUME B # {} PROVE FALSE
    BY <1>1, SumPicked
  <1>3. PICK U \in B : \A V \in SUBSET U : V # U => V \notin B
    <2>1. B \in SUBSET SUBSET S
      OBVIOUS
    <2> HIDE DEF B
    <2>2. QED
      BY <1>2, <2>1, SmallestPart
  <1>4. U # {}
    BY <1>1, <1>3, SumPicked
  <1>5. Pick(U) \in U /\ Sum(f, U) = f[Pick(U)] + Sum(f, U \ {Pick(U)})
    BY <1>1, <1>4, SumPicked, Picked
  <1>6. U \ {Pick(U)} \in SUBSET U /\ U \ {Pick(U)} # U /\ U \ {Pick(U)} \in SUBSET S
    BY <1>5
  <1>7. Sum(f, U \ {Pick(U)}) \in Int
    BY <1>3, <1>6
  <1>8. QED
    BY <1>5, <1>7

(* The element may be any.                                                  *)
LEMMA SumRemove ==
    ASSUME NEW S, IsFiniteSet(S), NEW f, \A x \in S : f[x] \in Int, NEW y \in S
    PROVE  Sum(f, S) = f[y] + Sum(f, S \ {y})
  <1> DEFINE B == {s \in SUBSET S : \E x \in s : Sum(f, s) # f[x] + Sum(f, s \ {x})}
  <1>1. \A s \in SUBSET S : IsFiniteSet(s) /\ Sum(f, s) \in Int
    BY FS_Subset, SumType
  <1>2. SUFFICES ASSUME B # {} PROVE FALSE
    OBVIOUS
  <1>3. PICK U \in B : \A V \in SUBSET U : V # U => V \notin B
    <2>1. B \in SUBSET SUBSET S
      OBVIOUS
    <2> HIDE DEF B
    <2>2. QED
      BY <1>2, <2>1, SmallestPart
  <1>4. PICK x \in U : Sum(f, U) # f[x] + Sum(f, U \ {x})
    OBVIOUS
  <1> DEFINE p == Pick(U)
  <1>5. p \in U /\ Sum(f, U) = f[p] + Sum(f, U \ {p})
    BY <1>1, <1>4, SumPicked, Picked
  <1>6. p # x
    BY <1>4, <1>5
  <1> HIDE DEF p
  <1>7. Sum(f, U \ {p}) = f[x] + Sum(f, (U \ {p}) \ {x})
    <2>1. U \ {p} \in SUBSET U /\ U \ {p} # U /\ U \ {p} \in SUBSET S /\ x \in U \ {p}
      BY <1>5, <1>6
    <2>2. QED
      BY <1>3, <2>1
  <1>8. Sum(f, U \ {x}) = f[p] + Sum(f, (U \ {x}) \ {p})
    <2>1. U \ {x} \in SUBSET U /\ U \ {x} # U /\ U \ {x} \in SUBSET S /\ p \in U \ {x}
      BY <1>4, <1>5, <1>6
    <2>2. QED
      BY <1>3, <2>1
  <1>9. (U \ {p}) \ {x} = (U \ {x}) \ {p}
    OBVIOUS
  <1>10. f[x] \in Int /\ f[p] \in Int /\ Sum(f, (U \ {p}) \ {x}) \in Int
    <2>1. (U \ {p}) \ {x} \in SUBSET S /\ p \in S /\ x \in S
      BY <1>5
    <2>2. QED
      BY <1>1, <2>1
  <1>11. Sum(f, (U \ {p}) \ {x}) = Sum(f, (U \ {x}) \ {p})
    BY <1>9, Zenon
  <1> HIDE DEF B
  <1>12. Sum(f, U) = f[x] + Sum(f, U \ {x})
    BY <1>5, <1>7, <1>8, <1>10, <1>11
  <1>13. QED
    BY <1>4, <1>12

(* What is added up is all that counts.                                     *)
LEMMA SumSame ==
    ASSUME NEW S, IsFiniteSet(S), NEW f, NEW g, \A x \in S : f[x] = g[x]
    PROVE  Sum(f, S) = Sum(g, S)
  <1> DEFINE B == {s \in SUBSET S : Sum(f, s) # Sum(g, s)}
  <1>1. \A s \in SUBSET S : IsFiniteSet(s)
    BY FS_Subset
  <1>2. SUFFICES ASSUME B # {} PROVE FALSE
    OBVIOUS
  <1>3. PICK U \in B : \A V \in SUBSET U : V # U => V \notin B
    <2>1. B \in SUBSET SUBSET S
      OBVIOUS
    <2> HIDE DEF B
    <2>2. QED
      BY <1>2, <2>1, SmallestPart
  <1>4. CASE U = {}
    BY <1>1, <1>3, <1>4, SumPicked
  <1>5. CASE U # {}
    <2>1. /\ Sum(f, U) = f[Pick(U)] + Sum(f, U \ {Pick(U)})
          /\ Sum(g, U) = g[Pick(U)] + Sum(g, U \ {Pick(U)})
          /\ Pick(U) \in U
      BY <1>1, <1>5, SumPicked, Picked
    <2>2. U \ {Pick(U)} \in SUBSET U /\ U \ {Pick(U)} # U /\ U \ {Pick(U)} \in SUBSET S
      BY <2>1
    <2>3. Sum(f, U \ {Pick(U)}) = Sum(g, U \ {Pick(U)})
      BY <1>3, <2>2
    <2>4. f[Pick(U)] = g[Pick(U)]
      BY <2>1
    <2>5. Sum(f, U) = Sum(g, U)
      BY <2>1, <2>3, <2>4, Zenon
    <2>6. QED
      BY <2>5
  <1>6. QED
    BY <1>4, <1>5

(* A sum follows the one value that changes.                                *)
LEMMA SumUpdate ==
    ASSUME NEW S, IsFiniteSet(S), NEW y \in S, NEW f, NEW g,
           \A x \in S : f[x] \in Int /\ g[x] \in Int,
           \A x \in S : x # y => g[x] = f[x]
    PROVE  Sum(g, S) = Sum(f, S) + g[y] - f[y]
  <1>1. Sum(f, S) = f[y] + Sum(f, S \ {y}) /\ Sum(g, S) = g[y] + Sum(g, S \ {y})
    BY SumRemove
  <1>2. IsFiniteSet(S \ {y})
    BY FS_Subset
  <1>3. Sum(f, S \ {y}) = Sum(g, S \ {y})
    BY <1>2, SumSame
  <1>4. Sum(f, S \ {y}) \in Int
    BY <1>2, SumType
  <1>5. QED
    BY <1>1, <1>3, <1>4

(* Nothing below zero adds up to nothing below zero.                        *)
LEMMA SumNat ==
    ASSUME NEW S, IsFiniteSet(S), NEW f, \A x \in S : f[x] \in Nat
    PROVE  Sum(f, S) >= 0
  <1> DEFINE B == {s \in SUBSET S : ~(Sum(f, s) >= 0)}
  <1>1. \A s \in SUBSET S : IsFiniteSet(s) /\ Sum(f, s) \in Int
    BY FS_Subset, SumType
  <1>2. SUFFICES ASSUME B # {} PROVE FALSE
    OBVIOUS
  <1>3. PICK U \in B : \A V \in SUBSET U : V # U => V \notin B
    <2>1. B \in SUBSET SUBSET S
      OBVIOUS
    <2> HIDE DEF B
    <2>2. QED
      BY <1>2, <2>1, SmallestPart
  <1>4. U # {}
    <2>1. Sum(f, {}) = 0
      BY SumType
    <2>2. ~(Sum(f, U) >= 0)
      BY <1>3
    <2>3. QED
      BY <2>1, <2>2
  <1>5. Pick(U) \in U /\ Sum(f, U) = f[Pick(U)] + Sum(f, U \ {Pick(U)})
    BY <1>1, <1>4, SumPicked, Picked
  <1>6. U \ {Pick(U)} \in SUBSET U /\ U \ {Pick(U)} # U /\ U \ {Pick(U)} \in SUBSET S
    BY <1>5
  <1>7. Sum(f, U \ {Pick(U)}) >= 0 /\ Sum(f, U \ {Pick(U)}) \in Int /\ f[Pick(U)] \in Nat
    BY <1>1, <1>3, <1>5, <1>6
  <1>8. Sum(f, U) >= 0
    BY <1>5, <1>7
  <1>9. QED
    BY <1>3, <1>8

(* Zeros sum to zero.                                                       *)
LEMMA SumZero ==
    ASSUME NEW S, IsFiniteSet(S), NEW f, \A x \in S : f[x] = 0
    PROVE  Sum(f, S) = 0
  <1> DEFINE B == {s \in SUBSET S : Sum(f, s) # 0}
  <1>1. \A s \in SUBSET S : IsFiniteSet(s) /\ Sum(f, s) \in Int
    BY FS_Subset, SumType
  <1>2. SUFFICES ASSUME B # {} PROVE FALSE
    OBVIOUS
  <1>3. PICK b \in B : \A t \in B : t \subseteq b => t = b
    <2> HIDE DEF B
    <2>1. B \subseteq SUBSET S
      BY DEF B
    <2>2. QED
      BY <1>2, <2>1, SmallestPart
  <1>4. b \subseteq S /\ IsFiniteSet(b) /\ b # {}
    BY <1>1, <1>3, SumType
  <1>5. PICK x \in b : TRUE
    BY <1>4
  <1>6. Sum(f, b) = f[x] + Sum(f, b \ {x})
    <2>1. \A y \in b : f[y] \in Int
      BY <1>4
    <2>2. QED
      BY <1>4, <1>5, <2>1, SumRemove
  <1>7. b \ {x} \notin B /\ b \ {x} \in SUBSET S
    BY <1>3, <1>4, <1>5
  <1>8. QED
    BY <1>1, <1>3, <1>4, <1>5, <1>6, <1>7

(* An empty row of shelves holds nothing, a single one what is on it.       *)
LEMMA SumOfFew ==
    /\ SumFunction(<<>>) = 0
    /\ \A n \in Int : SumFunction(<<n>>) = n
  <1>1. SumFunction(<<>>) = 0
    <2>1. DOMAIN <<>> = {} /\ IsFiniteSet({})
      BY FS_EmptySet
    <2>2. Sum(<<>>, {}) = 0
      BY <2>1, SumPicked
    <2>3. QED
      BY <2>1, <2>2, Zenon DEF SumFunction, Sum
  <1>2. ASSUME NEW n \in Int
        PROVE  SumFunction(<<n>>) = n
    <2> DEFINE f == <<n>>
    <2>1. DOMAIN f = {1} /\ f[1] = n /\ IsFiniteSet({1})
      BY FS_Singleton
    <2> HIDE DEF f
    <2>2. Sum(f, {1}) = f[1] + Sum(f, {1} \ {1})
      BY <2>1, SumRemove
    <2>3. {1} \ {1} = {}
      OBVIOUS
    <2>4. Sum(f, {}) = 0
      BY <2>1, SumType
    <2>5. Sum(f, {1}) = n
      BY <2>1, <2>2, <2>3, <2>4
    <2>6. SumFunction(f) = n
      BY <2>1, <2>5, Zenon DEF SumFunction, Sum
    <2>7. QED
      BY <2>6 DEF f
  <1>3. QED
    BY <1>1, <1>2

-----------------------------------------------------------------------------
(* Transfers.                                                               *)

(* What a handler is about to do: moves that are no transfer's, a transfer, *)
(* or the second half of one.                                               *)
Singles == {<<m>> : m \in {n \in Moves : n.ref # Transfers}}
Pairs   == {<<Out(k, q, Transfers), In(to, q, Transfers)>> : k \in Keys, to \in Keys, q \in Quantities}
Rests   == {<<In(to, q, Transfers)>> : to \in Keys, q \in Quantities}

Acting(h) == work[h].pc \in {"reading", "writing"}
JobShape == \A h \in Handlers : Acting(h) => work[h].moves \in Singles \cup Pairs \cup Rests

(* What a handler has taken out and is still to bring in.                   *)
Owed(h) == IF Acting(h) /\ work[h].moves \in Rests THEN Head(work[h].moves).qty ELSE 0
AllOwed == Sum([h \in Handlers |-> Owed(h)], Handlers)

LedgerType == ledger \in [Refs -> [Keys -> Int]]
Transferred == Sum(ledger[Transfers], Keys)

(* No transfer of a negative quantity was asked for.                        *)
NoneTurned == \A k \in Keys : <<k, TRUE>> \notin turned

(* What is neither back nor owed was lost on the way.                       *)
TransferInv ==
    /\ IInv /\ LedgerType /\ JobShape
    /\ NoneTurned => Transferred + AllOwed <= 0

(* A job of one kind is of no other.                                        *)
LEMMA ShapesApart ==
    /\ \A s \in Singles : s \notin Rests /\ Tail(s) = <<>> /\ Head(s) \in Moves /\ Head(s).ref # Transfers
    /\ \A s \in Pairs : /\ s \notin Rests /\ Tail(s) \in Rests
                        /\ Head(s).ref = Transfers /\ Head(s).out /\ Head(s).key \in Keys
                        /\ Head(Tail(s)).qty = Head(s).qty /\ Head(s).qty \in Int
    /\ \A s \in Rests : /\ Tail(s) = <<>> /\ Head(s).ref = Transfers /\ ~Head(s).out
                        /\ Head(s).key \in Keys /\ Head(s).qty \in Int
                        /\ s # <<>> /\ s = <<Head(s)>>
  <1>1. ASSUME NEW m \in Moves, m.ref # Transfers
        PROVE  <<m>> \notin Rests /\ Tail(<<m>>) = <<>> /\ Head(<<m>>) = m
    <2>1. ASSUME NEW to \in Keys, NEW q \in Quantities
          PROVE  <<m>> # <<In(to, q, Transfers)>>
      BY <1>1 DEF In
    <2>2. QED
      BY <2>1 DEF Rests
  <1>2. ASSUME NEW k \in Keys, NEW to \in Keys, NEW q \in Quantities
        PROVE  LET s == <<Out(k, q, Transfers), In(to, q, Transfers)>> IN
               /\ s \notin Rests /\ Tail(s) = <<In(to, q, Transfers)>>
               /\ Head(s) = Out(k, q, Transfers)
    <2> DEFINE s == <<Out(k, q, Transfers), In(to, q, Transfers)>>
    <2>1. Tail(s) = <<In(to, q, Transfers)>> /\ Head(s) = Out(k, q, Transfers) /\ Len(s) = 2
      OBVIOUS
    <2>2. \A r \in Rests : Len(r) = 1
      BY DEF Rests
    <2>3. QED
      BY <2>1, <2>2
  <1>3. ASSUME NEW to \in Keys, NEW q \in Quantities
        PROVE  LET s == <<In(to, q, Transfers)>> IN
               Tail(s) = <<>> /\ Head(s) = In(to, q, Transfers) /\ s \in Rests
    BY DEF Rests
  <1>4. \A q \in Quantities : q \in Int
    BY InventoryAssumption
  <1>5. \A k \in Keys, q \in Quantities :
          /\ Out(k, q, Transfers).ref = Transfers /\ Out(k, q, Transfers).out
          /\ Out(k, q, Transfers).key = k /\ Out(k, q, Transfers).qty = q
          /\ In(k, q, Transfers).ref = Transfers /\ ~In(k, q, Transfers).out
          /\ In(k, q, Transfers).key = k /\ In(k, q, Transfers).qty = q
    BY DEF In, Out
  <1>6. \A s \in Singles : s \notin Rests /\ Tail(s) = <<>> /\ Head(s) \in Moves /\ Head(s).ref # Transfers
    BY <1>1 DEF Singles
  <1>7. ASSUME NEW s \in Pairs
        PROVE  /\ s \notin Rests /\ Tail(s) \in Rests
               /\ Head(s).ref = Transfers /\ Head(s).out /\ Head(s).key \in Keys
               /\ Head(Tail(s)).qty = Head(s).qty /\ Head(s).qty \in Int
    <2>1. PICK k \in Keys, to \in Keys, q \in Quantities :
            s = <<Out(k, q, Transfers), In(to, q, Transfers)>>
      BY DEF Pairs
    <2>2. s \notin Rests /\ Tail(s) = <<In(to, q, Transfers)>> /\ Head(s) = Out(k, q, Transfers)
      BY <1>2, <2>1
    <2>3. Tail(s) \in Rests /\ Head(Tail(s)) = In(to, q, Transfers)
      BY <1>3, <2>2
    <2>4. QED
      BY <1>4, <1>5, <2>2, <2>3
  <1>8. ASSUME NEW s \in Rests
        PROVE  /\ Tail(s) = <<>> /\ Head(s).ref = Transfers /\ ~Head(s).out
               /\ Head(s).key \in Keys /\ Head(s).qty \in Int
               /\ s # <<>> /\ s = <<Head(s)>>
    <2>1. PICK to \in Keys, q \in Quantities : s = <<In(to, q, Transfers)>>
      BY DEF Rests
    <2>2. Tail(s) = <<>> /\ Head(s) = In(to, q, Transfers)
      BY <1>3, <2>1
    <2>3. s # <<>> /\ s = <<Head(s)>>
      BY <2>1, <2>2
    <2>4. QED
      BY <1>4, <1>5, <2>2, <2>3
  <1>9. QED
    BY <1>6, <1>7, <1>8

(* What a handler owes is a number, and so is what all owe.                 *)
LEMMA OwedType ==
    /\ \A h \in Handlers : Owed(h) \in Int
    /\ AllOwed \in Int
  <1>1. \A h \in Handlers : Owed(h) \in Int
    BY ShapesApart DEF Owed
  <1> DEFINE f == [h \in Handlers |-> Owed(h)]
  <1>2. \A h \in Handlers : f[h] \in Int
    BY <1>1
  <1> HIDE DEF f
  <1>3. Sum(f, Handlers) \in Int
    BY <1>2, SumType, InventoryAssumption
  <1>4. QED
    BY <1>1, <1>3 DEF AllOwed, f

(* It is not below nothing as long as no transfer was of a negative         *)
(* quantity.                                                                *)
LEMMA OwedNat ==
    ASSUME IInv, NoneTurned
    PROVE  (\A h \in Handlers : Owed(h) >= 0) /\ AllOwed >= 0
  <1>1. ASSUME NEW h \in Handlers
        PROVE  Owed(h) >= 0
    <2> DEFINE s == work[h].moves
    <2>1. CASE s \in Rests
      <3>1. Turned(s) \subseteq turned
        BY DEF IInv, JobsOK, JobOK
      <3>2. /\ Head(s).ref = Transfers /\ ~Head(s).out /\ Head(s).key \in Keys
            /\ Head(s).qty \in Int /\ s = <<Head(s)>>
        BY <2>1, ShapesApart
      <3> DEFINE m == Head(s)
      <3>3. m.qty < 0 => <<m.key, m.ref = Transfers>> \in Turned(<<m>>)
        <4>1. 1 \in DOMAIN <<m>> /\ <<m>>[1] = m
          OBVIOUS
        <4> HIDE DEF m
        <4>2. QED
          BY <3>2, <4>1, Zenon DEF Turned, m
      <3>4. ~(m.qty < 0)
        <4>1. (m.ref = Transfers) = TRUE /\ <<m>> = s
          BY <3>2
        <4> HIDE DEF m, s
        <4>2. <<m.key, m.ref = Transfers>> = <<m.key, TRUE>>
          BY <4>1
        <4>3. QED
          BY <3>1, <3>2, <3>3, <4>1, <4>2 DEF NoneTurned, m
      <3>5. QED
        BY <3>2, <3>4 DEF Owed
    <2>2. CASE s \notin Rests
      BY <2>2 DEF Owed
    <2>3. QED
      BY <2>1, <2>2
  <1> DEFINE f == [h \in Handlers |-> Owed(h)]
  <1>2. \A h \in Handlers : f[h] \in Nat
    BY <1>1, OwedType
  <1> HIDE DEF f
  <1>3. Sum(f, Handlers) >= 0
    BY <1>2, SumNat, InventoryAssumption
  <1>4. QED
    BY <1>1, <1>3 DEF AllOwed, f

(* All that is owed changes by what one handler owes more.                  *)
LEMMA OwedMoves ==
    ASSUME NEW h \in Handlers, \A g \in Handlers : g # h => work'[g] = work[g]
    PROVE  AllOwed' = AllOwed + Owed(h)' - Owed(h)
  <1> DEFINE f == [g \in Handlers |-> Owed(g)]
             e == [g \in Handlers |-> Owed(g)']
  <1>1. \A g \in Handlers : Owed(g) \in Int /\ Owed(g)' \in Int
    <2>1. \A s \in Rests : Head(s).qty \in Int
      BY ShapesApart
    <2>2. QED
      BY <2>1 DEF Owed
  <1>2. \A g \in Handlers : g # h => Owed(g)' = Owed(g)
    BY DEF Owed, Acting
  <1>3. \A g \in Handlers : f[g] \in Int /\ e[g] \in Int /\ (g # h => e[g] = f[g])
    BY <1>1, <1>2
  <1>4. f[h] = Owed(h) /\ e[h] = Owed(h)'
    OBVIOUS
  <1>5. AllOwed = Sum(f, Handlers) /\ AllOwed' = Sum(e, Handlers)
    BY DEF AllOwed, Sum
  <1> HIDE DEF f, e
  <1>6. Sum(e, Handlers) = Sum(f, Handlers) + e[h] - f[h]
    BY <1>3, SumUpdate, InventoryAssumption
  <1>7. QED
    BY <1>4, <1>5, <1>6

(* A booking changes one entry of the ledger.                               *)
LEMMA BookingFacts ==
    ASSUME LedgerType, NEW m \in Moves, ledger' = Booked(m)
    PROVE  /\ LedgerType'
           /\ m.ref # Transfers => Transferred' = Transferred
           /\ m.ref = Transfers => Transferred' = Transferred + Signed(m)
  <1>1. m.key \in Keys /\ m.qty \in Int /\ m.ref \in Refs \cup {Unbooked} /\ Transfers \in Refs
        /\ Signed(m) \in Int
    BY MoveType, StockKeeperAssumption
  <1>2. CASE m.ref = Unbooked
    <2>1. ledger' = ledger /\ m.ref # Transfers
      BY <1>2 DEF Booked, Unbooked, Transfers
    <2>2. QED
      BY <2>1 DEF LedgerType, Transferred
  <1>3. CASE m.ref # Unbooked
    <2> DEFINE c == Signed(m)
    <2>1. m.ref \in Refs /\ c \in Int
          /\ ledger' = [ledger EXCEPT ![m.ref][m.key] = @ + c]
      BY <1>1, <1>3, Zenon DEF Booked
    <2>a. c = Signed(m)
      OBVIOUS
    <2> HIDE DEF c
    <2>b. ledger \in [Refs -> [Keys -> Int]]
      BY DEF LedgerType
    <2>c. ledger' = [ledger EXCEPT ![m.ref] = [ledger[m.ref] EXCEPT ![m.key] = ledger[m.ref][m.key] + c]]
      BY <2>1
    <2>d. [ledger[m.ref] EXCEPT ![m.key] = ledger[m.ref][m.key] + c] \in [Keys -> Int]
      BY <1>1, <2>1, <2>b
    <2>2. LedgerType'
      BY <2>1, <2>b, <2>c, <2>d DEF LedgerType
    <2>3. m.ref # Transfers => ledger'[Transfers] = ledger[Transfers]
      BY <1>1, <2>b, <2>c
    <2>4. ASSUME m.ref = Transfers
          PROVE  Transferred' = Transferred + Signed(m)
      <3> DEFINE f == ledger[Transfers]
                 g == ledger'[Transfers]
      <3>1. g = [f EXCEPT ![m.key] = f[m.key] + Signed(m)] /\ f \in [Keys -> Int]
        BY <1>1, <2>a, <2>b, <2>c, <2>4
      <3> HIDE DEF f, g
      <3>2. /\ g[m.key] = f[m.key] + Signed(m)
            /\ \A k \in Keys : f[k] \in Int /\ g[k] \in Int /\ (k # m.key => g[k] = f[k])
        BY <1>1, <3>1
      <3>3. Sum(g, Keys) = Sum(f, Keys) + g[m.key] - f[m.key]
        BY <1>1, <3>2, SumUpdate, InventoryAssumption
      <3>4. Sum(f, Keys) \in Int
        BY <3>2, SumType, InventoryAssumption
      <3>5. Sum(g, Keys) = Sum(f, Keys) + Signed(m)
        BY <1>1, <3>2, <3>3, <3>4
      <3>6. QED
        BY <3>5 DEF f, g, Transferred, Sum
    <2>5. QED
      BY <2>2, <2>3, <2>4 DEF Transferred, Sum
  <1>4. QED
    BY <1>2, <1>3

-----------------------------------------------------------------------------
(* A step of one handler changes what all owe together by what it does.     *)

(* The job that is taken up is one of the shapes, and owes nothing yet.     *)
LEMMA AskShape ==
    ASSUME NEW h \in Handlers, Ask(h)
    PROVE  /\ \E moves \in Singles \cup Pairs : Begin(h, moves)
           /\ turned \subseteq turned'
  <1>0. turned \subseteq turned'
    BY DEF Ask
  <1>1. PICK k \in Keys, q \in Quantities :
          \/ StockIn(h, k, q) \/ StockOut(h, k, q)
          \/ Increase(h, k, q) \/ Decrease(h, k, q)
          \/ \E to \in Keys : Move(h, k, to, q)
    BY DEF Ask
  <1>2. \A ref \in {Manual, Unbooked} :
          /\ In(k, q, ref) \in Moves /\ Out(k, q, ref) \in Moves
          /\ In(k, q, ref).ref = ref /\ Out(k, q, ref).ref = ref
    BY StockKeeperAssumption DEF In, Out, Moves
  <1>3. Manual # Transfers /\ Unbooked # Transfers
    <2>1. Manual.type = "manual" /\ Unbooked.type = "none" /\ Transfers.type = "transfer"
      BY DEF Manual, Unbooked, Transfers
    <2>2. QED
      BY <2>1
  <1>4. \A ref \in {Manual, Unbooked} :
          <<In(k, q, ref)>> \in Singles /\ <<Out(k, q, ref)>> \in Singles
    <2> HIDE DEF Manual, Unbooked, Transfers
    <2>1. \A m \in Moves : m.ref # Transfers => <<m>> \in Singles
      BY DEF Singles
    <2>2. QED
      BY <1>2, <1>3, <2>1
  <1>5. CASE StockIn(h, k, q) \/ StockOut(h, k, q)
    BY <1>0, <1>4, <1>5 DEF StockIn, StockOut
  <1>6. CASE Increase(h, k, q) \/ Decrease(h, k, q)
    BY <1>0, <1>4, <1>6 DEF Increase, Decrease
  <1>7. CASE \E to \in Keys : Move(h, k, to, q)
    <2>1. PICK to \in Keys : Move(h, k, to, q)
      BY <1>7
    <2>2. Transfer(k, to, q, Transfers) \in Pairs
      BY DEF Transfer, Pairs
    <2>3. QED
      BY <1>0, <2>1, <2>2 DEF Move
  <1>8. QED
    BY <1>1, <1>5, <1>6, <1>7

(* A step that books nothing keeps the bound when the one handler that      *)
(* moves owes no more than before.                                          *)
LEMMA OwesNoMore ==
    ASSUME TransferInv, NEW h \in Handlers, IInv', UNCHANGED ledger,
           \A g \in Handlers : g # h => work'[g] = work[g],
           Acting(h)' => work'[h].moves \in Singles \cup Pairs \cup Rests,
           turned \subseteq turned', NoneTurned => Owed(h)' <= Owed(h)
    PROVE  TransferInv'
  <1>1. JobShape'
    BY DEF TransferInv, JobShape, Acting
  <1>2. LedgerType' /\ Transferred' = Transferred
    BY DEF TransferInv, LedgerType, Transferred, Sum
  <1>3. AllOwed' = AllOwed + Owed(h)' - Owed(h)
    BY OwedMoves
  <1>4. Owed(h) \in Int /\ Owed(h)' \in Int /\ AllOwed \in Int
    <2>1. \A s \in Rests : Head(s).qty \in Int
      BY ShapesApart
    <2>2. Owed(h)' \in Int
      BY <2>1 DEF Owed
    <2>3. QED
      BY <2>2, OwedType
  <1>5. Transferred \in Int
    <2>1. \A k \in Keys : ledger[Transfers][k] \in Int
      BY StockKeeperAssumption DEF TransferInv, LedgerType
    <2>2. QED
      BY <2>1, SumType, InventoryAssumption DEF Transferred
  <1>6. NoneTurned' => Transferred' + AllOwed' <= 0
    <2>1. NoneTurned' => NoneTurned
      BY DEF NoneTurned
    <2>2. QED
      BY <1>2, <1>3, <1>4, <1>5, <2>1 DEF TransferInv
  <1>7. QED
    BY <1>1, <1>2, <1>6 DEF TransferInv

(* Taking up a job (Ask): the handler was idle and owes nothing, and        *)
(* nothing after.                                                           *)
LEMMA AskTransfers ==
    ASSUME TransferInv, NEW h \in Handlers, Ask(h)
    PROVE  TransferInv'
  <1>0. turned \subseteq turned'
    BY AskShape
  <1>1. PICK moves \in Singles \cup Pairs : Begin(h, moves)
    BY AskShape
  <1>2. /\ work' = [work EXCEPT ![h] = Job("reading", moves, 0, 0)]
        /\ UNCHANGED ledger /\ work[h].pc = "idle"
    BY <1>1 DEF Begin, Is
  <1>3. \A g \in Handlers : g # h => work'[g] = work[g]
    BY <1>2 DEF TransferInv, IInv, WorkType
  <1>4. work'[h].moves = moves
    BY <1>2 DEF TransferInv, IInv, WorkType, Job
  <1>5. Owed(h) = 0 /\ Owed(h)' = 0
    BY <1>1, <1>2, <1>4, ShapesApart DEF Owed, Acting
  <1>6. IInv'
    BY AskIInv DEF TransferInv
  <1>7. QED
    BY <1>0, <1>1, <1>2, <1>3, <1>4, <1>5, <1>6, OwesNoMore

(* Reading a row (Read): the moves stay; a handler that gives up owes       *)
(* nothing any more.                                                        *)
LEMMA ReadTransfers ==
    ASSUME TransferInv, NEW h \in Handlers, Read(h), UNCHANGED turned
    PROVE  TransferInv'
  <1>1. /\ work[h].pc = "reading" /\ UNCHANGED ledger
        /\ \A g \in Handlers : g # h => work'[g] = work[g]
        /\ work'[h].moves = work[h].moves /\ work'[h].pc \in {"writing", "failed"}
    BY DEF TransferInv, IInv, WorkType, Read, Is, Job
  <1>2. work[h].moves \in Singles \cup Pairs \cup Rests
    BY <1>1 DEF TransferInv, JobShape, Acting
  <1>3. NoneTurned => Owed(h)' <= Owed(h)
    <2> SUFFICES ASSUME NoneTurned PROVE Owed(h)' <= Owed(h)
      OBVIOUS
    <2>1. Owed(h) \in Int /\ Owed(h) >= 0 /\ Acting(h)
      BY <1>1, OwedType, OwedNat DEF Acting, TransferInv
    <2>2. Owed(h)' = Owed(h) \/ Owed(h)' = 0
      BY <1>1, <2>1 DEF Owed, Acting
    <2>3. QED
      BY <2>1, <2>2
  <1>4. IInv'
    BY ReadIInv DEF TransferInv
  <1>5. QED
    BY <1>1, <1>2, <1>3, <1>4, OwesNoMore

(* The end of a job (Finish), a crash included: nothing is owed any more.   *)
LEMMA FinishTransfers ==
    ASSUME TransferInv, NEW h \in Handlers, Finish(h), UNCHANGED turned
    PROVE  TransferInv'
  <1>1. /\ UNCHANGED ledger /\ work'[h].pc = "idle"
        /\ \A g \in Handlers : g # h => work'[g] = work[g]
    BY DEF TransferInv, IInv, WorkType, Finish, Free, Job
  <1>2. Owed(h)' = 0 /\ ~Acting(h)'
    BY <1>1 DEF Owed, Acting
  <1>3. NoneTurned => Owed(h)' <= Owed(h)
    BY <1>2, OwedNat DEF TransferInv
  <1>4. IInv'
    BY FinishIInv DEF TransferInv
  <1>5. QED
    BY <1>1, <1>2, <1>3, <1>4, OwesNoMore

(* A write (Write): what a transfer takes out the handler owes from then    *)
(* on, and what it brings in it owes no more.                               *)
LEMMA WriteTransfers ==
    ASSUME TransferInv, NEW h \in Handlers, Write(h), UNCHANGED turned
    PROVE  TransferInv'
  <1> DEFINE s == work[h].moves
             m == Head(s)
  <1>1. /\ Acting(h) /\ ledger' = Booked(m)
        /\ work' = [work EXCEPT ![h] =
                      Job(IF Tail(s) = <<>> THEN "done" ELSE "reading", Tail(s), 0, 0)]
    BY DEF Write, Is, Acting
  <1>2. /\ \A g \in Handlers : g # h => work'[g] = work[g]
        /\ work'[h].moves = Tail(s)
        /\ Tail(s) = <<>> => work'[h].pc = "done"
        /\ Tail(s) # <<>> => work'[h].pc = "reading"
    BY <1>1 DEF TransferInv, IInv, WorkType, Job
  <1>3. s \in Singles \cup Pairs \cup Rests /\ s \in Seq(Moves) /\ s # <<>>
    BY <1>1 DEF TransferInv, JobShape, IInv, WorkType, JobType, JobsOK, JobOK, Acting
  <1>4. m \in Moves /\ m.qty \in Int /\ Signed(m) = IF m.out THEN -m.qty ELSE m.qty
    <2>1. m \in Moves
      BY <1>3
    <2> HIDE DEF m
    <2>2. m.qty \in Int
      BY <2>1, MoveType
    <2>3. Signed(m) = IF m.out THEN -m.qty ELSE m.qty
      BY Zenon DEF Signed
    <2>4. QED
      BY <2>1, <2>2, <2>3
  <1> HIDE DEF m
  <1>5. /\ LedgerType'
        /\ m.ref # Transfers => Transferred' = Transferred
        /\ m.ref = Transfers => Transferred' = Transferred + Signed(m)
    BY <1>1, <1>4, BookingFacts DEF TransferInv
  <1>6. /\ Transferred \in Int /\ AllOwed \in Int
        /\ NoneTurned' => Transferred + AllOwed <= 0
    <2>1. \A k \in Keys : ledger[Transfers][k] \in Int
      BY StockKeeperAssumption DEF TransferInv, LedgerType
    <2>2. QED
      BY <2>1, SumType, InventoryAssumption, OwedType DEF Transferred, TransferInv, NoneTurned
  <1>7. AllOwed' = AllOwed + Owed(h)' - Owed(h)
    BY <1>2, OwedMoves
  <1>8. IInv'
    BY WriteIInv DEF TransferInv
  <1>9. CASE s \in Singles
    <2>1. m.ref # Transfers /\ Tail(s) = <<>> /\ s \notin Rests
      BY <1>9, ShapesApart DEF m
    <2>2. Owed(h) = 0 /\ Owed(h)' = 0 /\ ~Acting(h)'
      BY <1>2, <2>1 DEF Owed, Acting
    <2>3. JobShape'
      BY <1>2, <2>2 DEF JobShape, TransferInv, Acting
    <2>4. QED
      BY <1>5, <1>6, <1>7, <1>8, <2>1, <2>2, <2>3 DEF TransferInv
  <1>10. CASE s \in Pairs
    <2>1. /\ s \notin Rests /\ Tail(s) \in Rests /\ m.ref = Transfers /\ m.out
          /\ Head(Tail(s)).qty = m.qty
      BY <1>10, ShapesApart DEF m
    <2>2. Tail(s) # <<>>
      <3>1. \A r \in Rests : Len(r) = 1
        BY DEF Rests
      <3>2. Len(<<>>) = 0
        OBVIOUS
      <3> DEFINE t == Tail(s)
      <3>3. t \in Rests
        BY <2>1
      <3> HIDE DEF t
      <3>4. t # <<>>
        BY <3>1, <3>2, <3>3
      <3>5. QED
        BY <3>4 DEF t
    <2>3. Owed(h) = 0 /\ Owed(h)' = m.qty
      <3>1. work'[h].moves = Tail(s) /\ Tail(s) \in Rests /\ Acting(h)'
        BY <1>2, <2>1, <2>2 DEF Acting
      <3>2. Owed(h)' = Head(Tail(s)).qty
        BY <3>1, Zenon DEF Owed
      <3>3. Owed(h) = 0
        BY <2>1, Zenon DEF Owed
      <3>4. QED
        BY <2>1, <3>2, <3>3
    <2>4. JobShape'
      BY <1>2, <2>1 DEF JobShape, TransferInv, Acting
    <2>5. Transferred' = Transferred - m.qty
      BY <1>4, <1>5, <1>6, <2>1
    <2>6. QED
      BY <1>4, <1>5, <1>6, <1>7, <1>8, <2>3, <2>4, <2>5 DEF TransferInv
  <1>11. CASE s \in Rests
    <2>1. Tail(s) = <<>> /\ m.ref = Transfers /\ ~m.out
      BY <1>11, ShapesApart DEF m
    <2>2. Owed(h) = m.qty /\ Owed(h)' = 0 /\ ~Acting(h)'
      BY <1>1, <1>2, <1>11, <2>1 DEF Owed, Acting, m
    <2>3. JobShape'
      BY <1>2, <2>2 DEF JobShape, TransferInv, Acting
    <2>4. Transferred' = Transferred + m.qty
      BY <1>4, <1>5, <1>6, <2>1
    <2>5. QED
      BY <1>4, <1>5, <1>6, <1>7, <1>8, <2>2, <2>3, <2>4 DEF TransferInv
  <1>12. QED
    BY <1>3, <1>9, <1>10, <1>11

(* At the start nothing is booked and nothing owed.                         *)
LEMMA InitTransfers == Init /\ turned = {} => TransferInv
  <1> SUFFICES ASSUME Init, turned = {} PROVE TransferInv
    OBVIOUS
  <1>1. LedgerType /\ \A k \in Keys : ledger[Transfers][k] = 0
    BY StockKeeperAssumption DEF Init, LedgerType
  <1>2. \A h \in Handlers : ~Acting(h) /\ Owed(h) = 0
    BY DEF Init, Free, Job, Acting, Owed
  <1>3. Transferred = 0
    BY <1>1, SumZero, InventoryAssumption DEF Transferred
  <1>4. AllOwed = 0
    <2> DEFINE f == [h \in Handlers |-> Owed(h)]
    <2>1. \A h \in Handlers : f[h] = 0
      BY <1>2
    <2> HIDE DEF f
    <2>2. Sum(f, Handlers) = 0
      BY <2>1, SumZero, InventoryAssumption
    <2>3. QED
      BY <2>2 DEF AllOwed, f
  <1>5. QED
    BY <1>1, <1>2, <1>3, <1>4, InitIInv DEF TransferInv, JobShape

(* Every step keeps the bound.                                              *)
LEMMA NextTransfers ==
    ASSUME TransferInv, [Next]_keeperVars
    PROVE  TransferInv'
  <1>1. CASE UNCHANGED keeperVars
    <2>1. UNCHANGED <<work, ledger, turned>> /\ IInv'
      BY <1>1, NextIInv DEF keeperVars, vars, TransferInv
    <2>2. QED
      BY <2>1 DEF TransferInv, LedgerType, JobShape, Acting, Transferred, AllOwed, Owed, Sum, NoneTurned
  <1>2. CASE Next
    <2>1. PICK h \in Handlers : Ask(h) \/ Goes(h)
      BY <1>2 DEF Next
    <2>2. QED
      BY <2>1, AskTransfers, ReadTransfers, WriteTransfers, FinishTransfers DEF Goes
  <1>3. QED
    BY <1>1, <1>2

(* For any number of handlers, warehouses, items and quantities: as long as *)
(* no transfer was of a negative quantity, however many run at once, fail   *)
(* or die between their two commits, they never put more into the           *)
(* warehouses than they took out of them.                                   *)
THEOREM StockTransfersCreateNothing == Spec => []TransfersCreateNothing
  <1>1. TransferInv => TransfersCreateNothing
    <2> SUFFICES ASSUME TransferInv, NoneTurned PROVE SumFunction(ledger[Transfers]) <= 0
      BY DEF TransfersCreateNothing, NoneTurned
    <2>1. DOMAIN ledger[Transfers] = Keys /\ \A k \in Keys : ledger[Transfers][k] \in Int
      BY StockKeeperAssumption DEF TransferInv, LedgerType
    <2>2. SumFunction(ledger[Transfers]) = Transferred
      BY <2>1, Zenon DEF SumFunction, Transferred, Sum
    <2>3. Transferred \in Int /\ AllOwed \in Int /\ AllOwed >= 0
      BY <2>1, SumType, InventoryAssumption, OwedType, OwedNat DEF Transferred, TransferInv
    <2>4. Transferred + AllOwed <= 0
      BY DEF TransferInv
    <2>5. QED
      BY <2>2, <2>3, <2>4
  <1>2. TransferInv /\ [Next]_keeperVars => TransferInv'
    BY NextTransfers
  <1>3. QED
    BY InitTransfers, <1>1, <1>2, PTL DEF Spec

(* Whatever amounts are asked for and whatever overlaps, fails or dies,     *)
(* goods come from nowhere only by a request to bring in a negative         *)
(* quantity: nothing in the handlers refuses one.                           *)
THEOREM StockFromSomewhere == Spec => []NothingFromNowhere
  BY StockNegativeWhereTurned, StockTransfersCreateNothing, PTL DEF NothingFromNowhere

-----------------------------------------------------------------------------
(* One booked request at a time.                                            *)

(* What a lone handler saw is still there when it writes.                   *)
FreshRead ==
    \A h \in Handlers : Is(h, "writing") =>
        LET k == Head(work[h].moves).key IN
        /\ work[h].row = 0 => stock[k] = <<>> /\ work[h].seen = 0
        /\ work[h].row # 0 => work[h].seen = stock[k][work[h].row]

Tidy == AtMostOneBooked /\ StockIsBooked /\ OneRow /\ FreshRead
AloneInv == IInv /\ LedgerType /\ (alone => Tidy)

(* With one row at most, what is on hand is nothing or what the row says.   *)
LEMMA OneRowOnHand ==
    ASSUME NEW s \in Seq(Int), Len(s) <= 1
    PROVE  \/ s = <<>> /\ SumFunction(s) = 0
           \/ s = <<s[1]>> /\ Len(s) = 1 /\ s[1] \in Int /\ SumFunction(s) = s[1]
  <1>1. CASE Len(s) = 0
    <2>1. s = <<>>
      BY <1>1
    <2>2. QED
      BY <2>1, SumOfFew
  <1>2. CASE Len(s) = 1
    <2>1. s[1] \in Int /\ <<s[1]>> \in Seq(Int) /\ Len(<<s[1]>>) = 1 /\ <<s[1]>>[1] = s[1]
      BY <1>2
    <2>2. s = <<s[1]>>
      BY <1>2, <2>1, SeqEqual
    <2>3. SumFunction(<<s[1]>>) = s[1]
      BY <2>1, SumOfFew
    <2>4. QED
      BY <1>2, <2>1, <2>2, <2>3
  <1>3. Len(s) \in Nat
    BY LenProperties
  <1>4. Len(s) = 0 \/ Len(s) = 1
    <2> DEFINE n == Len(s)
    <2>1. n \in Nat /\ n <= 1
      BY <1>3
    <2> HIDE DEF n
    <2>2. n = 0 \/ n = 1
      BY <2>1
    <2>3. QED
      BY <2>2 DEF n
  <1>5. QED
    BY <1>1, <1>2, <1>4, Zenon

(* The books of an item and a warehouse are sums over all references.       *)
LEMMA NetIsSum ==
    ASSUME LedgerType, NEW k \in Keys
    PROVE  LET f == [ref \in Refs |-> ledger[ref][k]] IN
           Net(k) = Sum(f, Refs) /\ Net(k) \in Int /\ \A ref \in Refs : f[ref] \in Int
  <1> DEFINE f == [ref \in Refs |-> ledger[ref][k]]
  <1>1. DOMAIN f = Refs /\ \A ref \in Refs : f[ref] \in Int
    BY DEF LedgerType
  <1>2. Net(k) = SumFunction(f)
    BY Zenon DEF Net
  <1> HIDE DEF f
  <1>3. SumFunction(f) = Sum(f, Refs)
    BY <1>1, Zenon DEF SumFunction, Sum
  <1>4. Sum(f, Refs) \in Int
    BY <1>1, SumType, InventoryAssumption
  <1>5. QED
    BY <1>1, <1>2, <1>3, <1>4 DEF f

(* A booking changes the books of the one item and warehouse it is about.   *)
LEMMA NetMoves ==
    ASSUME LedgerType, NEW m \in Moves, m.ref # Unbooked, ledger' = Booked(m), NEW k \in Keys
    PROVE  Net(k)' = Net(k) + IF k = m.key THEN Signed(m) ELSE 0
  <1> DEFINE f == [ref \in Refs |-> ledger[ref][k]]
             g == [ref \in Refs |-> ledger'[ref][k]]
             c == Signed(m)
  <1>1. m.ref \in Refs /\ m.key \in Keys /\ c \in Int
    BY MoveType
  <1>2. ledger' = [ledger EXCEPT ![m.ref][m.key] = @ + c]
    BY Zenon DEF Booked
  <1>3. ledger \in [Refs -> [Keys -> Int]]
    BY DEF LedgerType
  <1> HIDE DEF c
  <1>4. ledger' = [ledger EXCEPT ![m.ref] = [ledger[m.ref] EXCEPT ![m.key] = ledger[m.ref][m.key] + c]]
    BY <1>2
  <1>5. /\ \A ref \in Refs : ref # m.ref => g[ref] = f[ref]
        /\ g[m.ref] = f[m.ref] + IF k = m.key THEN c ELSE 0
        /\ \A ref \in Refs : f[ref] \in Int
    BY <1>1, <1>3, <1>4
  <1>6. Net(k) = Sum(f, Refs) /\ Net(k) \in Int
    BY NetIsSum
  <1>7. Net(k)' = SumFunction(g) /\ DOMAIN g = Refs
    BY Zenon DEF Net
  <1> HIDE DEF f, g
  <1>8. \A ref \in Refs : g[ref] \in Int
    BY <1>1, <1>5
  <1>9. Net(k)' = Sum(g, Refs)
    BY <1>7, Zenon DEF SumFunction, Sum
  <1>10. Sum(g, Refs) = Sum(f, Refs) + g[m.ref] - f[m.ref]
    BY <1>1, <1>5, <1>8, SumUpdate, InventoryAssumption
  <1>11. Net(k)' = Net(k) + IF k = m.key THEN c ELSE 0
    BY <1>1, <1>5, <1>6, <1>9, <1>10
  <1>12. QED
    BY <1>11 DEF c

(* The opening stock is booked: nothing has been moved.                     *)
LEMMA InitAlone == MCInit => AloneInv
  <1> SUFFICES ASSUME MCInit PROVE AloneInv
    OBVIOUS
  <1>1. Init /\ IInv /\ LedgerType
    BY InitTransfers DEF MCInit, TransferInv
  <1>2. \A h \in Handlers : work[h].pc = "idle" /\ work[h].moves = <<>>
    BY <1>1 DEF Init, Free, Job
  <1>3. AtMostOneBooked /\ FreshRead
    BY <1>2 DEF AtMostOneBooked, FreshRead, Is, MovesOf
  <1>4. ASSUME NEW k \in Keys
        PROVE  Len(stock[k]) <= 1 /\ OnHand(k) = Opening[k] + Net(k)
    <2>1. Opening[k] \in Nat /\ stock[k] = IF Opening[k] = 0 THEN <<>> ELSE <<Opening[k]>>
      BY <1>1, InventoryAssumption DEF Init
    <2>2. Len(stock[k]) <= 1 /\ OnHand(k) = Opening[k]
      BY <2>1, SumOfFew DEF OnHand
    <2>3. \A ref \in Refs : ledger[ref][k] = 0
      BY <1>1 DEF Init
    <2>4. Net(k) = 0
      <3> DEFINE f == [ref \in Refs |-> ledger[ref][k]]
      <3>1. Net(k) = Sum(f, Refs) /\ \A ref \in Refs : f[ref] = 0
        BY <1>1, <2>3, NetIsSum
      <3> HIDE DEF f
      <3>2. QED
        BY <3>1, SumZero, InventoryAssumption
    <2>5. QED
      BY <2>1, <2>2, <2>4
  <1>5. QED
    BY <1>1, <1>3, <1>4 DEF AloneInv, Tidy, StockIsBooked, OneRow

(* A step that books nothing and writes nothing leaves what is booked.      *)
LEMMA NothingBooked ==
    ASSUME AloneInv, UNCHANGED <<stock, ledger>>, IInv', FreshRead', AtMostOneBooked', alone
    PROVE  LedgerType' /\ Tidy'
  <1>1. LedgerType' /\ StockIsBooked' /\ OneRow'
    BY DEF AloneInv, Tidy, LedgerType, StockIsBooked, OneRow, OnHand, Net
  <1>2. QED
    BY <1>1 DEF Tidy

(* A write of a lone handler moves the row by what it books.                *)
LEMMA WriteAlone ==
    ASSUME AloneInv, alone, NEW h \in Handlers, Write(h), AtMostOneBooked'
    PROVE  LedgerType' /\ Tidy'
  <1> DEFINE s == work[h].moves
             m == Head(s)
             row == work[h].row
             k == m.key
             c == Signed(m)
  <1>1. /\ Is(h, "writing") /\ ledger' = Booked(m)
        /\ stock' = [stock EXCEPT ![k] = Stored(@, row, m, work[h].seen + c)]
        /\ work' = [work EXCEPT ![h] =
                      Job(IF Tail(s) = <<>> THEN "done" ELSE "reading", Tail(s), 0, 0)]
    BY DEF Write, NewQuantity
  <1>2. s \in Seq(Moves) /\ s # <<>>
    BY <1>1 DEF AloneInv, IInv, WorkType, JobType, JobsOK, JobOK, Is
  <1>3. m \in Moves /\ m = s[1] /\ 1 \in DOMAIN s
    BY <1>2
  <1>4. m.ref # Unbooked
    BY <1>3 DEF AloneInv, Tidy, AtMostOneBooked, MovesOf
  <1>5. /\ row = 0 \/ row \in DOMAIN stock[k]
        /\ row = 0 => stock[k] = <<>> /\ work[h].seen = 0
        /\ row # 0 => work[h].seen = stock[k][row]
    BY <1>1 DEF AloneInv, Tidy, FreshRead, IInv, JobsOK, JobOK, Is, Rows
  <1>6. FreshRead'
    <2>1. \A g \in Handlers : g # h => Is(g, "idle") /\ work'[g] = work[g]
      BY <1>1 DEF AloneInv, Tidy, AtMostOneBooked, Is, IInv, WorkType
    <2>2. work'[h].pc # "writing"
      BY <1>1 DEF AloneInv, IInv, WorkType, Job
    <2>3. \A g \in Handlers : work'[g].pc # "writing"
      BY <2>1, <2>2 DEF Is
    <2>4. QED
      BY <2>3 DEF FreshRead, Is
  <1> HIDE DEF m, row
  <1>7. /\ k \in Keys /\ c \in Int /\ m.qty \in Int
        /\ m.qty = 0 => c = 0
    BY <1>3, MoveType
  <1>8. stock \in [Keys -> Seq(Int)] /\ Len(stock[k]) <= 1 /\ stock[k] \in Seq(Int)
    BY <1>7 DEF AloneInv, Tidy, IInv, StockType, OneRow
  <1>9. ASSUME NEW j \in Keys, j = k
        PROVE  /\ Len(stock'[j]) <= 1 /\ OnHand(j) \in Int
               /\ OnHand(j)' = OnHand(j) + c
    <2>1. stock'[j] = Stored(stock[j], row, m, work[h].seen + c)
      BY <1>1, <1>7, <1>8, <1>9
    <2>2. /\ row = 0 \/ row \in DOMAIN stock[j]
          /\ row = 0 => stock[j] = <<>> /\ work[h].seen = 0
          /\ row # 0 => work[h].seen = stock[j][row]
      BY <1>5, <1>9
    <2>3. stock[j] \in Seq(Int) /\ Len(stock[j]) <= 1 /\ c \in Int
      BY <1>7, <1>8, <1>9
    <2> HIDE DEF k, c
    <2>4. CASE row = 0
      <3>1. stock[j] = <<>> /\ stock'[j] = <<c>>
        <4>1. stock[j] = <<>> /\ work[h].seen + c = c
          BY <2>2, <2>3, <2>4
        <4>2. stock'[j] = Append(<<>>, c)
          BY <2>1, <2>4, <4>1 DEF Stored
        <4>3. Append(<<>>, c) = <<c>>
          OBVIOUS
        <4>4. QED
          BY <4>1, <4>2, <4>3, Zenon
      <3>2. OnHand(j) = 0 /\ OnHand(j)' = c /\ Len(stock'[j]) = 1
        BY <2>3, <3>1, SumOfFew DEF OnHand
      <3>3. QED
        BY <2>3, <3>2
    <2>5. CASE row # 0
      <3>1. stock[j] = <<stock[j][1]>> /\ stock[j][1] \in Int /\ OnHand(j) = stock[j][1]
            /\ Len(stock[j]) = 1
        BY <2>2, <2>3, <2>5, OneRowOnHand DEF OnHand
      <3>2. row = 1 /\ work[h].seen = stock[j][1]
        BY <2>2, <2>3, <2>5, <3>1
      <3>3. stock'[j] = IF m.qty = 0 THEN stock[j] ELSE [stock[j] EXCEPT ![1] = stock[j][1] + c]
        BY <2>1, <2>5, <3>2 DEF Stored
      <3>4. stock'[j] = <<stock[j][1] + c>>
        <4>1. CASE m.qty = 0
          BY <1>7, <3>1, <3>3, <4>1
        <4>2. CASE m.qty # 0
          BY <3>1, <3>3, <4>2
        <4>3. QED
          BY <4>1, <4>2
      <3>5. stock[j][1] + c \in Int
        BY <2>3, <3>1
      <3>6. OnHand(j)' = stock[j][1] + c /\ Len(stock'[j]) = 1
        BY <3>4, <3>5, SumOfFew DEF OnHand
      <3>7. QED
        BY <3>1, <3>6
    <2>6. QED
      BY <2>4, <2>5
  <1>10. \A j \in Keys : j # k => stock'[j] = stock[j]
    BY <1>1, <1>8
  <1>11. LedgerType'
    BY <1>1, <1>3, BookingFacts DEF AloneInv
  <1>12. StockIsBooked' /\ OneRow'
    <2>1. ASSUME NEW j \in Keys
          PROVE  OnHand(j)' = Opening[j] + Net(j)' /\ Len(stock'[j]) <= 1
      <3>1. OnHand(j) = Opening[j] + Net(j) /\ Len(stock[j]) <= 1
        BY DEF AloneInv, Tidy, StockIsBooked, OneRow
      <3>2. Net(j)' = Net(j) + IF j = k THEN c ELSE 0
        BY <1>1, <1>3, <1>4, NetMoves DEF AloneInv
      <3>3. Net(j) \in Int /\ Opening[j] \in Nat
        BY NetIsSum, InventoryAssumption DEF AloneInv
      <3>4. j # k => OnHand(j)' = OnHand(j)
        BY <1>10 DEF OnHand
      <3> HIDE DEF k, c
      <3>5. QED
        BY <1>7, <1>9, <1>10, <3>1, <3>2, <3>3, <3>4
    <2>2. QED
      BY <2>1 DEF StockIsBooked, OneRow
  <1>13. QED
    BY <1>6, <1>11, <1>12 DEF Tidy

(* Every step under the load keeps the invariant.                           *)
LEMMA NextAlone ==
    ASSUME AloneInv, [AnyNext]_<<keeperVars, alone>>
    PROVE  AloneInv'
  <1>1. CASE UNCHANGED <<keeperVars, alone>>
    <2>1. UNCHANGED <<stock, ledger, work, alone>> /\ IInv' /\ LedgerType'
      BY <1>1, NextIInv DEF keeperVars, vars, AloneInv, LedgerType
    <2>2. ASSUME alone
          PROVE  FreshRead' /\ AtMostOneBooked'
      BY <2>1, <2>2 DEF AloneInv, Tidy, FreshRead, AtMostOneBooked, Is, MovesOf
    <2>3. QED
      BY <2>1, <2>2, NothingBooked DEF AloneInv
  <1>2. CASE AnyNext
    <2>1. PICK h \in Handlers :
            /\ Ask(h) \/ Read(h) \/ Write(h) \/ Finish(h)
            /\ alone' = alone /\ (alone => AtMostOneBooked')
      BY <1>2 DEF AnyNext, Next, Goes, Kept
    <2>2. IInv'
      BY <1>2, NextIInv DEF AloneInv, AnyNext
    <2>3. LedgerType'
      <3>1. CASE Write(h)
        <4>1. work[h].moves \in Seq(Moves) /\ work[h].moves # <<>> /\ ledger' = Booked(Head(work[h].moves))
          BY <3>1 DEF Write, AloneInv, IInv, WorkType, JobType, JobsOK, JobOK, Is
        <4>2. Head(work[h].moves) \in Moves
          BY <4>1
        <4>3. QED
          BY <4>1, <4>2, BookingFacts DEF AloneInv
      <3>2. CASE Ask(h) \/ Read(h) \/ Finish(h)
        <4>1. UNCHANGED ledger
          BY <3>2 DEF Ask, StockIn, StockOut, Increase, Decrease, Move, Begin, Read, Finish
        <4>2. QED
          BY <4>1 DEF AloneInv, LedgerType
      <3>3. QED
        BY <2>1, <3>1, <3>2
    <2>4. ASSUME alone
          PROVE  Tidy'
      <3>1. CASE Ask(h)
        <4>1. UNCHANGED <<stock, ledger>> /\ \E moves : work' = [work EXCEPT ![h] = Job("reading", moves, 0, 0)]
          BY <3>1 DEF Ask, StockIn, StockOut, Increase, Decrease, Move, Begin
        <4>2. work'[h].pc = "reading" /\ \A g \in Handlers : g # h => work'[g] = work[g]
          BY <4>1 DEF AloneInv, IInv, WorkType, Job
        <4>3. FreshRead'
          BY <2>4, <4>1, <4>2 DEF FreshRead, Is, AloneInv, Tidy
        <4>4. QED
          BY <2>1, <2>2, <2>4, <4>1, <4>3, NothingBooked
      <3>2. CASE Read(h)
        <4> DEFINE k == Head(work[h].moves).key
        <4>1. UNCHANGED <<stock, ledger>>
          BY <3>2 DEF Read
        <4>2. PICK i \in Found(k) :
                LET seen == IF i = 0 THEN 0 ELSE stock[k][i] IN
                work' = [work EXCEPT ![h] =
                           IF Suffices(Head(work[h].moves), seen) /\ RowIsThere(Head(work[h].moves), i)
                             THEN Job("writing", @.moves, i, seen)
                             ELSE Job("failed", @.moves, 0, 0)]
          BY <3>2 DEF Read
        <4>3. \A g \in Handlers : g # h => work'[g] = work[g]
          BY <4>2 DEF AloneInv, IInv, WorkType
        <4>4. work'[h].moves = work[h].moves
          BY <4>2 DEF AloneInv, IInv, WorkType, Job
        <4>5. work'[h].pc = "writing" =>
                work'[h].row = i /\ work'[h].seen = IF i = 0 THEN 0 ELSE stock[k][i]
          BY <4>2 DEF AloneInv, IInv, WorkType, Job
        <4>6. i = 0 => stock[k] = <<>>
          <5>1. work[h].moves \in Seq(Moves) /\ work[h].moves # <<>>
            BY <3>2 DEF Read, Is, AloneInv, IInv, WorkType, JobType, JobsOK, JobOK
          <5>2. k \in Keys
            <6>1. Head(work[h].moves) \in Moves
              BY <5>1
            <6>2. \A m \in Moves : m.key \in Keys
              BY DEF Moves
            <6>3. QED
              BY <6>1, <6>2, Zenon
          <5>3. stock[k] \in Seq(Int)
            BY <5>2 DEF AloneInv, IInv, StockType
          <5>4. 0 \notin DOMAIN stock[k]
            BY <5>3
          <5>5. QED
            BY <5>4 DEF Found
        <4>7. FreshRead'
          BY <2>4, <4>1, <4>3, <4>4, <4>5, <4>6 DEF FreshRead, Is, AloneInv, Tidy
        <4>8. QED
          BY <2>1, <2>2, <2>4, <4>1, <4>7, NothingBooked
      <3>3. CASE Write(h)
        BY <2>1, <2>4, <3>3, WriteAlone
      <3>4. CASE Finish(h)
        <4>1. UNCHANGED <<stock, ledger>> /\ work' = [work EXCEPT ![h] = Free]
          BY <3>4 DEF Finish
        <4>2. work'[h].pc = "idle" /\ \A g \in Handlers : g # h => work'[g] = work[g]
          BY <4>1 DEF AloneInv, IInv, WorkType, Free, Job
        <4>3. FreshRead'
          BY <2>4, <4>1, <4>2 DEF FreshRead, Is, AloneInv, Tidy
        <4>4. QED
          BY <2>1, <2>2, <2>4, <4>1, <4>3, NothingBooked
      <3>5. QED
        BY <2>1, <3>1, <3>2, <3>3, <3>4
    <2>5. QED
      BY <2>1, <2>2, <2>3, <2>4 DEF AloneInv
  <1>3. QED
    BY <1>1, <1>2

(* As long as one booked request runs at a time, for any number of items,   *)
(* warehouses and references, any amounts, and wherever a process dies: the *)
(* stock is what the transactions say it is, an item has one row per        *)
(* warehouse, and more is taken out than there was only by a negative       *)
(* quantity.                                                                *)
THEOREM StockBookedAlone == AnySpec => []BookedAlone
  <1>1. AloneInv => BookedAlone
    <2> SUFFICES ASSUME AloneInv, alone PROVE StockIsBooked /\ OneRow /\ NeverOversold
      BY DEF BookedAlone
    <2>1. StockIsBooked /\ OneRow
      BY DEF AloneInv, Tidy
    <2>2. ASSUME NEW k \in Keys, Opening[k] + Net(k) < 0
          PROVE  HasTurned(k)
      <3>1. OnHand(k) = Opening[k] + Net(k) /\ Len(stock[k]) <= 1 /\ stock[k] \in Seq(Int)
        BY <2>1 DEF StockIsBooked, OneRow, AloneInv, IInv, StockType
      <3>2. stock[k] = <<stock[k][1]>> /\ Len(stock[k]) = 1 /\ OnHand(k) = stock[k][1]
        <4>1. OnHand(k) < 0
          BY <2>2, <3>1
        <4>2. QED
          BY <3>1, <4>1, OneRowOnHand DEF OnHand
      <3>3. 1 \in Rows(k) /\ stock[k][1] < 0
        BY <2>2, <3>1, <3>2 DEF Rows
      <3>4. QED
        BY <3>3 DEF AloneInv, IInv, NegativeWhereTurned
    <2>3. QED
      BY <2>1, <2>2 DEF NeverOversold
  <1>2. AloneInv /\ [AnyNext]_<<keeperVars, alone>> => AloneInv'
    BY NextAlone
  <1>3. QED
    BY InitAlone, <1>1, <1>2, PTL DEF AnySpec

=============================================================================
