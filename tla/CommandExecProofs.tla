------------------------- MODULE CommandExecProofs -------------------------
(***************************************************************************)
(* Proofs about CommandExec, for every output of the child on its two      *)
(* streams and any size of pipe and buffer: Exec reports success only for  *)
(* a child whose exit code is accepted, and an error quotes its output.    *)
(*                                                                         *)
(* No concatenation of the list, the buffer and the pipe is mentioned: the *)
(* units of a stream are in one of the three, and in order.                *)
(***************************************************************************)
EXTENDS CommandExec, TLAPS, SequenceTheorems

(* The order in which the child writes units.                              *)
Before(x, y) == x[1] < y[1] \/ (x[1] = y[1] /\ x[2] < y[2])

(* Units of stream s, of those that the child has written.                 *)
WrittenTo(s) ==
  {x \in Unit : /\ x[1] \in DOMAIN script.lines /\ Line(x[1]).to = s
                /\ x[2] \in 1..Line(x[1]).units
                /\ Before(x, next)}

(* The first units of one line.                                            *)
Beginning(t) == \A k \in DOMAIN t : t[k] = <<LineOf(t), k>>

(* A line that is handed on is whole, or the child ended within it.        *)
Whole(s, t) ==
  \/ Len(t) = Line(LineOf(t)).units
  \/ Ended /\ pipe[s] = <<>> /\ LineOf(t) = next[1]

(* Each unit written to s is quoted already, or in the buffer, or still in *)
(* the pipe, and nothing else is there ...                                 *)
QuotedUnits(s) == UNION {{combined[k][u] : u \in DOMAIN combined[k]} : k \in Quoted(s)}
Buffered(s) == {buf[s][k] : k \in DOMAIN buf[s]}
Piped(s) == {pipe[s][k] : k \in DOMAIN pipe[s]}

NothingLost(s) == QuotedUnits(s) \cup Buffered(s) \cup Piped(s) = WrittenTo(s)

(* ... in the order in which it was written ...                            *)
InOrder(s) ==
  /\ \A x \in QuotedUnits(s), y \in Buffered(s) \cup Piped(s) : Before(x, y)
  /\ \A x \in Buffered(s), y \in Piped(s) : Before(x, y)
  /\ \A j, k \in DOMAIN pipe[s] : j < k => Before(pipe[s][j], pipe[s][k])
  /\ \A j, k \in Quoted(s) : j < k => LineOf(combined[j]) < LineOf(combined[k])

(* ... and cut at the ends of lines.                                       *)
ByLine(s) ==
  /\ Beginning(buf[s])
  /\ reader[s] = "scan" /\ buf[s] # <<>> => Len(buf[s]) < Line(LineOf(buf[s])).units
  /\ reader[s] \in {"load", "store"} => buf[s] # <<>> /\ Whole(s, buf[s])
  /\ \A k \in Quoted(s) :
       combined[k] # <<>> /\ Beginning(combined[k]) /\ Whole(s, combined[k])

StreamInv(s) == NothingLost(s) /\ InOrder(s) /\ ByLine(s)

(* The child has lines to write; the entries of the list are its lines.    *)
ChildInv ==
  /\ next[1] \in 1..(Len(script.lines) + 1)
  /\ next[2] \in 1..(IF AllWritten THEN 1 ELSE Line(next[1]).units)
  /\ \A k \in DOMAIN combined : combined[k] # <<>> /\ LineOf(combined[k]) \in DOMAIN script.lines

(* A goroutine is done with a stream whose lines all fit only when there   *)
(* is nothing more to come.                                                *)
DoneInv ==
  \A s \in Stream : reader[s] = "done" /\ Fits(s) =>
    Ended /\ pipe[s] = <<>> /\ buf[s] = <<>>

(* Exec waits for both of them, and then for the child.                    *)
ExecInv ==
  /\ pc = "start" => child = "none" /\ \A s \in Stream : reader[s] = "none" /\ buf[s] = <<>>
  /\ pc \in {"wait", "reap"} => child # "none" /\ result = "none"
  /\ pc = "reap" \/ result \in {"ok", "failed", "deadline", "context"} =>
       \A s \in Stream : reader[s] = "done"
  /\ pc = "start" => result = "none"
  /\ OkMeansAccepted
-----------------------------------------------------------------------------
(* The lines of a script have a stream, and units.                         *)
LEMMA LineType ==
  ASSUME TypeOK
  PROVE  /\ Len(script.lines) \in Nat /\ DOMAIN script.lines = 1..Len(script.lines)
         /\ \A l \in DOMAIN script.lines : Line(l).units \in Nat \ {0} /\ Line(l).to \in Stream
<1>1. script \in Script
  BY ConstantsAssumption DEF TypeOK
<1>2. script.lines \in Seq([to: Stream, units: Nat \ {0}])
  BY <1>1 DEF Script
<1>3. \A l \in 1..Len(script.lines) : script.lines[l] \in [to: Stream, units: Nat \ {0}]
  BY <1>2, ElementOfSeq
<1> QED
  BY <1>2, <1>3, LenProperties DEF Line

(* What a unit is that is in the pipe or in the buffer.                    *)
LEMMA UnitsWritten ==
  ASSUME TypeOK, NEW s \in Stream, NothingLost(s)
  PROVE  \A x \in QuotedUnits(s) \cup Buffered(s) \cup Piped(s) :
           /\ x \in Unit /\ x = <<x[1], x[2]>> /\ x[1] \in Nat /\ x[2] \in Nat
           /\ x[1] \in DOMAIN script.lines /\ Line(x[1]).to = s
           /\ x[2] \in 1..Line(x[1]).units /\ Before(x, next)
  BY DEF NothingLost, WrittenTo, Unit

(* The buffer holds the first units of one line.                           *)
LEMMA BufferBegins ==
  ASSUME TypeOK, NEW s \in Stream, StreamInv(s), buf[s] # <<>>
  PROVE  LET l == LineOf(buf[s])
             n == Len(buf[s])
         IN  /\ n \in Nat \ {0} /\ DOMAIN buf[s] = 1..n
             /\ l \in DOMAIN script.lines /\ l \in Nat /\ Line(l).to = s
             /\ Line(l).units \in Nat /\ n <= Line(l).units
             /\ \A k \in 1..n : buf[s][k] = <<l, k>>
             /\ <<l, 1>> \in Buffered(s) /\ <<l, n>> \in Buffered(s)
             /\ Buffered(s) = {<<l, k>> : k \in 1..n}
<1> DEFINE l == LineOf(buf[s])
           n == Len(buf[s])
<1>1. n \in Nat \ {0} /\ DOMAIN buf[s] = 1..n
  BY EmptySeq, LenProperties DEF TypeOK
<1>2. \A k \in 1..n : buf[s][k] = <<l, k>>
  BY <1>1 DEF StreamInv, ByLine, Beginning
<1>3. Buffered(s) = {<<l, k>> : k \in 1..n}
  BY <1>1, <1>2 DEF Buffered
<1>4. <<l, 1>> \in Buffered(s) /\ <<l, n>> \in Buffered(s)
  BY <1>1, <1>3
<1>5. /\ l \in DOMAIN script.lines /\ l \in Nat /\ Line(l).to = s
      /\ n \in 1..Line(l).units
  BY <1>4, UnitsWritten DEF StreamInv
<1>6. Line(l).units \in Nat
  BY <1>5, LineType
<1> QED
  BY <1>1, <1>2, <1>3, <1>4, <1>5, <1>6

(* What is read from the pipe next continues the line in the buffer, or    *)
(* begins one.                                                             *)
LEMMA HeadContinues ==
  ASSUME TypeOK, NEW s \in Stream, StreamInv(s), reader[s] = "scan", pipe[s] # <<>>
  PROVE  LET h == Head(pipe[s])
         IN  /\ h \in Piped(s) /\ h[2] = Len(buf[s]) + 1
             /\ buf[s] # <<>> => h[1] = LineOf(buf[s])
<1> DEFINE h == Head(pipe[s])
<1>1. /\ pipe[s] \in Seq(Unit) /\ 1 \in DOMAIN pipe[s] /\ h = pipe[s][1]
      /\ DOMAIN pipe[s] = 1..Len(pipe[s]) /\ Len(pipe[s]) \in Nat
  BY EmptySeq, LenProperties DEF TypeOK
<1>2. h \in Piped(s)
  BY <1>1 DEF Piped
<1> HIDE DEF h
<1>3. /\ h = <<h[1], h[2]>> /\ h[1] \in Nat /\ h[2] \in Nat
      /\ h[1] \in DOMAIN script.lines /\ Line(h[1]).to = s
      /\ h[2] \in 1..Line(h[1]).units /\ Before(h, next)
  BY <1>2, UnitsWritten DEF StreamInv
<1>4. next[1] \in Nat /\ next[2] \in Nat
  BY DEF TypeOK, Unit
<1>5. ASSUME NEW y \in Piped(s), y[1] \in Nat, y[2] \in Nat, Before(y, h)
      PROVE  FALSE
  <2>1. PICK k \in DOMAIN pipe[s] : y = pipe[s][k]
    BY DEF Piped
  <2>2. k = 1 \/ Before(h, y)
    BY <1>1, <2>1 DEF StreamInv, InOrder
  <2> QED
    BY <1>1, <1>3, <1>5, <2>1, <2>2 DEF Before
<1>6. CASE buf[s] # <<>>
  <2> DEFINE l == LineOf(buf[s])
             n == Len(buf[s])
             y == <<l, n + 1>>
  <2>1. /\ n \in Nat \ {0} /\ l \in DOMAIN script.lines /\ l \in Nat /\ Line(l).to = s
        /\ <<l, 1>> \in Buffered(s) /\ <<l, n>> \in Buffered(s)
        /\ Buffered(s) = {<<l, k>> : k \in 1..n}
        /\ Line(l).units \in Nat
    BY <1>6, BufferBegins
  <2>2. n < Line(l).units
    BY <1>6 DEF StreamInv, ByLine
  <2> HIDE DEF l, n
  <2>3. Before(<<l, n>>, h)
    BY <1>2, <2>1 DEF StreamInv, InOrder
  <2>4. y = h \/ Before(y, h)
    BY <1>3, <2>1, <2>3 DEF Before
  <2>5. y \in WrittenTo(s)
    BY <1>3, <1>4, <2>1, <2>2, <2>4 DEF Before, WrittenTo, Unit
  <2>6. y \notin Buffered(s)
    BY <2>1
  <2>7. y \notin QuotedUnits(s)
    <3>1. ~Before(y, <<l, 1>>)
      BY <2>1 DEF Before
    <3> QED
      BY <2>1, <3>1 DEF StreamInv, InOrder
  <2>8. y \in Piped(s)
    BY <2>5, <2>6, <2>7 DEF StreamInv, NothingLost
  <2>9. y = h
    BY <1>5, <2>1, <2>4, <2>8
  <2> QED
    BY <1>2, <2>1, <2>9 DEF h, l, n
<1>7. CASE buf[s] = <<>>
  <2> DEFINE y == <<h[1], 1>>
  <2>1. ASSUME h[2] # 1
        PROVE  FALSE
    <3>0. Before(y, h) /\ Before(y, next)
      BY <1>3, <1>4, <2>1 DEF Before
    <3>1. Before(y, h) /\ y \in WrittenTo(s)
      <4>1. 1 \in 1..Line(h[1]).units
        BY <1>3, LineType
      <4> QED
        BY <1>3, <3>0, <4>1 DEF WrittenTo, Unit
    <3>2. y \notin Piped(s)
      BY <1>3, <1>5, <3>1
    <3>3. Buffered(s) = {}
      BY <1>7 DEF Buffered
    <3>4. y \in QuotedUnits(s)
      BY <3>1, <3>2, <3>3 DEF StreamInv, NothingLost
    <3>5. PICK k \in Quoted(s) : \E u \in DOMAIN combined[k] : y = combined[k][u]
      BY <3>4 DEF QuotedUnits
    <3>6. LineOf(combined[k]) = h[1] /\ Whole(s, combined[k]) /\ Beginning(combined[k])
      BY <3>5 DEF StreamInv, ByLine, Beginning
    <3>7. Len(combined[k]) = Line(h[1]).units
      BY <3>6 DEF Whole
    <3>8. DOMAIN combined[k] = 1..Len(combined[k])
      BY LenProperties, ElementOfSeq DEF Quoted, TypeOK
    <3>9. h = combined[k][h[2]] /\ h[2] \in DOMAIN combined[k]
      BY <1>3, <3>6, <3>7, <3>8 DEF Beginning
    <3>10. h \in QuotedUnits(s)
      BY <3>9 DEF QuotedUnits
    <3>11. Before(h, h)
      BY <1>2, <3>10 DEF StreamInv, InOrder
    <3> QED
      BY <1>3, <3>11 DEF Before
  <2>2. Len(buf[s]) = 0
    BY <1>7, EmptySeq
  <2> QED
    BY <1>2, <1>7, <2>1, <2>2 DEF h
<1> QED
  BY <1>6, <1>7
-----------------------------------------------------------------------------
(* Steps that move no unit of a stream keep its order.                     *)
LEMMA StreamFrame ==
  ASSUME NEW s \in Stream, StreamInv(s), UNCHANGED <<script, next, combined>>,
         pipe'[s] = pipe[s], buf'[s] = buf[s], Ended => Ended',
         reader'[s] = "scan" => reader[s] = "scan" \/ buf[s] = <<>>,
         reader'[s] \in {"load", "store"} => reader[s] \in {"load", "store"}
  PROVE  StreamInv(s)'
<1>1. /\ \A l : Line(l)' = Line(l) /\ \A t : LineOf(t)' = LineOf(t)
      /\ Quoted(s)' = Quoted(s)
  BY DEF Line, LineOf, Quoted
<1>2. /\ QuotedUnits(s)' = QuotedUnits(s) /\ Buffered(s)' = Buffered(s) /\ Piped(s)' = Piped(s)
      /\ WrittenTo(s)' = WrittenTo(s)
  BY <1>1 DEF QuotedUnits, Buffered, Piped, WrittenTo, Before, Line
<1>3. NothingLost(s)' /\ InOrder(s)'
  BY <1>1, <1>2 DEF StreamInv, NothingLost, InOrder, Before, LineOf
<1>4. \A t : Whole(s, t) => Whole(s, t)'
  BY <1>1 DEF Whole, LineOf, Line
<1>5. ByLine(s)'
  BY <1>1, <1>4 DEF StreamInv, ByLine, Beginning, LineOf
<1> QED
  BY <1>3, <1>5 DEF StreamInv

(* The child writes the unit that comes next in the order.                 *)
LEMMA ChildWriteStep ==
  ASSUME TypeOK, ChildInv, ChildWrite, NEW s \in Stream, StreamInv(s)
  PROVE  StreamInv(s)'
<1> DEFINE t == Line(next[1]).to
<1>1. /\ next = <<next[1], next[2]>> /\ next[1] \in Nat /\ next[2] \in Nat
      /\ next[1] \in DOMAIN script.lines /\ next[2] \in 1..Line(next[1]).units
      /\ Line(next[1]).units \in Nat /\ t \in Stream
  <2>1. next = <<next[1], next[2]>> /\ next[1] \in Nat /\ next[2] \in Nat
    BY DEF TypeOK, Unit
  <2>2. ~AllWritten
    BY DEF ChildWrite
  <2>3. next[1] \in 1..(Len(script.lines) + 1) /\ next[2] \in 1..Line(next[1]).units
    BY <2>2 DEF ChildInv
  <2>4. /\ Len(script.lines) \in Nat /\ DOMAIN script.lines = 1..Len(script.lines)
        /\ \A l \in DOMAIN script.lines : Line(l).units \in Nat \ {0} /\ Line(l).to \in Stream
    BY LineType
  <2>5. next[1] \in DOMAIN script.lines
    BY <2>1, <2>2, <2>3, <2>4 DEF AllWritten
  <2> QED
    BY <2>1, <2>3, <2>4, <2>5
<1>2. /\ UNCHANGED <<script, combined, buf, reader>> /\ ~Ended
      /\ pipe' = [pipe EXCEPT ![t] = Append(pipe[t], next)]
      /\ next' = IF next[2] = Line(next[1]).units THEN <<next[1] + 1, 1>>
                                                 ELSE <<next[1], next[2] + 1>>
  BY DEF ChildWrite, readers, Ended, EndsLine
<1>3. \A l : Line(l)' = Line(l)
  BY <1>2 DEF Line
<1>4. ASSUME NEW x \in Unit, x[1] \in DOMAIN script.lines, x[2] \in 1..Line(x[1]).units
      PROVE  Before(x, next') <=> (Before(x, next) \/ x = next)
  <2>1. x = <<x[1], x[2]>> /\ x[1] \in Nat /\ x[2] \in Nat /\ Line(x[1]).units \in Nat
    BY <1>4, LineType DEF Unit
  <2>2. CASE next[2] = Line(next[1]).units
    <3>1. next'[1] = next[1] + 1 /\ next'[2] = 1
      BY <1>2, <2>2
    <3> QED
      BY <1>1, <1>4, <2>1, <2>2, <3>1 DEF Before
  <2>3. CASE next[2] # Line(next[1]).units
    <3>1. next'[1] = next[1] /\ next'[2] = next[2] + 1
      BY <1>2, <2>3
    <3> QED
      BY <1>1, <1>4, <2>1, <2>3, <3>1 DEF Before
  <2> QED
    BY <2>2, <2>3
<1>5. WrittenTo(s)' = WrittenTo(s) \cup (IF s = t THEN {next} ELSE {})
  <2>1. next \in Unit
    BY DEF TypeOK
  <2> QED
    BY <1>1, <1>2, <1>3, <1>4, <2>1 DEF WrittenTo, Before
<1>6. Quoted(s)' = Quoted(s)
  BY <1>2, <1>3 DEF Quoted, LineOf
<1>7. QuotedUnits(s)' = QuotedUnits(s) /\ Buffered(s)' = Buffered(s)
  BY <1>2, <1>6 DEF QuotedUnits, Buffered
<1>8. ByLine(s)'
  <2>1. \A u : Whole(s, u) => Whole(s, u)'
    BY <1>2, <1>3 DEF Whole, LineOf
  <2> QED
    BY <1>2, <1>3, <1>6, <2>1 DEF StreamInv, ByLine, Beginning, LineOf
<1>9. CASE s = t
  <2>1. /\ pipe[s] \in Seq(Unit) /\ next \in Unit
        /\ Len(pipe[s]) \in Nat /\ DOMAIN pipe[s] = 1..Len(pipe[s])
    BY LenProperties DEF TypeOK
  <2>2. /\ pipe'[s] = Append(pipe[s], next) /\ DOMAIN pipe'[s] = 1..(Len(pipe[s]) + 1)
        /\ pipe'[s][Len(pipe[s]) + 1] = next
        /\ \A k \in DOMAIN pipe[s] : pipe'[s][k] = pipe[s][k]
    <3>1. pipe'[s] = Append(pipe[s], next)
      BY <1>2, <1>9 DEF TypeOK
    <3> QED
      BY <2>1, <3>1, AppendProperties, LenProperties
  <2>3. Piped(s)' = Piped(s) \cup {next}
    BY <2>1, <2>2 DEF Piped
  <2>4. \A x \in QuotedUnits(s) \cup Buffered(s) \cup Piped(s) : Before(x, next)
    BY UnitsWritten DEF StreamInv
  <2>5. \A j, k \in DOMAIN pipe'[s] : j < k => Before(pipe'[s][j], pipe'[s][k])
    <3> SUFFICES ASSUME NEW j \in DOMAIN pipe'[s], NEW k \in DOMAIN pipe'[s], j < k
                 PROVE  Before(pipe'[s][j], pipe'[s][k])
      OBVIOUS
    <3>1. j \in DOMAIN pipe[s] /\ pipe'[s][j] = pipe[s][j] /\ pipe[s][j] \in Piped(s)
      BY <2>1, <2>2 DEF Piped
    <3>2. CASE k = Len(pipe[s]) + 1
      BY <2>2, <2>4, <3>1, <3>2
    <3>3. CASE k \in DOMAIN pipe[s]
      BY <2>2, <3>1, <3>3 DEF StreamInv, InOrder
    <3> QED
      BY <2>1, <2>2, <3>2, <3>3
  <2>6. NothingLost(s)'
    BY <1>5, <1>7, <1>9, <2>3 DEF StreamInv, NothingLost
  <2>7. InOrder(s)'
    BY <1>2, <1>6, <1>7, <2>3, <2>4, <2>5 DEF StreamInv, InOrder, Before, LineOf
  <2> QED
    BY <1>8, <2>6, <2>7 DEF StreamInv
<1>10. CASE s # t
  <2>1. pipe'[s] = pipe[s] /\ Piped(s)' = Piped(s)
    BY <1>1, <1>2, <1>10 DEF TypeOK, Piped
  <2>2. NothingLost(s)' /\ InOrder(s)'
    BY <1>2, <1>5, <1>6, <1>7, <1>10, <2>1 DEF StreamInv, NothingLost, InOrder, Before, LineOf
  <2> QED
    BY <1>8, <2>2 DEF StreamInv
<1> QED
  BY <1>9, <1>10

(* A goroutine takes a unit from the pipe into its buffer.                 *)
LEMMA ScanStep ==
  ASSUME TypeOK, NEW s \in Stream, Scan(s), StreamInv(s)
  PROVE  StreamInv(s)'
<1> DEFINE h == Head(pipe[s])
           n == Len(buf[s])
<1>1. /\ reader[s] = "scan" /\ pipe[s] # <<>>
      /\ UNCHANGED <<script, next, combined, child>>
      /\ pipe'[s] = Tail(pipe[s]) /\ buf'[s] = Append(buf[s], h)
      /\ reader'[s] = IF h[2] = Line(h[1]).units THEN "load" ELSE "scan"
  BY DEF Scan, EndsLine, TypeOK
<1>2. h \in Piped(s) /\ h[2] = n + 1 /\ (buf[s] # <<>> => h[1] = LineOf(buf[s]))
  BY <1>1, HeadContinues
<1>3. /\ h \in Unit /\ h = <<h[1], h[2]>> /\ h[1] \in DOMAIN script.lines /\ h[1] \in Nat
      /\ h[2] \in 1..Line(h[1]).units /\ Line(h[1]).units \in Nat
  BY <1>2, UnitsWritten, LineType DEF StreamInv
<1>4. /\ pipe[s] \in Seq(Unit) /\ Len(pipe[s]) \in Nat \ {0} /\ DOMAIN pipe[s] = 1..Len(pipe[s])
      /\ h = pipe[s][1]
      /\ DOMAIN pipe'[s] = 1..(Len(pipe[s]) - 1)
      /\ \A k \in DOMAIN pipe'[s] : pipe'[s][k] = pipe[s][k + 1]
  <2>1. pipe[s] \in Seq(Unit) /\ Len(pipe[s]) \in Nat \ {0} /\ DOMAIN pipe[s] = 1..Len(pipe[s])
    BY <1>1, EmptySeq, LenProperties DEF TypeOK
  <2>2. /\ Head(pipe[s]) = pipe[s][1]
        /\ pipe'[s] \in Seq(Unit) /\ Len(pipe'[s]) = Len(pipe[s]) - 1
        /\ \A k \in 1..Len(pipe'[s]) : pipe'[s][k] = pipe[s][k + 1]
    BY <1>1, <2>1, HeadTailProperties
  <2>3. DOMAIN pipe'[s] = 1..Len(pipe'[s])
    BY <2>2, LenProperties
  <2> QED
    BY <2>1, <2>2, <2>3
<1>5. /\ n \in Nat /\ DOMAIN buf[s] = 1..n /\ DOMAIN buf'[s] = 1..(n + 1) /\ Len(buf'[s]) = n + 1
      /\ buf'[s][n + 1] = h
      /\ \A k \in 1..n : buf'[s][k] = buf[s][k]
  BY <1>1, <1>3, AppendProperties, LenProperties DEF TypeOK
<1> HIDE DEF h, n
<1>6. \A l : Line(l)' = Line(l)
  BY <1>1 DEF Line
<1>7. Quoted(s)' = Quoted(s)
  BY <1>1, <1>6 DEF Quoted, LineOf
<1>8. QuotedUnits(s)' = QuotedUnits(s) /\ WrittenTo(s)' = WrittenTo(s)
  BY <1>1, <1>6, <1>7 DEF QuotedUnits, WrittenTo, Before
<1>9. Piped(s) = {h} \cup Piped(s)'
  <2>1. \A k \in DOMAIN pipe[s] : k = 1 \/ (k - 1 \in DOMAIN pipe'[s] /\ pipe[s][k] = pipe'[s][k - 1])
    BY <1>4
  <2>2. \A k \in DOMAIN pipe'[s] : k + 1 \in DOMAIN pipe[s]
    BY <1>4
  <2>3. Piped(s) \subseteq {h} \cup Piped(s)'
    <3> SUFFICES ASSUME NEW k \in DOMAIN pipe[s]
                 PROVE  pipe[s][k] \in {h} \cup Piped(s)'
      BY DEF Piped
    <3>1. CASE k = 1
      BY <1>4, <3>1
    <3>2. CASE k # 1
      BY <2>1, <3>2 DEF Piped
    <3> QED
      BY <3>1, <3>2
  <2>4. Piped(s)' \subseteq Piped(s)
    <3> SUFFICES ASSUME NEW k \in DOMAIN pipe'[s]
                 PROVE  pipe'[s][k] \in Piped(s)
      BY DEF Piped
    <3> QED
      BY <1>4, <2>2 DEF Piped
  <2> QED
    BY <1>2, <2>3, <2>4
<1>10. Buffered(s)' = Buffered(s) \cup {h}
  BY <1>5 DEF Buffered
<1>11. \A y \in Piped(s)' : Before(h, y)
  <2> SUFFICES ASSUME NEW k \in DOMAIN pipe'[s]
               PROVE  Before(h, pipe'[s][k])
    BY DEF Piped
  <2>1. 1 \in DOMAIN pipe[s] /\ k + 1 \in DOMAIN pipe[s] /\ 1 < k + 1
    BY <1>4
  <2> QED
    BY <1>4, <2>1 DEF StreamInv, InOrder
<1>12. \A j, k \in DOMAIN pipe'[s] : j < k => Before(pipe'[s][j], pipe'[s][k])
  <2> SUFFICES ASSUME NEW j \in DOMAIN pipe'[s], NEW k \in DOMAIN pipe'[s], j < k
               PROVE  Before(pipe'[s][j], pipe'[s][k])
    OBVIOUS
  <2>1. j + 1 \in DOMAIN pipe[s] /\ k + 1 \in DOMAIN pipe[s] /\ j + 1 < k + 1
    BY <1>4
  <2> QED
    BY <1>4, <2>1 DEF StreamInv, InOrder
<1>13. NothingLost(s)'
  BY <1>8, <1>9, <1>10 DEF StreamInv, NothingLost
<1>14. InOrder(s)'
  <2>1. \A x \in QuotedUnits(s), y \in Buffered(s) \cup Piped(s) : Before(x, y)
    BY DEF StreamInv, InOrder
  <2>2. \A x \in Buffered(s), y \in Piped(s) : Before(x, y)
    BY DEF StreamInv, InOrder
  <2>3. \A j, k \in Quoted(s) : j < k => LineOf(combined[j]) < LineOf(combined[k])
    BY DEF StreamInv, InOrder
  <2> QED
    BY <1>1, <1>2, <1>7, <1>8, <1>9, <1>10, <1>11, <1>12, <2>1, <2>2, <2>3
    DEF InOrder, Before, LineOf
<1>15. ByLine(s)'
  <2>1. buf'[s] # <<>> /\ LineOf(buf'[s]) = h[1] /\ \A k \in 1..(n + 1) : buf'[s][k] = <<h[1], k>>
    <3>1. CASE buf[s] = <<>>
      <4>1. n = 0
        BY <3>1, EmptySeq DEF n
      <4> QED
        BY <1>2, <1>3, <1>5, <4>1, EmptySeq DEF LineOf
    <3>2. CASE buf[s] # <<>>
      <4> DEFINE l == LineOf(buf[s])
      <4>1. n \in Nat \ {0} /\ \A k \in 1..n : buf[s][k] = <<l, k>>
        BY <3>2, BufferBegins DEF n
      <4>2. h[1] = l
        BY <1>2, <3>2
      <4> HIDE DEF l
      <4>3. \A k \in 1..(n + 1) : buf'[s][k] = <<h[1], k>>
        BY <1>2, <1>3, <1>5, <4>1, <4>2
      <4>4. 1 \in 1..(n + 1) /\ 1 \in DOMAIN buf'[s]
        BY <1>5, <4>1
      <4> QED
        BY <4>3, <4>4, EmptySeq DEF LineOf
    <3> QED
      BY <3>1, <3>2
  <2>2. reader'[s] = "scan" => Len(buf'[s]) < Line(LineOf(buf'[s])).units
    BY <1>1, <1>2, <1>3, <1>5, <2>1
  <2>3. reader'[s] \in {"load", "store"} => Len(buf'[s]) = Line(LineOf(buf'[s])).units
    BY <1>1, <1>2, <1>5, <2>1
  <2>4. \A k \in Quoted(s) : Whole(s, combined[k]) => Whole(s, combined[k])'
    BY <1>1, <1>6 DEF Whole, LineOf
  <2>5. Beginning(buf[s])'
    BY <1>5, <2>1 DEF Beginning, LineOf
  <2>6. reader'[s] \in {"load", "store"} => Whole(s, buf[s])'
    BY <1>6, <2>3 DEF Whole, LineOf
  <2> QED
    BY <1>1, <1>6, <1>7, <2>1, <2>2, <2>4, <2>5, <2>6 DEF StreamInv, ByLine, Beginning, LineOf
<1> QED
  BY <1>13, <1>14, <1>15 DEF StreamInv

(* The end of the output ends the last line, within which a signal ended   *)
(* the child: the buffer would hold more of a line that was written whole. *)
LEMMA EndStep ==
  ASSUME TypeOK, NEW s \in Stream, EndOfOutput(s), StreamInv(s)
  PROVE  StreamInv(s)'
<1>1. /\ reader[s] = "scan" /\ pipe[s] = <<>> /\ Ended /\ Ended'
      /\ UNCHANGED <<script, next, combined, child, pipe, buf>>
      /\ reader'[s] = IF buf[s] = <<>> THEN "done" ELSE "load"
  BY DEF EndOfOutput, Ended, TypeOK
<1>2. CASE buf[s] = <<>>
  BY <1>1, <1>2, StreamFrame
<1>3. CASE buf[s] # <<>>
  <2> DEFINE l == LineOf(buf[s])
             n == Len(buf[s])
             y == <<l, n + 1>>
  <2>1. /\ n \in Nat \ {0} /\ l \in DOMAIN script.lines /\ l \in Nat /\ Line(l).to = s
        /\ <<l, 1>> \in Buffered(s) /\ <<l, n>> \in Buffered(s)
        /\ Buffered(s) = {<<l, k>> : k \in 1..n}
        /\ Line(l).units \in Nat
    BY <1>3, BufferBegins
  <2>2. n < Line(l).units
    BY <1>1, <1>3 DEF StreamInv, ByLine
  <2>3. next[1] \in Nat /\ next[2] \in Nat
    BY DEF TypeOK, Unit
  <2> HIDE DEF l, n
  <2>4. Before(<<l, n>>, next)
    <3>1. \A x \in Buffered(s) : Before(x, next)
      BY UnitsWritten DEF StreamInv
    <3> QED
      BY <2>1, <3>1
  <2>5. y \notin WrittenTo(s)
    <3>1. y \notin Buffered(s)
      BY <2>1
    <3>2. y \notin QuotedUnits(s)
      <4>1. ~Before(y, <<l, 1>>)
        BY <2>1 DEF Before
      <4> QED
        BY <2>1, <4>1 DEF StreamInv, InOrder
    <3>3. Piped(s) = {}
      BY <1>1 DEF Piped
    <3> QED
      BY <3>1, <3>2, <3>3 DEF StreamInv, NothingLost
  <2>6. ~(l < next[1])
    BY <2>1, <2>2, <2>3, <2>5 DEF WrittenTo, Before, Unit
  <2>7. l = next[1]
    BY <2>1, <2>3, <2>4, <2>6 DEF Before
  <2>8. Whole(s, buf[s])
    BY <1>1, <2>7 DEF Whole, l
  <2>9. QuotedUnits(s)' = QuotedUnits(s) /\ Buffered(s)' = Buffered(s) /\ Piped(s)' = Piped(s)
        /\ WrittenTo(s)' = WrittenTo(s) /\ Quoted(s)' = Quoted(s)
    BY <1>1 DEF QuotedUnits, Buffered, Piped, WrittenTo, Quoted, Before, Line, LineOf
  <2>10. NothingLost(s)' /\ InOrder(s)'
    BY <1>1, <2>9 DEF StreamInv, NothingLost, InOrder, Before, LineOf
  <2>11. \A t : Whole(s, t) => Whole(s, t)'
    BY <1>1 DEF Whole, LineOf, Line
  <2>12. reader'[s] = "load"
    BY <1>1, <1>3
  <2>13. ByLine(s)'
    BY <1>1, <1>3, <2>8, <2>9, <2>11, <2>12 DEF StreamInv, ByLine, Beginning, LineOf, Line
  <2> QED
    BY <2>10, <2>13 DEF StreamInv
<1> QED
  BY <1>2, <1>3

(* A goroutine appends the line in its buffer to the list.                 *)
LEMMA StoreStep ==
  ASSUME TypeOK, NEW s \in Stream, Store(s), StreamInv(s)
  PROVE  StreamInv(s)'
<1> DEFINE b == buf[s]
           m == Len(combined) + 1
<1>1. /\ reader[s] = "store" /\ reader'[s] = "scan"
      /\ UNCHANGED <<script, next, child, pipe>>
      /\ combined' = Append(combined, b) /\ buf'[s] = <<>>
  BY DEF Store, TypeOK
<1>2. b # <<>> /\ Whole(s, b) /\ Beginning(b)
  BY <1>1 DEF StreamInv, ByLine
<1>3. /\ LineOf(b) \in DOMAIN script.lines /\ LineOf(b) \in Nat /\ Line(LineOf(b)).to = s
      /\ <<LineOf(b), 1>> \in Buffered(s)
  BY <1>2, BufferBegins
<1>4. /\ m \in Nat \ {0} /\ DOMAIN combined = 1..(m - 1) /\ DOMAIN combined' = 1..m
      /\ combined'[m] = b
      /\ \A k \in DOMAIN combined : combined'[k] = combined[k]
  <2>1. combined \in Seq(Seq(Unit)) /\ b \in Seq(Unit)
    BY DEF TypeOK
  <2> QED
    BY <1>1, <2>1, AppendProperties, LenProperties
<1> HIDE DEF b, m
<1>5. /\ \A l : Line(l)' = Line(l) /\ \A u : LineOf(u)' = LineOf(u)
      /\ \A u : Whole(s, u) => Whole(s, u)'
  BY <1>1 DEF Line, LineOf, Whole, Ended
<1>6. Quoted(s)' = Quoted(s) \cup {m}
  <2>0. Quoted(s)' = {k \in DOMAIN combined' : Line(LineOf(combined'[k])).to = s}
    BY <1>1 DEF Quoted, Line, LineOf
  <2>1. \A k \in DOMAIN combined : k \in Quoted(s)' <=> k \in Quoted(s)
    BY <1>4, <2>0 DEF Quoted
  <2>2. m \in Quoted(s)'
    BY <1>3, <1>4, <2>0
  <2>3. DOMAIN combined' = DOMAIN combined \cup {m}
    BY <1>4
  <2>4. Quoted(s)' \subseteq DOMAIN combined' /\ Quoted(s) \subseteq DOMAIN combined
    BY DEF Quoted
  <2> QED
    BY <2>1, <2>2, <2>3, <2>4
<1>7. Quoted(s) \subseteq DOMAIN combined /\ m \notin DOMAIN combined
  BY <1>4 DEF Quoted
<1>8. QuotedUnits(s)' = QuotedUnits(s) \cup Buffered(s)
  <2>1. \A k \in Quoted(s) : combined'[k] = combined[k]
    BY <1>4, <1>7
  <2>2. Buffered(s) = {combined'[m][u] : u \in DOMAIN combined'[m]}
    BY <1>4 DEF Buffered, b
  <2>3. QuotedUnits(s)' = UNION {{combined'[k][u] : u \in DOMAIN combined'[k]} : k \in Quoted(s)'}
    BY DEF QuotedUnits
  <2> QED
    BY <1>6, <2>1, <2>2, <2>3 DEF QuotedUnits
<1>9. /\ Buffered(s)' = {} /\ Piped(s)' = Piped(s) /\ WrittenTo(s)' = WrittenTo(s)
  BY <1>1, <1>5 DEF Buffered, Piped, WrittenTo, Before
<1>10. NothingLost(s)'
  BY <1>8, <1>9 DEF StreamInv, NothingLost
<1>11. ASSUME NEW j \in Quoted(s)
       PROVE  LineOf(combined[j]) < LineOf(b)
  <2>1. combined[j] # <<>> /\ Beginning(combined[j])
    BY DEF StreamInv, ByLine
  <2>2. combined[j] \in Seq(Unit) /\ 1 \in DOMAIN combined[j]
    <3>1. combined[j] \in Seq(Unit)
      BY <1>7, ElementOfSeq, LenProperties DEF TypeOK
    <3> QED
      BY <2>1, <3>1, EmptySeq, LenProperties
  <2>3. combined[j][1] = <<LineOf(combined[j]), 1>> /\ combined[j][1] \in QuotedUnits(s)
    BY <2>1, <2>2 DEF Beginning, QuotedUnits
  <2>4. Before(<<LineOf(combined[j]), 1>>, <<LineOf(b), 1>>)
    BY <1>3, <2>3 DEF StreamInv, InOrder
  <2> QED
    BY <2>4 DEF Before
<1>12. InOrder(s)'
  <2>1. \A x \in QuotedUnits(s)', y \in Buffered(s)' \cup Piped(s)' : Before(x, y)
    BY <1>8, <1>9 DEF StreamInv, InOrder
  <2>2. \A i, j \in DOMAIN pipe'[s] : i < j => Before(pipe'[s][i], pipe'[s][j])
    BY <1>1 DEF StreamInv, InOrder
  <2>3. \A i, j \in Quoted(s)' : i < j => LineOf(combined'[i]) < LineOf(combined'[j])
    <3> SUFFICES ASSUME NEW i \in Quoted(s)', NEW j \in Quoted(s)', i < j
                 PROVE  LineOf(combined'[i]) < LineOf(combined'[j])
      OBVIOUS
    <3>1. i \in Quoted(s) /\ combined'[i] = combined[i]
      BY <1>4, <1>6, <1>7
    <3>2. CASE j = m
      BY <1>4, <1>11, <3>1, <3>2
    <3>3. CASE j \in Quoted(s)
      BY <1>4, <1>7, <3>1, <3>3 DEF StreamInv, InOrder
    <3> QED
      BY <1>6, <3>2, <3>3
  <2> QED
    BY <1>9, <2>1, <2>2, <2>3 DEF InOrder, Before, LineOf
<1>13. ByLine(s)'
  <2>1. \A k \in Quoted(s)' :
          combined'[k] # <<>> /\ Beginning(combined'[k]) /\ Whole(s, combined'[k])
    <3> SUFFICES ASSUME NEW k \in Quoted(s)'
                 PROVE  combined'[k] # <<>> /\ Beginning(combined'[k]) /\ Whole(s, combined'[k])
      OBVIOUS
    <3>1. CASE k = m
      BY <1>2, <1>4, <3>1
    <3>2. CASE k \in Quoted(s)
      BY <1>4, <1>7, <3>2 DEF StreamInv, ByLine
    <3> QED
      BY <1>6, <3>1, <3>2
  <2>2. Beginning(buf'[s])
    BY <1>1 DEF Beginning
  <2> QED
    BY <1>1, <2>1, <2>2 DEF ByLine, Beginning, LineOf, Whole, Line, Ended
<1> QED
  BY <1>10, <1>12, <1>13 DEF StreamInv

(* The other goroutine's line is of the other stream.                      *)
LEMMA StoreElsewhere ==
  ASSUME TypeOK, NEW s \in Stream, NEW t \in Stream, t # s, Store(t), StreamInv(s), StreamInv(t)
  PROVE  StreamInv(s)'
<1>1. /\ UNCHANGED <<script, next, child, pipe>>
      /\ buf'[s] = buf[s] /\ reader'[s] = reader[s]
      /\ combined' = Append(combined, buf[t])
      /\ buf[t] # <<>>
  BY DEF Store, TypeOK, StreamInv, ByLine
<1>2. Line(LineOf(buf[t])).to = t
  BY <1>1, BufferBegins
<1>3. /\ DOMAIN combined' = DOMAIN combined \cup {Len(combined) + 1}
      /\ combined'[Len(combined) + 1] = buf[t]
      /\ \A k \in DOMAIN combined : combined'[k] = combined[k]
  <2>1. combined \in Seq(Seq(Unit)) /\ buf[t] \in Seq(Unit)
    BY DEF TypeOK
  <2>2. /\ DOMAIN combined = 1..Len(combined) /\ DOMAIN combined' = 1..(Len(combined) + 1)
        /\ Len(combined) \in Nat
        /\ combined'[Len(combined) + 1] = buf[t]
        /\ \A k \in DOMAIN combined : combined'[k] = combined[k]
    BY <1>1, <2>1, AppendProperties, LenProperties
  <2> QED
    BY <2>2
<1>4. /\ \A l : Line(l)' = Line(l) /\ \A u : LineOf(u)' = LineOf(u)
      /\ \A u : Whole(s, u) => Whole(s, u)'
  BY <1>1 DEF Line, LineOf, Whole, Ended
<1>5. Quoted(s)' = Quoted(s) /\ \A k \in Quoted(s) : combined'[k] = combined[k]
  <2>1. Quoted(s)' = {k \in DOMAIN combined' : Line(LineOf(combined'[k])).to = s}
    BY <1>1 DEF Quoted, Line, LineOf
  <2> QED
    BY <1>2, <1>3, <2>1 DEF Quoted
<1>6. /\ QuotedUnits(s)' = QuotedUnits(s) /\ Buffered(s)' = Buffered(s) /\ Piped(s)' = Piped(s)
      /\ WrittenTo(s)' = WrittenTo(s)
  <2>1. QuotedUnits(s)' = UNION {{combined'[k][u] : u \in DOMAIN combined'[k]} : k \in Quoted(s)'}
    BY DEF QuotedUnits
  <2>2. QuotedUnits(s)' = QuotedUnits(s)
    BY <1>5, <2>1 DEF QuotedUnits
  <2> QED
    BY <1>1, <1>4, <2>2 DEF Buffered, Piped, WrittenTo, Before
<1>7. NothingLost(s)' /\ InOrder(s)'
  <2>1. \A j, k \in Quoted(s)' : j < k => LineOf(combined'[j]) < LineOf(combined'[k])
    BY <1>5 DEF StreamInv, InOrder
  <2>2. /\ \A x \in QuotedUnits(s), y \in Buffered(s) \cup Piped(s) : Before(x, y)
        /\ \A x \in Buffered(s), y \in Piped(s) : Before(x, y)
        /\ \A j, k \in DOMAIN pipe'[s] : j < k => Before(pipe'[s][j], pipe'[s][k])
    BY <1>1 DEF StreamInv, InOrder
  <2>3. InOrder(s)'
    BY <1>6, <2>1, <2>2 DEF InOrder, Before, LineOf
  <2> QED
    BY <1>6, <2>2, <2>3 DEF StreamInv, NothingLost
<1>8. ByLine(s)'
  <2>1. \A k \in Quoted(s)' :
          combined'[k] # <<>> /\ Beginning(combined'[k]) /\ Whole(s, combined'[k])
    BY <1>5 DEF StreamInv, ByLine
  <2>2. /\ Beginning(buf'[s])
        /\ reader'[s] = "scan" /\ buf'[s] # <<>> => Len(buf'[s]) < Line(LineOf(buf'[s])).units
        /\ reader'[s] \in {"load", "store"} => buf'[s] # <<>> /\ Whole(s, buf'[s])
    BY <1>1 DEF StreamInv, ByLine
  <2> QED
    BY <1>1, <2>1, <2>2 DEF ByLine, Beginning, LineOf, Whole, Line, Ended
<1> QED
  BY <1>7, <1>8 DEF StreamInv

-----------------------------------------------------------------------------
Inv ==
  /\ TypeOK
  /\ ChildInv
  /\ \A s \in Stream : StreamInv(s)
  /\ DoneInv
  /\ ExecInv

(* Before the command runs.                                                *)
LEMMA InitInv == Init => Inv
<1> SUFFICES ASSUME Init
             PROVE  Inv
  OBVIOUS
<1>1. TypeOK
  <2>1. <<>> \in Seq(Unit) /\ Len(<<>>) = 0 /\ <<>> \in Seq(Seq(Unit)) /\ next \in Unit
    BY DEF Init, Unit
  <2>2. Contexts \subseteq {"none", "live"} /\ PipeSize \in Nat /\ MaxToken \in Nat
    BY ConstantsAssumption
  <2> QED
    <3>1. /\ pipe \in [Stream -> Seq(Unit)] /\ buf \in [Stream -> Seq(Unit)]
          /\ \A s \in Stream : Len(pipe[s]) = 0 /\ Len(buf[s]) = 0
      BY <2>1 DEF Init
    <3>2. \A s \in Stream : Len(pipe[s]) <= PipeSize /\ Len(buf[s]) <= MaxToken
      BY <2>2, <3>1
    <3>3. /\ script \in Scripts /\ ctx \in {"none", "live", "done"} /\ child = "none"
          /\ reader \in [Stream -> {"none", "scan", "load", "store", "done"}]
          /\ seen \in [Stream -> Nat] /\ combined \in Seq(Seq(Unit)) /\ garbled = FALSE
          /\ pc = "start" /\ result = "none"
      BY <2>1, <2>2 DEF Init
    <3> QED
      BY <2>1, <3>1, <3>2, <3>3 DEF TypeOK
<1>2. /\ Len(script.lines) \in Nat /\ DOMAIN script.lines = 1..Len(script.lines)
      /\ \A l \in DOMAIN script.lines : Line(l).units \in Nat \ {0}
  BY <1>1, LineType
<1>3. ChildInv
  BY <1>2 DEF Init, ChildInv, AllWritten
<1>4. ASSUME NEW s \in Stream
      PROVE  StreamInv(s)
  <2>1. pipe[s] = <<>> /\ buf[s] = <<>> /\ combined = <<>> /\ reader[s] = "none" /\ next = <<1, 1>>
    BY DEF Init
  <2>2. Quoted(s) = {} /\ QuotedUnits(s) = {} /\ Buffered(s) = {} /\ Piped(s) = {}
    BY <2>1 DEF Quoted, QuotedUnits, Buffered, Piped
  <2>3. WrittenTo(s) = {}
    <3>1. ASSUME NEW x \in WrittenTo(s)
          PROVE  FALSE
      <4>1. x[1] \in 1..Len(script.lines) /\ x[2] \in 1..Line(x[1]).units /\ Line(x[1]).units \in Nat
        BY <1>2 DEF WrittenTo
      <4>2. x[1] < 1 \/ (x[1] = 1 /\ x[2] < 1)
        BY <2>1 DEF WrittenTo, Before
      <4> QED
        BY <1>2, <4>1, <4>2
    <3> QED
      BY <3>1
  <2> QED
    BY <2>1, <2>2, <2>3 DEF StreamInv, NothingLost, InOrder, ByLine, Beginning
<1>5. DoneInv /\ ExecInv
  BY DEF Init, DoneInv, ExecInv, OkMeansAccepted
<1> QED
  BY <1>1, <1>3, <1>4, <1>5 DEF Inv

(* Each variable keeps its type; a pipe and a buffer keep their bounds.    *)
LEMMA TypeStep ==
  ASSUME Inv, [Next]_vars
  PROVE  TypeOK'
<1> USE DEF Inv
<1>1. PipeSize \in Nat /\ MaxToken \in Nat
  BY ConstantsAssumption
<1>2. CASE Start
  BY <1>2 DEF Start, TypeOK
<1>3. CASE StartFails
  BY <1>3 DEF StartFails, readers, TypeOK
<1>4. CASE ChildWrite
  <2> DEFINE t == Line(next[1]).to
  <2>1. t \in Stream
    BY <1>4, LineType DEF ChildInv, ChildWrite, AllWritten
  <2>2. next' \in Unit
    BY <1>4 DEF ChildWrite, TypeOK, Unit
  <2>3. Append(pipe[t], next) \in Seq(Unit) /\ Len(Append(pipe[t], next)) = Len(pipe[t]) + 1
    BY <2>1, AppendProperties DEF TypeOK
  <2>4. /\ Len(pipe[t]) < PipeSize /\ pipe' = [pipe EXCEPT ![t] = Append(pipe[t], next)]
        /\ Len(pipe[t]) \in Nat
    BY <1>4, <2>1, LenProperties DEF ChildWrite, TypeOK
  <2>5. pipe' \in [Stream -> Seq(Unit)]
    BY <2>1, <2>3, <2>4 DEF TypeOK
  <2>6. \A s \in Stream : Len(pipe'[s]) <= PipeSize
    BY <1>1, <2>1, <2>3, <2>4 DEF TypeOK
  <2> QED
    BY <1>4, <2>2, <2>5, <2>6 DEF ChildWrite, readers, TypeOK
<1>5. CASE ChildExit \/ Kill \/ SignalFromOutside
  BY <1>5 DEF ChildExit, Kill, SignalFromOutside, readers, TypeOK
<1>6. CASE ContextDone
  BY <1>6 DEF ContextDone, readers, TypeOK
<1>7. ASSUME NEW s \in Stream, Scan(s)
      PROVE  TypeOK'
  <2>1. /\ pipe[s] \in Seq(Unit) /\ pipe[s] # <<>> /\ buf[s] \in Seq(Unit) /\ Len(buf[s]) < MaxToken
        /\ Len(buf[s]) \in Nat /\ Len(pipe[s]) \in Nat /\ Len(pipe[s]) <= PipeSize
    BY <1>7, LenProperties DEF Scan, TypeOK
  <2>2. Tail(pipe[s]) \in Seq(Unit) /\ Head(pipe[s]) \in Unit /\ Len(Tail(pipe[s])) = Len(pipe[s]) - 1
    BY <2>1, HeadTailProperties
  <2>3. /\ Append(buf[s], Head(pipe[s])) \in Seq(Unit)
        /\ Len(Append(buf[s], Head(pipe[s]))) = Len(buf[s]) + 1
    BY <2>1, <2>2, AppendProperties
  <2>4. pipe' = [pipe EXCEPT ![s] = Tail(pipe[s])] /\ buf' = [buf EXCEPT ![s] = Append(buf[s], Head(pipe[s]))]
    BY <1>7 DEF Scan
  <2>5. pipe' \in [Stream -> Seq(Unit)] /\ \A t \in Stream : Len(pipe'[t]) <= PipeSize
    BY <1>1, <2>1, <2>2, <2>4 DEF TypeOK
  <2>6. buf' \in [Stream -> Seq(Unit)] /\ \A t \in Stream : Len(buf'[t]) <= MaxToken
    BY <1>1, <2>1, <2>3, <2>4 DEF TypeOK
  <2> QED
    BY <1>7, <2>5, <2>6 DEF Scan, TypeOK
<1>8. ASSUME NEW s \in Stream, LineTooLong(s) \/ EndOfOutput(s)
      PROVE  TypeOK'
  BY <1>8 DEF LineTooLong, EndOfOutput, TypeOK
<1>9. ASSUME NEW s \in Stream, Load(s)
      PROVE  TypeOK'
  <2>1. Len(combined) \in Nat
    BY LenProperties DEF TypeOK
  <2> QED
    BY <1>9, <2>1 DEF Load, TypeOK
<1>10. ASSUME NEW s \in Stream, Store(s)
       PROVE  TypeOK'
  <2>1. Append(combined, buf[s]) \in Seq(Seq(Unit)) /\ <<>> \in Seq(Unit) /\ Len(<<>>) = 0
    BY AppendProperties DEF TypeOK
  <2> QED
    <3>1. /\ combined' \in Seq(Seq(Unit)) /\ garbled' \in BOOLEAN
          /\ buf' \in [Stream -> Seq(Unit)] /\ reader' \in [Stream -> {"none", "scan", "load", "store", "done"}]
      BY <1>10, <2>1 DEF Store, TypeOK
    <3>2. \A t \in Stream : Len(buf'[t]) <= MaxToken
      BY <1>1, <1>10, <2>1 DEF Store, TypeOK
    <3> QED
      BY <1>10, <3>1, <3>2 DEF Store, TypeOK
<1>11. CASE WaitForReaders
  BY <1>11 DEF WaitForReaders, readers, TypeOK
<1>12. CASE Reap
  BY <1>12 DEF Reap, Outcome, readers, TypeOK
<1>13. CASE UNCHANGED vars
  BY <1>13 DEF vars, readers, TypeOK
<1> QED
  BY <1>2, <1>3, <1>4, <1>5, <1>6, <1>7, <1>8, <1>9, <1>10, <1>11, <1>12, <1>13 DEF Next, Read

(* Each stream stays complete and in order, whoever moves.                 *)
LEMMA StreamStep ==
  ASSUME Inv, [Next]_vars, NEW s \in Stream
  PROVE  StreamInv(s)'
<1> USE DEF Inv
<1>1. CASE Start
  <2>1. buf[s] = <<>> /\ ~Ended
    BY <1>1 DEF Start, ExecInv, Ended
  <2> QED
    BY <1>1, <2>1, StreamFrame DEF Start, TypeOK
<1>2. CASE StartFails \/ ContextDone \/ WaitForReaders \/ Reap \/ UNCHANGED vars
  <2>1. UNCHANGED <<script, next, combined, pipe, buf, reader, child>>
    BY <1>2 DEF StartFails, ContextDone, WaitForReaders, Reap, vars, readers
  <2> QED
    BY <2>1, StreamFrame DEF Ended
<1>3. CASE ChildExit \/ Kill \/ SignalFromOutside
  <2>1. UNCHANGED <<script, next, combined, pipe, buf, reader>> /\ ~Ended
    BY <1>3 DEF ChildExit, Kill, SignalFromOutside, readers, Ended
  <2> QED
    BY <2>1, StreamFrame
<1>4. CASE ChildWrite
  BY <1>4, ChildWriteStep
<1>5. ASSUME NEW t \in Stream, Read(t), t # s
      PROVE  StreamInv(s)'
  <2>1. CASE Store(t)
    BY <1>5, <2>1, StoreElsewhere
  <2>2. CASE Scan(t) \/ LineTooLong(t) \/ EndOfOutput(t) \/ Load(t)
    <3>1. /\ UNCHANGED <<script, next, combined, child>>
          /\ pipe'[s] = pipe[s] /\ buf'[s] = buf[s] /\ reader'[s] = reader[s]
      BY <1>5, <2>2 DEF Scan, LineTooLong, EndOfOutput, Load, TypeOK
    <3> QED
      BY <3>1, StreamFrame DEF Ended
  <2> QED
    BY <1>5, <2>1, <2>2 DEF Read
<1>6. CASE Scan(s)
  BY <1>6, ScanStep
<1>7. CASE LineTooLong(s) \/ Load(s)
  <2>1. /\ UNCHANGED <<script, next, combined, child, pipe, buf>>
        /\ reader'[s] = "done" \/ (reader[s] = "load" /\ reader'[s] = "store")
    BY <1>7 DEF LineTooLong, Load, TypeOK
  <2> QED
    BY <2>1, StreamFrame DEF Ended
<1>8. CASE EndOfOutput(s)
  BY <1>8, EndStep
<1>9. CASE Store(s)
  BY <1>9, StoreStep
<1> QED
  BY <1>1, <1>2, <1>3, <1>4, <1>5, <1>6, <1>7, <1>8, <1>9 DEF Next, Read

(* The child goes through its lines; only whole buffers join the list.     *)
LEMMA ChildStep ==
  ASSUME Inv, [Next]_vars
  PROVE  ChildInv'
<1> USE DEF Inv
<1>1. CASE ChildWrite
  <2>1. /\ next[1] \in DOMAIN script.lines /\ next[1] \in Nat /\ next[2] \in Nat
        /\ DOMAIN script.lines = 1..Len(script.lines) /\ Len(script.lines) \in Nat
        /\ \A l \in DOMAIN script.lines : Line(l).units \in Nat \ {0}
        /\ next[2] \in 1..Line(next[1]).units
    BY <1>1, LineType DEF ChildInv, ChildWrite, AllWritten, TypeOK, Unit
  <2>2. UNCHANGED <<script, combined>> /\ \A l : Line(l)' = Line(l)
    BY <1>1 DEF ChildWrite, readers, Line
  <2>3. CASE EndsLine(next)
    <3>1. next'[1] = next[1] + 1 /\ next'[2] = 1
      BY <1>1, <2>3 DEF ChildWrite
    <3>2. /\ next'[1] \in 1..(Len(script.lines) + 1)
          /\ next'[1] > Len(script.lines) \/ next'[1] \in DOMAIN script.lines
      BY <2>1, <3>1
    <3> QED
      BY <2>1, <2>2, <3>1, <3>2 DEF ChildInv, AllWritten, LineOf, Line
  <2>4. CASE ~EndsLine(next)
    <3>1. next'[1] = next[1] /\ next'[2] = next[2] + 1
      BY <1>1, <2>4 DEF ChildWrite
    <3>2. next'[2] \in 1..Line(next[1]).units
      BY <2>1, <2>4, <3>1 DEF EndsLine
    <3> QED
      BY <2>1, <2>2, <3>1, <3>2 DEF ChildInv, AllWritten, LineOf, Line
  <2> QED
    BY <2>3, <2>4
<1>2. ASSUME NEW s \in Stream, Store(s)
      PROVE  ChildInv'
  <2>1. UNCHANGED <<script, next>> /\ combined' = Append(combined, buf[s]) /\ buf[s] # <<>>
    BY <1>2 DEF Store, StreamInv, ByLine
  <2>2. LineOf(buf[s]) \in DOMAIN script.lines
    BY <2>1, BufferBegins
  <2>3. combined \in Seq(Seq(Unit)) /\ buf[s] \in Seq(Unit)
    BY DEF TypeOK
  <2>4. /\ DOMAIN combined = 1..Len(combined) /\ DOMAIN combined' = 1..(Len(combined) + 1)
        /\ Len(combined) \in Nat
        /\ combined'[Len(combined) + 1] = buf[s]
        /\ \A k \in DOMAIN combined : combined'[k] = combined[k]
    BY <2>1, <2>3, AppendProperties, LenProperties
  <2>5. \A k \in DOMAIN combined' : combined'[k] # <<>> /\ LineOf(combined'[k]) \in DOMAIN script.lines
    <3> SUFFICES ASSUME NEW k \in DOMAIN combined'
                 PROVE  combined'[k] # <<>> /\ LineOf(combined'[k]) \in DOMAIN script.lines
      OBVIOUS
    <3>1. k \in DOMAIN combined \/ k = Len(combined) + 1
      BY <2>4
    <3> QED
      BY <2>1, <2>2, <2>4, <3>1 DEF ChildInv
  <2> QED
    BY <2>1, <2>5 DEF ChildInv, AllWritten, Line, LineOf
<1>3. ASSUME UNCHANGED <<script, next, combined>>
      PROVE  ChildInv'
  BY <1>3 DEF ChildInv, AllWritten, Line, LineOf
<1>4. CASE Start \/ StartFails \/ ChildExit \/ ContextDone \/ Kill \/ SignalFromOutside
           \/ WaitForReaders \/ Reap \/ UNCHANGED vars
  <2>1. UNCHANGED <<script, next, combined>>
    BY <1>4 DEF Start, StartFails, ChildExit, ContextDone, Kill, SignalFromOutside, WaitForReaders, Reap,
                vars, readers
  <2> QED
    BY <1>3, <2>1
<1>5. ASSUME NEW s \in Stream, Scan(s) \/ LineTooLong(s) \/ EndOfOutput(s) \/ Load(s)
      PROVE  ChildInv'
  <2>1. UNCHANGED <<script, next, combined>>
    BY <1>5 DEF Scan, LineTooLong, EndOfOutput, Load
  <2> QED
    BY <1>3, <2>1
<1> QED
  BY <1>1, <1>2, <1>4, <1>5 DEF Next, Read

(* A line that fits never fills the buffer before its end.                 *)
LEMMA DoneStep ==
  ASSUME Inv, [Next]_vars
  PROVE  DoneInv'
<1> SUFFICES ASSUME NEW s \in Stream, reader'[s] = "done", Fits(s)'
             PROVE  Ended' /\ pipe'[s] = <<>> /\ buf'[s] = <<>>
  BY DEF DoneInv
<1> USE DEF Inv
<1>1. script' = script
  BY DEF Next, Read, Start, StartFails, ChildWrite, ChildExit, ContextDone, Kill, SignalFromOutside,
         Scan, LineTooLong, EndOfOutput, Load, Store, WaitForReaders, Reap, vars
<1>2. Fits(s)
  BY <1>1 DEF Fits, Line
<1>3. ASSUME UNCHANGED <<pipe, buf>>, reader[s] = "done", Ended => Ended'
      PROVE  Ended' /\ pipe'[s] = <<>> /\ buf'[s] = <<>>
  BY <1>2, <1>3 DEF DoneInv
<1>4. CASE Start
  BY <1>4 DEF Start
<1>5. CASE StartFails \/ ChildExit \/ ContextDone \/ Kill \/ SignalFromOutside \/ WaitForReaders \/ Reap
           \/ UNCHANGED vars
  <2>1. UNCHANGED <<pipe, buf, reader>> /\ (Ended => Ended')
    BY <1>5 DEF StartFails, ChildExit, ContextDone, Kill, SignalFromOutside, WaitForReaders, Reap,
                vars, readers, Ended
  <2> QED
    BY <1>3, <2>1
<1>6. CASE ChildWrite
  BY <1>2, <1>6 DEF ChildWrite, readers, DoneInv, Ended
<1>7. ASSUME NEW t \in Stream, Read(t), t # s
      PROVE  Ended' /\ pipe'[s] = <<>> /\ buf'[s] = <<>>
  <2>1. /\ pipe'[s] = pipe[s] /\ buf'[s] = buf[s] /\ reader'[s] = reader[s] /\ child' = child
    BY <1>7 DEF Read, Scan, LineTooLong, EndOfOutput, Load, Store, TypeOK
  <2> QED
    BY <1>2, <2>1 DEF DoneInv, Ended
<1>8. CASE Scan(s) \/ Load(s) \/ Store(s)
  BY <1>8 DEF Scan, Load, Store, TypeOK
<1>9. ~LineTooLong(s)
  <2> SUFFICES ASSUME LineTooLong(s)
               PROVE  FALSE
    OBVIOUS
  <2>1. buf[s] # <<>>
    BY ConstantsAssumption, EmptySeq DEF LineTooLong
  <2>2. /\ LineOf(buf[s]) \in DOMAIN script.lines /\ Line(LineOf(buf[s])).to = s
        /\ Line(LineOf(buf[s])).units \in Nat
    BY <2>1, BufferBegins
  <2>3. Line(LineOf(buf[s])).units <= MaxToken
    BY <1>2, <2>2 DEF Fits
  <2>4. MaxToken < Line(LineOf(buf[s])).units
    BY <2>1 DEF LineTooLong, StreamInv, ByLine
  <2> QED
    BY ConstantsAssumption, <2>2, <2>3, <2>4
<1>10. CASE EndOfOutput(s)
  BY <1>10 DEF EndOfOutput, TypeOK, Ended
<1> QED
  BY <1>4, <1>5, <1>6, <1>7, <1>8, <1>9, <1>10 DEF Next, Read

(* Exec waits for both goroutines, then for the child.                     *)
LEMMA ExecStep ==
  ASSUME Inv, [Next]_vars
  PROVE  ExecInv'
<1> USE DEF Inv
<1>1. CASE Start
  BY <1>1 DEF Start, ExecInv, OkMeansAccepted
<1>2. CASE StartFails
  BY <1>2 DEF StartFails, ExecInv, OkMeansAccepted
<1>3. CASE ChildWrite \/ ContextDone
  BY <1>3 DEF ChildWrite, ContextDone, readers, ExecInv, OkMeansAccepted, ExitCode
<1>4. CASE ChildExit \/ Kill \/ SignalFromOutside
  BY <1>4 DEF ChildExit, Kill, SignalFromOutside, readers, ExecInv, OkMeansAccepted, Ended
<1>5. ASSUME NEW s \in Stream, Read(s)
      PROVE  ExecInv'
  <2>1. /\ UNCHANGED <<script, child, pc, result>> /\ reader[s] \notin {"none", "done"}
    BY <1>5 DEF Read, Scan, LineTooLong, EndOfOutput, Load, Store
  <2>2. pc # "start" /\ pc # "reap" /\ result \notin {"ok", "failed", "deadline", "context"}
    BY <2>1 DEF ExecInv
  <2> QED
    BY <2>1, <2>2 DEF ExecInv, OkMeansAccepted
<1>6. CASE WaitForReaders
  BY <1>6 DEF WaitForReaders, readers, ExecInv, OkMeansAccepted
<1>7. CASE Reap
  <2>1. Ended /\ child' = child /\ script' = script /\ reader' = reader
    BY <1>7 DEF Reap, ExecInv, TypeOK, Ended, readers
  <2>2. \A s \in Stream : reader[s] = "done"
    BY <1>7 DEF Reap, ExecInv
  <2>3. Outcome = "ok" => child \in {"exited", "signalled"} /\ ExitCode \in {0} \cup Ignore
    BY <2>1 DEF Outcome, Ended
  <2>4. ExitCode' = ExitCode
    BY <2>1 DEF ExitCode
  <2> QED
    BY <1>7, <2>1, <2>2, <2>3, <2>4 DEF Reap, ExecInv, OkMeansAccepted, Ended
<1>8. CASE UNCHANGED vars
  BY <1>8 DEF vars, readers, ExecInv, OkMeansAccepted, ExitCode
<1> QED
  BY <1>1, <1>2, <1>3, <1>4, <1>5, <1>6, <1>7, <1>8 DEF Next

(* The inductive invariant holds in every state of a call of Exec.         *)
THEOREM Invariant == Spec => []Inv
<1>1. Inv /\ [Next]_vars => Inv'
  BY TypeStep, ChildStep, StreamStep, DoneStep, ExecStep DEF Inv
<1> QED
  BY InitInv, <1>1, PTL DEF Spec

(* Every variable has its type: a pipe never holds more than its capacity, *)
(* the buffer of a Scanner never more than its maximum (commander.go:131). *)
THEOREM TypeCorrect == Spec => []TypeOK
<1>1. Inv => TypeOK
  BY DEF Inv
<1> QED
  BY Invariant, <1>1, PTL

(* Exec reports success only for a child that ended with an exit code that *)
(* is zero or ignored, -1 for a signal, and never for a killed one         *)
(* (commander.go:170-200).                                                 *)
THEOREM OkOnlyIfAccepted == Spec => []OkMeansAccepted
<1>1. Inv => OkMeansAccepted
  BY DEF Inv, ExecInv
<1> QED
  BY Invariant, <1>1, PTL

(* What the list holds when both goroutines are done with a stream.        *)
LEMMA AllQuoted ==
  ASSUME Inv, NEW s \in Stream, reader[s] = "done", Fits(s)
  PROVE  /\ QuotedUnits(s) = WrittenTo(s)
         /\ \A k \in Quoted(s) : combined[k] = Written(LineOf(combined[k]))
<1> USE DEF Inv
<1>1. QuotedUnits(s) = WrittenTo(s)
  <2>1. Buffered(s) = {} /\ Piped(s) = {}
    BY DEF DoneInv, Buffered, Piped
  <2> QED
    BY <2>1 DEF StreamInv, NothingLost
<1>2. ASSUME NEW k \in Quoted(s)
      PROVE  combined[k] = Written(LineOf(combined[k]))
  <2> DEFINE c == combined[k]
             l == LineOf(c)
             m == Len(c)
             n == IF l < next[1] THEN Line(l).units ELSE IF l = next[1] THEN next[2] - 1 ELSE 0
  <2>1. c # <<>> /\ Beginning(c) /\ Whole(s, c) /\ k \in DOMAIN combined
    BY DEF StreamInv, ByLine, Quoted
  <2>2. c \in Seq(Unit) /\ m \in Nat \ {0} /\ DOMAIN c = 1..m
    <3>1. c \in Seq(Unit)
      BY <2>1, ElementOfSeq, LenProperties DEF TypeOK
    <3> QED
      BY <2>1, <3>1, EmptySeq, LenProperties
  <2>3. c[m] = <<l, m>> /\ <<l, m>> \in WrittenTo(s)
    BY <1>1, <2>1, <2>2 DEF Beginning, QuotedUnits
  <2>4. /\ l \in DOMAIN script.lines /\ l \in Nat /\ Line(l).to = s /\ m \in 1..Line(l).units
        /\ Line(l).units \in Nat
        /\ l < next[1] \/ (l = next[1] /\ m < next[2])
    BY <2>3, LineType DEF WrittenTo, Before, Unit
  <2>5. /\ next[1] \in Nat /\ next[2] \in Nat
        /\ l = next[1] => next[2] \in 1..Line(l).units
    BY <2>4, LineType DEF TypeOK, Unit, ChildInv, AllWritten
  <2>6. m = Line(l).units \/ l = next[1]
    BY <2>1 DEF Whole
  <2>7. \A u \in DOMAIN c : c[u] = <<l, u>>
    BY <2>1 DEF Beginning
  <2> HIDE DEF c, l, m
  <2>8. m = n
    <3>1. CASE l < next[1]
      BY <2>4, <2>5, <2>6, <3>1
    <3>2. CASE l = next[1]
      <4>1. n = next[2] - 1 /\ m <= n /\ n <= Line(l).units
        BY <2>4, <2>5, <3>2
      <4>2. ASSUME m < n
            PROVE  FALSE
        <5>1. <<l, m + 1>> \in WrittenTo(s)
          BY <2>2, <2>4, <2>5, <3>2, <4>1, <4>2 DEF WrittenTo, Before, Unit
        <5>2. PICK j \in Quoted(s) : \E u \in DOMAIN combined[j] : <<l, m + 1>> = combined[j][u]
          BY <1>1, <5>1 DEF QuotedUnits
        <5>3. PICK u \in DOMAIN combined[j] : <<l, m + 1>> = combined[j][u]
          BY <5>2
        <5>4. combined[j][u] = <<LineOf(combined[j]), u>>
          BY DEF StreamInv, ByLine, Beginning
        <5>5. LineOf(combined[j]) = l /\ u = m + 1
          BY <5>3, <5>4
        <5>6. j = k
          <6>1. j \in Int /\ k \in Int
            BY LenProperties DEF Quoted, TypeOK
          <6>2. LineOf(combined[k]) = l
            BY DEF l, c
          <6> QED
            BY <2>4, <5>5, <6>1, <6>2 DEF StreamInv, InOrder
        <5> QED
          BY <2>2, <5>5, <5>6 DEF c
      <4> QED
        BY <2>2, <2>4, <2>5, <4>1, <4>2
    <3> QED
      BY <2>4, <2>5, <3>1, <3>2
  <2>9. c = [u \in 1..n |-> <<l, u>>]
    <3>1. c \in [1..m -> Unit]
      BY <2>2, LenProperties
    <3> QED
      BY <2>2, <2>7, <2>8, <3>1
  <2> QED
    BY <2>9 DEF Written, l, c
<1> QED
  BY <1>1, <1>2

(* An error of a command that failed or was killed quotes each line that   *)
(* the command wrote, once and in order, on whichever stream and however   *)
(* the two goroutines took turns (commander.go:127, :146).                 *)
THEOREM ReportIsComplete == Spec => []ReportComplete
<1>1. ASSUME Inv
      PROVE  ReportComplete
  <2> SUFFICES ASSUME result \in {"failed", "deadline"}, NEW s \in Stream, Fits(s)
               PROVE  /\ \A l \in DOMAIN script.lines : Line(l).to = s /\ Written(l) # <<>> =>
                           \E k \in DOMAIN combined : combined[k] = Written(l)
                      /\ \A k \in Quoted(s) : combined[k] = Written(LineOf(combined[k]))
                      /\ \A j, k \in Quoted(s) : j < k => LineOf(combined[j]) < LineOf(combined[k])
    BY DEF ReportComplete
  <2>1. reader[s] = "done"
    BY <1>1 DEF Inv, ExecInv
  <2>2. /\ QuotedUnits(s) = WrittenTo(s)
        /\ \A k \in Quoted(s) : combined[k] = Written(LineOf(combined[k]))
    BY <1>1, <2>1, AllQuoted
  <2>3. ASSUME NEW l \in DOMAIN script.lines, Line(l).to = s, Written(l) # <<>>
        PROVE  \E k \in DOMAIN combined : combined[k] = Written(l)
    <3>1. /\ l \in Nat /\ Line(l).units \in Nat \ {0} /\ next[1] \in Nat /\ next[2] \in Nat
      BY <1>1, LineType DEF Inv, TypeOK, Unit
    <3>2. l < next[1] \/ (l = next[1] /\ 1 < next[2])
      <4> DEFINE n == IF l < next[1] THEN Line(l).units ELSE IF l = next[1] THEN next[2] - 1 ELSE 0
      <4>1. Written(l) = [u \in 1..n |-> <<l, u>>]
        BY DEF Written
      <4> HIDE DEF n
      <4>2. n # 0
        BY <2>3, <4>1
      <4>3. n \in Int /\ 1..n # {}
        BY <2>3, <3>1, <4>1 DEF n
      <4> QED
        BY <3>1, <4>2, <4>3 DEF n
    <3>3. <<l, 1>> \in QuotedUnits(s)
      BY <2>2, <2>3, <3>1, <3>2 DEF WrittenTo, Before, Unit
    <3>4. PICK k \in Quoted(s) : \E u \in DOMAIN combined[k] : <<l, 1>> = combined[k][u]
      BY <3>3 DEF QuotedUnits
    <3>5. LineOf(combined[k]) = l
      BY <1>1, <3>4 DEF Inv, StreamInv, ByLine, Beginning
    <3> QED
      BY <2>2, <3>5 DEF Quoted
  <2>4. \A j, k \in Quoted(s) : j < k => LineOf(combined[j]) < LineOf(combined[k])
    BY <1>1 DEF Inv, StreamInv, InOrder
  <2> QED
    BY <2>2, <2>3, <2>4
<1> QED
  BY Invariant, <1>1, PTL
=============================================================================
