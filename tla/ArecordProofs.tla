--------------------------- MODULE ArecordProofs ---------------------------
(***************************************************************************)
(* Proofs about ArecordSource.tla for every size of a frame and any number *)
(* of bytes.                                                               *)
(***************************************************************************)
EXTENDS ArecordSource, SequenceTheorems, TLAPS

\* Before start() has returned nothing is read and nobody stops; only a stop()
\* takes the process away.
Before ==
    /\ starter = "new" <=> child = "none"
    /\ starter = "new" => ~process
    /\ starter = "prime" => process
    /\ starter # "started" => taken = 0 /\ pending = << >> /\ reader = "unopened" /\ ~stopping
    /\ ~stopping => \A s \in Stoppers : stopper[s] = "idle"
    /\ starter = "started" /\ ~process => stopping

\* Who is about to let go of the process has seen it end.
Reaped ==
    /\ starter # "new" /\ ~process => child = "exited"
    /\ \A s \in Stoppers : stopper[s] = "release" => child = "exited"
    /\ StoppedIsReaped

\* Bytes are pending only before the first read.
Held ==
    /\ reader # "fill" => payload = << >>
    /\ reader \in {"fill", "yielded", "poll"} => pending = << >>
    /\ frames # << >> => pending = << >>
    /\ reader = "unopened" => frames = << >>

Whole(i) == frames[i] = Bytes((i - 1) * FrameBytes + 1, i * FrameBytes)

\* What was taken stands in the frames, then in what is held.
Aligned ==
    LET before == Len(frames) * FrameBytes IN
    /\ taken = before + Len(pending) + Len(payload)
    /\ pending = Bytes(before + 1, before + Len(pending))
    /\ payload = Bytes(before + 1, before + Len(payload))

\* Either everything is in line, or a stop() has dropped the pending bytes of the
\* first frame, which then is the only one.
Line ==
    \/ /\ \A i \in 1 .. Len(frames) : Whole(i)
       /\ reader \in {"poll", "ended", "failed"} \/ Aligned
    \/ stopping /\ frames = << >> /\ pending = << >> /\ payload = << >>
    \/ stopping /\ Len(frames) = 1 /\ reader \in {"yielded", "test", "ended"}

IInv == TypeOK /\ Before /\ Reaped /\ Held /\ Line

-----------------------------------------------------------------------------
(* Facts about bytes. *)

\* What a run of bytes is.
LEMMA BytesFacts ==
    ASSUME NEW a \in Nat, NEW b \in Nat, a <= b
    PROVE  /\ Bytes(a + 1, b) \in Seq(Nat)
           /\ Len(Bytes(a + 1, b)) = b - a
           /\ \A i \in 1 .. b - a : Bytes(a + 1, b)[i] = a + i
  <1>1. b - a \in Nat /\ b - (a + 1) + 1 = b - a /\ \A i \in 1 .. b - a : a + 1 + i - 1 = a + i /\ a + i \in Nat
    OBVIOUS
  <1>2. Bytes(a + 1, b) = [i \in 1 .. b - a |-> a + i]
    BY <1>1 DEF Bytes
  <1> QED
    BY <1>1, <1>2

\* A run that ends before it begins is empty.
LEMMA NoBytes == \A a \in Nat : Bytes(a + 1, a) = << >>
  BY DEF Bytes

\* Where the elements of a concatenation come from.
LEMMA ConcatFacts ==
    ASSUME NEW p \in Seq(Nat), NEW q \in Seq(Nat)
    PROVE  /\ p \o q \in Seq(Nat)
           /\ Len(p \o q) = Len(p) + Len(q)
           /\ \A i \in 1 .. Len(p) : (p \o q)[i] = p[i]
           /\ \A i \in 1 .. Len(q) : (p \o q)[Len(p) + i] = q[i]
  <1>1. /\ p \o q \in Seq(Nat) /\ Len(p \o q) = Len(p) + Len(q)
        /\ \A i \in 1 .. Len(p) + Len(q) : (p \o q)[i] = IF i <= Len(p) THEN p[i] ELSE q[i - Len(p)]
    BY ConcatProperties, Zenon
  <1>2. Len(p) \in Nat /\ Len(q) \in Nat
    OBVIOUS
  <1>3. \A i \in 1 .. Len(p) : i \in 1 .. Len(p) + Len(q) /\ i <= Len(p)
    BY <1>2
  <1>4. \A i \in 1 .. Len(q) :
          /\ Len(p) + i \in 1 .. Len(p) + Len(q)
          /\ ~(Len(p) + i <= Len(p))
          /\ (Len(p) + i) - Len(p) = i
    BY <1>2
  <1> QED
    BY <1>1, <1>3, <1>4, Zenon

\* Two runs in line are one.
LEMMA BytesConcat ==
    ASSUME NEW a \in Nat, NEW b \in Nat, NEW c \in Nat, a <= b, b <= c
    PROVE  Bytes(a + 1, b) \o Bytes(b + 1, c) = Bytes(a + 1, c)
  <1>1. /\ Bytes(a + 1, b) \in Seq(Nat) /\ Len(Bytes(a + 1, b)) = b - a
        /\ \A i \in 1 .. b - a : Bytes(a + 1, b)[i] = a + i
    BY BytesFacts
  <1>2. /\ Bytes(b + 1, c) \in Seq(Nat) /\ Len(Bytes(b + 1, c)) = c - b
        /\ \A i \in 1 .. c - b : Bytes(b + 1, c)[i] = b + i
    BY BytesFacts
  <1>3. /\ Bytes(a + 1, c) \in Seq(Nat) /\ Len(Bytes(a + 1, c)) = c - a
        /\ \A i \in 1 .. c - a : Bytes(a + 1, c)[i] = a + i
    BY BytesFacts
  <1> DEFINE both == Bytes(a + 1, b) \o Bytes(b + 1, c)
  <1>4. /\ both \in Seq(Nat) /\ Len(both) = Len(Bytes(a + 1, b)) + Len(Bytes(b + 1, c))
        /\ \A i \in 1 .. Len(Bytes(a + 1, b)) : both[i] = Bytes(a + 1, b)[i]
        /\ \A i \in 1 .. Len(Bytes(b + 1, c)) :
              both[Len(Bytes(a + 1, b)) + i] = Bytes(b + 1, c)[i]
    BY <1>1, <1>2, ConcatFacts
  <1>5. /\ both \in Seq(Nat) /\ Len(both) = c - a
        /\ \A i \in 1 .. b - a : both[i] = Bytes(a + 1, b)[i]
        /\ \A i \in 1 .. c - b : both[b - a + i] = Bytes(b + 1, c)[i]
    <2>1. (b - a) + (c - b) = c - a
      OBVIOUS
    <2> QED
      BY <1>1, <1>2, <1>4, <2>1, Zenon
  <1> HIDE DEF both
  <1>6. ASSUME NEW i \in 1 .. c - a PROVE both[i] = Bytes(a + 1, c)[i]
    <2>0. i \in Int /\ a \in Int /\ b \in Int /\ c \in Int
      OBVIOUS
    <2>1. CASE i <= b - a
      <3>1. i \in 1 .. b - a
        BY <2>0, <2>1
      <3> QED
        BY <1>1, <1>3, <1>5, <3>1
    <2>2. CASE ~(i <= b - a)
      <3> DEFINE j == i - (b - a)
      <3>1. j \in 1 .. c - b /\ b - a + j = i /\ b + j = a + i
        BY <2>0, <2>2
      <3> HIDE DEF j
      <3>2. both[i] = Bytes(b + 1, c)[j]
        BY <1>5, <3>1
      <3> QED
        BY <1>2, <1>3, <3>1, <3>2
    <2> QED
      BY <2>1, <2>2
  <1>7. both = Bytes(a + 1, c)
    BY <1>3, <1>5, <1>6, SeqEqual
  <1> QED
    BY <1>7 DEF both

\* The first bytes.
LEMMA FirstBytes ==
    ASSUME NEW k \in Nat
    PROVE  Bytes(1, k) \in Seq(Nat) /\ Len(Bytes(1, k)) = k
  <1>1. k - 1 + 1 = k /\ \A i \in 1 .. k : 1 + i - 1 \in Nat
    OBVIOUS
  <1> QED
    BY <1>1 DEF Bytes

\* The smaller of two numbers.
LEMMA MinFacts ==
    ASSUME NEW a \in Nat, NEW b \in Nat
    PROVE  Min({a, b}) = IF a <= b THEN a ELSE b
  BY DEF Min

\* The number of bytes in n frames.
LEMMA FrameTimes ==
    ASSUME NEW n \in Nat
    PROVE  /\ n * FrameBytes \in Nat
           /\ (n + 1) * FrameBytes = n * FrameBytes + FrameBytes
  BY FrameAssumption

-----------------------------------------------------------------------------
(* The steps that move bytes. *)

\* The priming read leaves its bytes pending.
LEMMA PrimeStep == ASSUME IInv, Prime PROVE IInv'
  <1>1. starter = "prime" /\ taken = 0 /\ pending = << >> /\ reader = "unopened" /\ process /\ ~stopping
        /\ written \in Nat
    BY DEF IInv, TypeOK, Before, Prime
  <1>2. taken' \in 0 .. written /\ taken' <= FrameBytes /\ taken' \in Nat
    BY <1>1, MinFacts, FrameAssumption DEF Prime
  <1>3. pending' = Bytes(1, taken')
    BY <1>1 DEF Prime
  <1>4. pending' \in Seq(Nat) /\ Len(pending') = taken'
    BY <1>2, <1>3, FirstBytes
  <1>5. /\ starter' = "started" /\ payload' = payload /\ frames' = frames /\ reader' = reader
        /\ process' = process /\ stopping' = stopping /\ child' = child /\ stopper' = stopper
        /\ failed' = failed /\ written' = written
    BY DEF Prime, childVars, readerVars
  <1>6. TypeOK'
    BY <1>2, <1>4, <1>5 DEF IInv, TypeOK
  <1>7. (Before /\ Reaped)'
    BY <1>1, <1>5 DEF IInv, Before, Reaped, StoppedIsReaped
  <1>8. payload = << >> /\ frames = << >>
    BY <1>1 DEF IInv, Held
  <1>9. Held'
    BY <1>1, <1>5, <1>8 DEF IInv, Held
  <1>10. Aligned'
    <2>1. Len(frames') * FrameBytes = 0
      BY <1>5, <1>8, FrameAssumption
    <2>2. Bytes(0 + 1, 0) = << >>
      BY NoBytes
    <2> QED
      BY <1>2, <1>3, <1>4, <1>5, <1>8, <2>1, <2>2 DEF Aligned
  <1> QED
    BY <1>5, <1>6, <1>7, <1>8, <1>9, <1>10 DEF IInv, Line

\* The read begins with what is pending.
LEMMA TakeStep == ASSUME IInv, TakePending PROVE IInv'
  <1>1. /\ reader = "take" /\ reader' = "fill" /\ payload' = pending /\ pending' = << >>
        /\ taken' = taken /\ frames' = frames /\ stopping' = stopping /\ starter' = starter
        /\ child' = child /\ failed' = failed /\ written' = written /\ process' = process /\ stopper' = stopper
    BY DEF TakePending, childVars
  <1>2. TypeOK'
    BY <1>1, FrameAssumption DEF IInv, TypeOK, ReaderPc
  <1>3. (Before /\ Reaped)'
    BY <1>1 DEF IInv, TypeOK, Before, Reaped, StoppedIsReaped
  <1>4. payload = << >> /\ Held'
    BY <1>1 DEF IInv, Held
  <1>5. Line'
    <2>1. CASE (\A i \in 1 .. Len(frames) : Whole(i)) /\ Aligned
      <3>1. Len(frames) \in Nat /\ Len(frames) * FrameBytes \in Nat
        BY FrameTimes DEF IInv, TypeOK
      <3>2. Bytes(Len(frames) * FrameBytes + 1, Len(frames) * FrameBytes) = << >>
        BY <3>1, NoBytes
      <3>3. Aligned'
        BY <1>1, <1>4, <2>1, <3>1, <3>2 DEF IInv, TypeOK, Aligned
      <3> QED
        BY <1>1, <2>1, <3>3 DEF Line, Whole
    <2>2. CASE stopping /\ frames = << >> /\ pending = << >> /\ payload = << >>
      BY <1>1, <2>2 DEF Line
    <2> QED
      BY <1>1, <2>1, <2>2 DEF IInv, Line
  <1> QED
    BY <1>2, <1>3, <1>4, <1>5 DEF IInv

\* A whole frame was read.
LEMMA FillStep == ASSUME IInv, FillFrame PROVE IInv'
  <1> DEFINE n == Len(frames)
             new == payload \o Bytes(taken + 1, taken')
  <1>1. /\ reader = "fill" /\ reader' = "yielded" /\ payload' = << >> /\ frames' = Append(frames, new)
        /\ taken' = taken + (FrameBytes - Len(payload)) /\ written - taken >= FrameBytes - Len(payload)
        /\ pending' = pending /\ stopping' = stopping /\ starter' = starter
        /\ child' = child /\ failed' = failed /\ written' = written /\ process' = process /\ stopper' = stopper
    BY DEF FillFrame, Missing, childVars
  <1>2. /\ n \in Nat /\ taken \in Nat /\ written \in Nat /\ Len(payload) \in 0 .. FrameBytes /\ payload \in Seq(Nat)
        /\ frames \in Seq([1 .. FrameBytes -> Nat]) /\ FrameBytes \in Nat \ {0}
    BY FrameAssumption DEF IInv, TypeOK
  <1>3. taken' \in taken .. written /\ taken' \in Nat
    BY <1>1, <1>2
  <1>4. /\ Bytes(taken + 1, taken') \in Seq(Nat)
        /\ Len(Bytes(taken + 1, taken')) = FrameBytes - Len(payload)
    <2>1. taken <= taken' /\ taken' - taken = FrameBytes - Len(payload)
      BY <1>1, <1>2
    <2> QED
      BY <1>2, <1>3, <2>1, BytesFacts
  <1>5. new \in Seq(Nat) /\ Len(new) = FrameBytes
    BY <1>2, <1>4
  <1>6. new \in [1 .. FrameBytes -> Nat]
    BY <1>5, LenProperties
  <1>7. pending = << >> /\ starter = "started"
    BY <1>1 DEF IInv, TypeOK, Held, Before
  <1> HIDE DEF new
  <1>8. /\ frames' \in Seq([1 .. FrameBytes -> Nat]) /\ Len(frames') = n + 1 /\ frames'[n + 1] = new
        /\ \A i \in 1 .. n : frames'[i] = frames[i]
    BY <1>1, <1>2, <1>6
  <1>9. TypeOK'
    BY <1>1, <1>2, <1>3, <1>8 DEF IInv, TypeOK, ReaderPc
  <1>10. (Before /\ Reaped)'
    BY <1>1, <1>7 DEF IInv, Before, Reaped, StoppedIsReaped
  <1>11. Held'
    BY <1>1, <1>7 DEF Held
  <1>12. Line'
    <2>1. CASE (\A i \in 1 .. n : Whole(i)) /\ Aligned
      <3>1. n * FrameBytes \in Nat /\ (n + 1) * FrameBytes = n * FrameBytes + FrameBytes
        BY <1>2, FrameTimes
      <3>2. taken = n * FrameBytes + Len(payload) /\ payload = Bytes(n * FrameBytes + 1, taken)
        BY <1>2, <1>7, <2>1, <3>1 DEF Aligned
      <3>3. taken' = (n + 1) * FrameBytes
        BY <1>1, <1>2, <3>1, <3>2
      <3>4. new = Bytes(n * FrameBytes + 1, (n + 1) * FrameBytes)
        <4>1. n * FrameBytes <= taken /\ taken <= taken'
          BY <1>2, <1>3, <3>1, <3>2
        <4>2. Bytes(n * FrameBytes + 1, taken) \o Bytes(taken + 1, taken') = Bytes(n * FrameBytes + 1, taken')
          BY <1>2, <1>3, <3>1, <4>1, BytesConcat
        <4> QED
          BY <3>2, <3>3, <4>2 DEF new
      <3>5. \A i \in 1 .. Len(frames') : frames'[i] = Bytes((i - 1) * FrameBytes + 1, i * FrameBytes)
        <4>1. SUFFICES ASSUME NEW i \in 1 .. n + 1
                       PROVE  frames'[i] = Bytes((i - 1) * FrameBytes + 1, i * FrameBytes)
          BY <1>8
        <4>2. CASE i = n + 1
          <5>1. i - 1 = n
            BY <1>2, <4>2
          <5> QED
            BY <1>8, <3>4, <4>2, <5>1
        <4>3. CASE i # n + 1
          <5>1. i \in 1 .. n
            BY <1>2, <4>3
          <5> QED
            BY <1>8, <2>1, <5>1 DEF Whole
        <4> QED
          BY <4>2, <4>3
      <3>6. Aligned'
        <4>1. Bytes((n + 1) * FrameBytes + 1, (n + 1) * FrameBytes) = << >>
          BY <1>2, <3>1, NoBytes
        <4>2. Len(frames') * FrameBytes = (n + 1) * FrameBytes /\ (n + 1) * FrameBytes \in Nat
          BY <1>2, <1>8, <3>1
        <4>3. pending' = << >> /\ payload' = << >> /\ Len(pending') = 0 /\ Len(payload') = 0
          BY <1>1, <1>7
        <4> HIDE DEF n
        <4>4. (n + 1) * FrameBytes + 0 = (n + 1) * FrameBytes
          BY <4>2
        <4> QED
          BY <3>3, <4>1, <4>2, <4>3, <4>4, Zenon DEF Aligned
      <3> QED
        BY <3>5, <3>6 DEF Line, Whole
    <2>2. CASE stopping /\ frames = << >>
      BY <1>1, <1>8, <2>2 DEF Line
    <2> QED
      BY <1>1, <2>1, <2>2 DEF IInv, Line
  <1> QED
    BY <1>9, <1>10, <1>11, <1>12 DEF IInv

\* At the end of file the rest is dropped, and nothing is read any more.
LEMMA ShortStep == ASSUME IInv, ReadShort PROVE IInv'
  <1>1. /\ reader = "fill" /\ reader' = "poll" /\ payload' = << >> /\ frames' = frames /\ taken' = written
        /\ pending' = pending /\ stopping' = stopping /\ starter' = starter
        /\ child' = child /\ failed' = failed /\ written' = written /\ process' = process /\ stopper' = stopper
    BY DEF ReadShort, childVars
  <1>2. pending = << >> /\ starter = "started"
    BY <1>1 DEF IInv, TypeOK, Held, Before
  <1>3. TypeOK'
    BY <1>1, FrameAssumption DEF IInv, TypeOK, ReaderPc
  <1>4. (Before /\ Reaped /\ Held)'
    BY <1>1, <1>2 DEF IInv, Before, Reaped, StoppedIsReaped, Held
  <1>5. Line'
    BY <1>1, <1>2 DEF IInv, Line, Whole
  <1> QED
    BY <1>3, <1>4, <1>5 DEF IInv

\* stop() drops the pending bytes.
LEMMA DropStep == ASSUME IInv, NEW s \in Stoppers, DropPending(s) PROVE IInv'
  <1>1. /\ stopper[s] = "drop" /\ pending' = << >>
        /\ stopper' = [stopper EXCEPT ![s] = IF process THEN "check" ELSE "returned"]
        /\ reader' = reader /\ payload' = payload /\ frames' = frames /\ taken' = taken
        /\ stopping' = stopping /\ starter' = starter
        /\ child' = child /\ failed' = failed /\ written' = written /\ process' = process
    BY DEF DropPending, Go, childVars, readerVars
  <1>2. stopping /\ starter = "started"
    BY <1>1 DEF IInv, TypeOK, Before
  <1>3. TypeOK'
    BY <1>1, FrameAssumption DEF IInv, TypeOK, StopperPc
  <1>4. (Before /\ Reaped /\ Held)'
    BY <1>1, <1>2 DEF IInv, TypeOK, Before, Reaped, StoppedIsReaped, Held
  <1>5. Line'
    <2>1. CASE pending = << >>
      BY <1>1, <2>1 DEF IInv, Line, Whole, Aligned
    <2>2. CASE pending # << >>
      <3>1. frames = << >> /\ reader # "fill" /\ payload = << >>
        BY <2>2 DEF IInv, Held
      <3> QED
        BY <1>1, <1>2, <3>1 DEF Line
    <2> QED
      BY <2>1, <2>2
  <1> QED
    BY <1>3, <1>4, <1>5 DEF IInv

-----------------------------------------------------------------------------
(* The steps that move no bytes. *)

\* Bytes that stay where they are stay in line.
LEMMA LineKept ==
    ASSUME IInv,
           taken' = taken /\ pending' = pending /\ payload' = payload /\ frames' = frames,
           stopping => stopping',
           reader \in {"poll", "ended", "failed"} => reader' \in {"poll", "ended", "failed"},
           stopping /\ reader \in {"yielded", "test", "ended"} => reader' \in {"yielded", "test", "ended"}
    PROVE  Line'
  BY DEF IInv, Line, Whole, Aligned

\* The recorder starts, writes and ends.
LEMMA RecorderStep ==
    ASSUME IInv, Spawn \/ Write \/ Close \/ BecomeReapable
    PROVE  IInv'
  <1>1. CASE Spawn
    <2>1. /\ starter = "new" /\ starter' = "prime" /\ stopping' = FALSE /\ pending' = << >>
          /\ process' = TRUE /\ child' = "running"
          /\ failed' = failed /\ written' = written /\ taken' = taken /\ reader' = reader /\ payload' = payload
          /\ frames' = frames /\ stopper' = stopper
      BY <1>1 DEF Spawn, childVars, readerVars
    <2>2. TypeOK'
      <3>1. pending' = pending
        BY <2>1 DEF IInv, Before
      <3> QED
        BY <2>1, <3>1 DEF IInv, TypeOK
    <2>3. (Before /\ Reaped /\ Held)'
      BY <2>1 DEF IInv, TypeOK, Before, Reaped, StoppedIsReaped, Held
    <2>4. Line'
      BY <2>1, LineKept DEF IInv, Before
    <2> QED
      BY <2>2, <2>3, <2>4 DEF IInv
  <1>2. CASE Write
    <2>1. /\ child = "running" /\ written' = written + 1
          /\ child' = child /\ failed' = failed /\ taken' = taken /\ starter' = starter /\ process' = process
          /\ stopping' = stopping /\ pending' = pending /\ reader' = reader /\ payload' = payload /\ frames' = frames /\ stopper' = stopper
      BY <1>2 DEF Write, childVars, readerVars
    <2>2. TypeOK'
      BY <2>1 DEF IInv, TypeOK
    <2>3. (Before /\ Reaped /\ Held)'
      BY <2>1 DEF IInv, TypeOK, Before, Reaped, StoppedIsReaped, Held
    <2>4. Line'
      BY <2>1, LineKept
    <2> QED
      BY <2>2, <2>3, <2>4 DEF IInv
  <1>3. CASE Close
    <2>1. /\ child = "running" /\ child' = "closed" /\ failed' \in BOOLEAN
          /\ written' = written /\ taken' = taken /\ starter' = starter /\ process' = process /\ stopping' = stopping
          /\ pending' = pending /\ reader' = reader /\ payload' = payload /\ frames' = frames /\ stopper' = stopper
      BY <1>3 DEF Close, childVars, readerVars
    <2>2. TypeOK'
      BY <2>1 DEF IInv, TypeOK
    <2>3. (Before /\ Reaped /\ Held)'
      BY <2>1 DEF IInv, TypeOK, Before, Reaped, StoppedIsReaped, Held
    <2>4. Line'
      BY <2>1, LineKept
    <2> QED
      BY <2>2, <2>3, <2>4 DEF IInv
  <1>4. CASE BecomeReapable
    <2>1. /\ child = "closed" /\ child' = "exited"
          /\ failed' = failed /\ written' = written /\ taken' = taken /\ starter' = starter /\ process' = process
          /\ stopping' = stopping /\ pending' = pending /\ reader' = reader /\ payload' = payload /\ frames' = frames /\ stopper' = stopper
      BY <1>4 DEF BecomeReapable, childVars, readerVars
    <2>2. TypeOK'
      BY <2>1 DEF IInv, TypeOK
    <2>3. (Before /\ Reaped /\ Held)'
      BY <2>1 DEF IInv, TypeOK, Before, Reaped, StoppedIsReaped, Held
    <2>4. Line'
      BY <2>1, LineKept
    <2> QED
      BY <2>2, <2>3, <2>4 DEF IInv
  <1> QED
    BY <1>1, <1>2, <1>3, <1>4

\* The reader goes on or ends.
LEMMA ReaderControlStep ==
    ASSUME IInv, Open \/ Test \/ Resume \/ Leave \/ Poll
    PROVE  IInv'
  <1>1. CASE Open
    <2>1. /\ reader = "unopened" /\ starter = "started"
          /\ reader' = IF process THEN "test" ELSE "failed"
          /\ child' = child /\ failed' = failed /\ written' = written /\ taken' = taken /\ starter' = starter
          /\ process' = process /\ stopping' = stopping /\ pending' = pending /\ payload' = payload /\ frames' = frames /\ stopper' = stopper
      BY <1>1 DEF Open, childVars, readerVars
    <2>2. TypeOK'
      BY <2>1 DEF IInv, TypeOK, ReaderPc
    <2>3. (Before /\ Reaped /\ Held)'
      BY <2>1 DEF IInv, TypeOK, Before, Reaped, StoppedIsReaped, Held
    <2>4. Line'
      BY <2>1, LineKept
    <2> QED
      BY <2>2, <2>3, <2>4 DEF IInv
  <1>2. CASE Test
    <2>1. /\ reader = "test" /\ reader' = IF stopping THEN "ended" ELSE "take"
          /\ child' = child /\ failed' = failed /\ written' = written /\ taken' = taken /\ starter' = starter
          /\ process' = process /\ stopping' = stopping /\ pending' = pending /\ payload' = payload /\ frames' = frames /\ stopper' = stopper
      BY <1>2 DEF Test, childVars, readerVars
    <2>2. TypeOK'
      BY <2>1 DEF IInv, TypeOK, ReaderPc
    <2>3. (Before /\ Reaped /\ Held)'
      BY <2>1 DEF IInv, TypeOK, Before, Reaped, StoppedIsReaped, Held
    <2>4. Line'
      BY <2>1, LineKept
    <2> QED
      BY <2>2, <2>3, <2>4 DEF IInv
  <1>3. CASE Resume
    <2>1. /\ reader = "yielded" /\ reader' = "test"
          /\ child' = child /\ failed' = failed /\ written' = written /\ taken' = taken /\ starter' = starter
          /\ process' = process /\ stopping' = stopping /\ pending' = pending /\ payload' = payload /\ frames' = frames /\ stopper' = stopper
      BY <1>3 DEF Resume, childVars, readerVars
    <2>2. TypeOK'
      BY <2>1 DEF IInv, TypeOK, ReaderPc
    <2>3. (Before /\ Reaped /\ Held)'
      BY <2>1 DEF IInv, TypeOK, Before, Reaped, StoppedIsReaped, Held
    <2>4. Line'
      BY <2>1, LineKept
    <2> QED
      BY <2>2, <2>3, <2>4 DEF IInv
  <1>4. CASE Leave
    <2>1. /\ reader = "yielded" /\ reader' = "ended"
          /\ child' = child /\ failed' = failed /\ written' = written /\ taken' = taken /\ starter' = starter
          /\ process' = process /\ stopping' = stopping /\ pending' = pending /\ payload' = payload /\ frames' = frames /\ stopper' = stopper
      BY <1>4 DEF Leave, childVars, readerVars
    <2>2. TypeOK'
      BY <2>1 DEF IInv, TypeOK, ReaderPc
    <2>3. (Before /\ Reaped /\ Held)'
      BY <2>1 DEF IInv, TypeOK, Before, Reaped, StoppedIsReaped, Held
    <2>4. Line'
      BY <2>1, LineKept
    <2> QED
      BY <2>2, <2>3, <2>4 DEF IInv
  <1>5. CASE Poll
    <2>1. /\ reader = "poll" /\ reader' \in {"failed", "ended"}
          /\ child' = child /\ failed' = failed /\ written' = written /\ taken' = taken /\ starter' = starter
          /\ process' = process /\ stopping' = stopping /\ pending' = pending /\ payload' = payload /\ frames' = frames /\ stopper' = stopper
      BY <1>5 DEF Poll, childVars, readerVars
    <2>2. TypeOK'
      BY <2>1 DEF IInv, TypeOK, ReaderPc
    <2>3. (Before /\ Reaped /\ Held)'
      BY <2>1 DEF IInv, TypeOK, Before, Reaped, StoppedIsReaped, Held
    <2>4. Line'
      BY <2>1, LineKept
    <2> QED
      BY <2>2, <2>3, <2>4 DEF IInv
  <1> QED
    BY <1>1, <1>2, <1>3, <1>4, <1>5

\* stop() waits for the process and lets go of it.
LEMMA StopControlStep ==
    ASSUME IInv, NEW s \in Stoppers,
           CallStop(s) \/ Terminate(s) \/ Wait(s) \/ WaitKilled(s) \/ Release(s)
    PROVE  IInv'
  <1>1. CASE CallStop(s)
    <2>1. /\ starter = "started" /\ stopping' = TRUE
          /\ stopper' = [stopper EXCEPT ![s] = "drop"]
          /\ child' = child /\ failed' = failed /\ written' = written /\ taken' = taken /\ starter' = starter
          /\ process' = process /\ pending' = pending /\ reader' = reader /\ payload' = payload /\ frames' = frames
      BY <1>1 DEF CallStop, childVars, readerVars, Go
    <2>2. TypeOK'
      BY <2>1 DEF IInv, TypeOK, StopperPc
    <2>3. (Before /\ Reaped /\ Held)'
      BY <2>1 DEF IInv, TypeOK, Before, Reaped, StoppedIsReaped, Held
    <2>4. Line'
      BY <2>1, LineKept
    <2> QED
      BY <2>2, <2>3, <2>4 DEF IInv
  <1>2. CASE Terminate(s)
    <2>1. /\ stopper[s] = "check"
          /\ stopper' = [stopper EXCEPT ![s] = IF child = "exited" THEN "release" ELSE "wait"]
          /\ child' = child /\ failed' = failed /\ written' = written /\ taken' = taken /\ starter' = starter
          /\ process' = process /\ stopping' = stopping /\ pending' = pending /\ reader' = reader /\ payload' = payload /\ frames' = frames
      BY <1>2 DEF Terminate, childVars, readerVars, Go
    <2>2. TypeOK'
      BY <2>1 DEF IInv, TypeOK, StopperPc
    <2>3. (Before /\ Reaped /\ Held)'
      BY <2>1 DEF IInv, TypeOK, Before, Reaped, StoppedIsReaped, Held
    <2>4. Line'
      BY <2>1, LineKept
    <2> QED
      BY <2>2, <2>3, <2>4 DEF IInv
  <1>3. CASE Wait(s)
    <2>1. /\ stopper[s] = "wait"
          /\ stopper' = [stopper EXCEPT ![s] = IF child = "exited" THEN "release" ELSE "wait_killed"]
          /\ child' = child /\ failed' = failed /\ written' = written /\ taken' = taken /\ starter' = starter
          /\ process' = process /\ stopping' = stopping /\ pending' = pending /\ reader' = reader /\ payload' = payload /\ frames' = frames
      BY <1>3 DEF Wait, childVars, readerVars, Go
    <2>2. TypeOK'
      BY <2>1 DEF IInv, TypeOK, StopperPc
    <2>3. (Before /\ Reaped /\ Held)'
      BY <2>1 DEF IInv, TypeOK, Before, Reaped, StoppedIsReaped, Held
    <2>4. Line'
      BY <2>1, LineKept
    <2> QED
      BY <2>2, <2>3, <2>4 DEF IInv
  <1>4. CASE WaitKilled(s)
    <2>1. /\ stopper[s] = "wait_killed"
          /\ stopper' = [stopper EXCEPT ![s] = IF child = "exited" THEN "release" ELSE "raised"]
          /\ child' = child /\ failed' = failed /\ written' = written /\ taken' = taken /\ starter' = starter
          /\ process' = process /\ stopping' = stopping /\ pending' = pending /\ reader' = reader /\ payload' = payload /\ frames' = frames
      BY <1>4 DEF WaitKilled, childVars, readerVars, Go
    <2>2. TypeOK'
      BY <2>1 DEF IInv, TypeOK, StopperPc
    <2>3. (Before /\ Reaped /\ Held)'
      BY <2>1 DEF IInv, TypeOK, Before, Reaped, StoppedIsReaped, Held
    <2>4. Line'
      BY <2>1, LineKept
    <2> QED
      BY <2>2, <2>3, <2>4 DEF IInv
  <1>5. CASE Release(s)
    <2>1. /\ stopper[s] = "release" /\ process' = FALSE
          /\ stopper' = [stopper EXCEPT ![s] = "returned"]
          /\ child' = child /\ failed' = failed /\ written' = written /\ taken' = taken /\ starter' = starter
          /\ stopping' = stopping /\ pending' = pending /\ reader' = reader /\ payload' = payload /\ frames' = frames
      BY <1>5 DEF Release, childVars, readerVars, Go
    <2>2. TypeOK'
      BY <2>1 DEF IInv, TypeOK, StopperPc
    <2>3. (Before /\ Reaped /\ Held)'
      BY <2>1 DEF IInv, TypeOK, Before, Reaped, StoppedIsReaped, Held
    <2>4. Line'
      BY <2>1, LineKept
    <2> QED
      BY <2>2, <2>3, <2>4 DEF IInv
  <1> QED
    BY <1>1, <1>2, <1>3, <1>4, <1>5

-----------------------------------------------------------------------------
(* The theorems. *)

\* Nothing was started.
LEMMA InitIInv == Init => IInv
  <1> SUFFICES ASSUME Init PROVE IInv
    OBVIOUS
  <1>1. TypeOK
    <2>1. << >> \in Seq(Nat) /\ Len(<< >>) = 0 /\ << >> \in Seq([1 .. FrameBytes -> Nat])
      OBVIOUS
    <2>2. stopper \in [Stoppers -> StopperPc]
      BY DEF Init, StopperPc
    <2>3. /\ pending \in Seq(Nat) /\ Len(pending) <= FrameBytes
          /\ payload \in Seq(Nat) /\ Len(payload) <= FrameBytes
          /\ frames \in Seq([1 .. FrameBytes -> Nat])
      BY <2>1, FrameAssumption DEF Init
    <2>4. /\ child \in {"none", "running", "closed", "exited"} /\ starter \in {"new", "prime", "started"}
          /\ failed \in BOOLEAN /\ process \in BOOLEAN /\ stopping \in BOOLEAN /\ reader \in ReaderPc
      BY DEF Init, ReaderPc
    <2>5. written = 0 /\ taken = 0
      BY DEF Init
    <2>6. written \in Nat /\ taken \in 0 .. written
      BY <2>5
    <2> QED
      BY <2>2, <2>3, <2>4, <2>6 DEF TypeOK
  <1>2. Before /\ Reaped /\ Held
    BY DEF Init, Before, Reaped, StoppedIsReaped, Held
  <1>3. Line
    <2>1. Bytes(0 + 1, 0) = << >> /\ 0 * FrameBytes = 0
      BY NoBytes, FrameAssumption
    <2> QED
      BY <2>1 DEF Init, Line, Aligned
  <1> QED
    BY <1>1, <1>2, <1>3 DEF IInv

\* The invariant is inductive.
LEMMA NextIInv == IInv /\ [Next]_vars => IInv'
  <1> SUFFICES ASSUME IInv, [Next]_vars
               PROVE  IInv'
    OBVIOUS
  <1>1. CASE Spawn \/ Write \/ Close \/ BecomeReapable
    BY <1>1, RecorderStep
  <1>2. CASE Prime
    BY <1>2, PrimeStep
  <1>3. CASE ReaderStep
    BY <1>3, TakeStep, FillStep, ShortStep, ReaderControlStep DEF ReaderStep
  <1>4. ASSUME NEW s \in Stoppers, CallStop(s) \/ StopStep(s)
        PROVE  IInv'
    BY <1>4, DropStep, StopControlStep DEF StopStep
  <1>5. CASE UNCHANGED vars
    BY <1>5 DEF IInv, TypeOK, Before, Reaped, StoppedIsReaped, Held, Line, Whole, Aligned,
                vars, childVars, readerVars
  <1> QED
    BY <1>1, <1>2, <1>3, <1>4, <1>5 DEF Next

\* The invariant holds in every reachable state, whatever the recorder does and
\* whoever stops it when.
THEOREM ArecordInvariance == Spec => []IInv
  BY InitIInv, NextIInv, PTL DEF Spec

\* Every variable keeps its type; a frame is whole and at most one is held.
THEOREM ArecordTypeCorrect == Spec => []TypeOK
  <1>1. IInv => TypeOK
    BY DEF IInv
  <1> QED
    BY <1>1, ArecordInvariance, PTL

\* stop() of linux_arecord.py: when it has returned, to whichever caller, the
\* recorder was reaped and the source has let go of it.
THEOREM ReapedWhenStopped == Spec => []StoppedIsReaped
  <1>1. IInv => StoppedIsReaped
    BY DEF IInv, Reaped
  <1> QED
    BY <1>1, ArecordInvariance, PTL

\* _prime, frames and _read_exact of linux_arecord.py: the frames are the bytes of
\* the recorder, in order and complete, whatever the size of a frame and wherever
\* the pipe was cut, but for one frame begun when stop() was called.
THEOREM FramesAreTheRecording == Spec => []FramesContiguous
  <1>1. IInv => FramesContiguous
    <2> SUFFICES ASSUME IInv, NEW i \in 1 .. Len(frames)
                 PROVE  \/ frames[i] = Bytes((i - 1) * FrameBytes + 1, i * FrameBytes)
                        \/ Len(frames) = 1 /\ stopping /\ Len(frames[i]) = FrameBytes
      BY DEF FramesContiguous
    <2>1. frames[i] \in [1 .. FrameBytes -> Nat] /\ Len(frames) \in Nat /\ FrameBytes \in Nat
      BY FrameAssumption DEF IInv, TypeOK
    <2>2. Len(frames[i]) = FrameBytes
      BY <2>1
    <2>3. frames # << >>
      BY <2>1
    <2> QED
      BY <2>2, <2>3 DEF IInv, Line, Whole
  <1> QED
    BY <1>1, ArecordInvariance, PTL

-----------------------------------------------------------------------------
(* The refinement. *)

\* A step that changes neither process nor event nor reader shows nothing.
LEMMA Unseen ==
    ASSUME starter' = starter \/ (starter # "started" /\ starter' # "started"),
           starter = "started" => process' = process /\ stopping' = stopping,
           reader' = reader, frames' = frames
    PROVE  UNCHANGED S!vars
  BY DEF S!vars

\* What the reader does is what the pipeline assumes of it.
LEMMA ReaderRefines == ASSUME IInv, ReaderStep PROVE S!Next \/ UNCHANGED S!vars
  <1>1. starter' = starter /\ process' = process /\ stopping' = stopping
    BY DEF ReaderStep, Open, Test, TakePending, FillFrame, ReadShort, Resume, Leave, Poll
  <1>2. reader # "unopened" => starter = "started"
    BY DEF IInv, TypeOK, Before
  <1>3. starter = "started" /\ ~stopping => process
    BY DEF IInv, Before
  <1>4. CASE Open
    BY <1>1, <1>4 DEF Open, S!Next, S!Open
  <1>5. CASE Test
    <2>1. frames' = frames /\ reader = "test" /\ reader' = IF stopping THEN "ended" ELSE "take"
      BY <1>5 DEF Test
    <2>2. CASE stopping
      <3>1. S!Leave
        BY <1>1, <2>1, <2>2 DEF S!Leave
      <3> QED
        BY <3>1 DEF S!Next
    <2>3. CASE ~stopping
      <3>1. S!Ask
        BY <1>1, <1>2, <1>3, <2>1, <2>3 DEF S!Ask
      <3> QED
        BY <3>1 DEF S!Next
    <2> QED
      BY <2>2, <2>3
  <1>6. CASE TakePending \/ ReadShort \/ Resume
    BY <1>1, <1>6 DEF TakePending, ReadShort, Resume, S!vars
  <1>7. CASE FillFrame
    <2>1. reader = "fill" /\ reader' = "yielded" /\ frames' = Append(frames, payload \o Bytes(taken + 1, taken'))
      BY <1>7 DEF FillFrame
    <2>2. Len(frames') = Len(frames) + 1
      BY <2>1 DEF IInv, TypeOK
    <2>3. S!Yield
      BY <1>1, <2>1, <2>2 DEF S!Yield
    <2> QED
      BY <2>3 DEF S!Next
  <1>8. CASE Leave
    <2>1. S!Leave
      BY <1>1, <1>8 DEF Leave, S!Leave
    <2> QED
      BY <2>1 DEF S!Next
  <1>9. CASE Poll
    <2>1. reader = "poll" /\ frames' = frames /\ (reader' = "ended" \/ (reader' = "failed" /\ ~stopping))
      BY <1>9 DEF Poll
    <2>2. CASE reader' = "ended"
      <3>1. S!End
        BY <1>1, <2>1, <2>2 DEF S!End
      <3> QED
        BY <3>1 DEF S!Next
    <2>3. CASE reader' = "failed" /\ ~stopping
      <3>1. S!Fail
        BY <1>1, <1>2, <1>3, <2>1, <2>3 DEF S!Fail
      <3> QED
        BY <3>1 DEF S!Next
    <2> QED
      BY <2>1, <2>2, <2>3
  <1> QED
    BY <1>4, <1>5, <1>6, <1>7, <1>8, <1>9 DEF ReaderStep

\* Told to stop is the event, stopped is the process let go of.
LEMMA StopRefines ==
    ASSUME IInv, NEW s \in Stoppers, CallStop(s) \/ StopStep(s)
    PROVE  S!Next \/ UNCHANGED S!vars
  <1>1. CASE CallStop(s)
    <2>1. /\ starter = "started" /\ starter' = starter /\ stopping' = TRUE /\ process' = process
          /\ reader' = reader /\ frames' = frames
      BY <1>1 DEF CallStop, readerVars
    <2>2. CASE process /\ ~stopping
      <3>1. S!TellToStop
        BY <2>1, <2>2 DEF S!TellToStop
      <3> QED
        BY <3>1 DEF S!Next
    <2>3. CASE ~process \/ stopping
      BY <2>1, <2>3 DEF S!vars
    <2> QED
      BY <2>2, <2>3
  <1>2. CASE DropPending(s) \/ Terminate(s) \/ Wait(s) \/ WaitKilled(s)
    BY <1>2, Unseen DEF DropPending, Terminate, Wait, WaitKilled, readerVars
  <1>3. CASE Release(s)
    <2>1. /\ stopper[s] = "release" /\ starter' = starter /\ stopping' = stopping /\ process' = FALSE
          /\ reader' = reader /\ frames' = frames
      BY <1>3 DEF Release, readerVars
    <2>2. stopping /\ starter = "started"
      BY <2>1 DEF IInv, TypeOK, Before
    <2>3. CASE process
      <3>1. S!Stopped
        BY <2>1, <2>2, <2>3 DEF S!Stopped
      <3> QED
        BY <3>1 DEF S!Next
    <2>4. CASE ~process
      BY <2>1, <2>4 DEF S!vars
    <2> QED
      BY <2>3, <2>4
  <1> QED
    BY <1>1, <1>2, <1>3 DEF StopStep

\* Every step is one of AudioSource, or shows nothing.
LEMMA StepRefines == IInv /\ [Next]_vars => [S!Next]_S!vars
  <1> SUFFICES ASSUME IInv, [Next]_vars
               PROVE  S!Next \/ UNCHANGED S!vars
    OBVIOUS
  <1>1. CASE Write \/ Close \/ BecomeReapable
    BY <1>1, Unseen DEF Write, Close, BecomeReapable, readerVars
  <1>2. CASE Spawn
    BY <1>2, Unseen DEF Spawn, readerVars
  <1>3. CASE Prime
    <2>1. starter = "prime" /\ process /\ ~stopping
      BY <1>3 DEF IInv, Before, Prime
    <2>2. S!Start
      BY <1>3, <2>1 DEF Prime, readerVars, S!Start
    <2> QED
      BY <2>2 DEF S!Next
  <1>4. CASE ReaderStep
    BY <1>4, ReaderRefines
  <1>5. ASSUME NEW s \in Stoppers, CallStop(s) \/ StopStep(s)
        PROVE  S!Next \/ UNCHANGED S!vars
    BY <1>5, StopRefines
  <1>6. CASE UNCHANGED vars
    BY <1>6, Unseen DEF vars, readerVars
  <1> QED
    BY <1>1, <1>2, <1>3, <1>4, <1>5, <1>6 DEF Next

\* ArecordSource is the microphone that PipelineSession relies on: whoever asks
\* for a frame after it was told to stop gets none, only a frame in the middle of
\* being read may still come, and no read can begin once it is stopped.
THEOREM ImplementsAudioSource == Spec => Refinement
  <1>1. Init => S!Init
    BY DEF Init, S!Init
  <1> QED
    BY <1>1, ArecordInvariance, StepRefines, PTL DEF Spec, Refinement, S!Spec
=============================================================================
