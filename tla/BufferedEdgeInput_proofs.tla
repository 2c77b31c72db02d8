---------------------- MODULE BufferedEdgeInput_proofs ----------------------
(***************************************************************************)
(* The safety of BufferedEdgeInput for every buffer size, file and number  *)
(* of calls.  ReaderParked, BuffersBounded and KthCallKthRecord are not    *)
(* inductive: Inv adds where the threads are when a buffer is empty        *)
(* (Control) and how full writeBuffer is when the reader parks (Filled).   *)
(***************************************************************************)
EXTENDS BufferedEdgeInput, SequenceTheorems, TLAPS

\* Where the flags, the buffers and the two program counters must agree.
Control ==
    /\ rpc = "unstarted" <=> mpc = "ctor"
    /\ rpc = "unstarted" => writeBuffer = <<>> /\ i = 0
    /\ rpc = "crashed" <=> mpc = "crashed"
    /\ rpc = "exited" => mpc = "exited"
    /\ swapWaiting => rpc \in {"wait", "relock", "done", "exited", "crashed"}
    /\ endOfFile => rpc \in {"done", "exited", "crashed"}
    /\ rpc = "done" => endOfFile
    /\ mpc \in {"ctor", "reserve", "reserving", "lock", "wait"} => readBuffer = <<>>
    /\ rpc \in {"wait", "relock"} /\ ~swapWaiting => writeBuffer = <<>>
    /\ mpc = "notify" => currentElement = 0
    /\ mpc \in {"lock", "wait", "notify"} => calls < NumCalls
    /\ mpc \in {"ctor", "reserve", "reserving"} => ~lossy

\* How much of a buffer the reader has filled.
Filled ==
    /\ Len(writeBuffer) <= i
    /\ Len(readBuffer) <= BUFFER_SIZE
    /\ endOfFile => filePos = Total
    /\ ~lossy /\ rpc = "read" => Len(writeBuffer) = i
    /\ ~lossy /\ rpc \in {"wait", "relock"} /\ swapWaiting
          => Len(writeBuffer) = BUFFER_SIZE

\* get_edge returns false only when the file is exhausted.
FalseAtEnd ==
    ~lossy /\ mpc = "notify" /\ readBuffer = <<>> => last = Total

Inv ==
    /\ TypeOK
    /\ Control
    /\ Filled
    /\ NothingLost
    /\ FalseAtEnd
    /\ KthCallKthRecord
USE BufferAssumption, MaxRecordsAssumption, CallsAssumption

\* The number of records is a natural number.
LEMMA TotalType == records \in 0 .. MaxRecords /\ torn \in BOOLEAN => Total \in Nat
  BY DEF Total

\* The initial states satisfy the inductive invariant.
LEMMA InitInv == Init => Inv
  <1> SUFFICES ASSUME Init PROVE Inv
    OBVIOUS
  <1>a. Total \in Nat
    BY TotalType DEF Init
  <1>1. TypeOK
    <2>1. readBuffer \in Seq(Nat) /\ writeBuffer \in Seq(Nat)
      BY EmptySeq DEF Init
    <2>2. swapWaiting \in BOOLEAN /\ endOfFile \in BOOLEAN /\ lossy \in BOOLEAN
      BY Zenon DEF Init
    <2> QED BY <1>a, <2>1, <2>2 DEF Init, TypeOK
  <1>2. Control /\ Filled /\ FalseAtEnd
    BY DEF Init, Control, Filled, FalseAtEnd
  <1>3. NothingLost
    BY DEF Init, NothingLost, Unread
  <1>4. KthCallKthRecord
    BY TotalType DEF Init, KthCallKthRecord
  <1> QED BY <1>1, <1>2, <1>3, <1>4 DEF Inv

\* Every step of either thread preserves the inductive invariant.
LEMMA NextInv == Inv /\ [Next]_vars => Inv'
  <1> SUFFICES ASSUME Inv, [Next]_vars PROVE Inv'
    OBVIOUS
  <1> USE DEF fileVars, flags
  <1>a. Total \in Nat
    BY TotalType DEF Inv, TypeOK
  <1>1. CASE StartReader
    BY <1>1 DEF Inv, TypeOK, Control, Filled, NothingLost, FalseAtEnd,
       KthCallKthRecord, Unread, Total, StartReader
  <1>2. CASE ReserveBegin
    BY <1>2 DEF Inv, TypeOK, Control, Filled, NothingLost, FalseAtEnd,
       KthCallKthRecord, Unread, Total, ReserveBegin
  <1>3. CASE ReserveEnd
    <2>1. PICK kept \in reserved .. Len(writeBuffer) :
             /\ writeBuffer' = SubSeq(writeBuffer, 1, kept)
             /\ lossy' = (kept < Len(writeBuffer))
      BY <1>3 DEF ReserveEnd
    <2>2. /\ writeBuffer' \in Seq(Nat)
          /\ Len(writeBuffer') = kept
          /\ \A j \in 1 .. kept : writeBuffer'[j] = writeBuffer[j]
      BY <2>1, SubSeqProperties DEF Inv, TypeOK
    <2>3. Len(writeBuffer) \in Nat /\ kept \in Nat /\ kept <= Len(writeBuffer)
      BY <2>1 DEF Inv, TypeOK
    <2>4. TypeOK'
      BY <1>3, <2>1, <2>2 DEF Inv, TypeOK, Total, ReserveEnd
    <2>5. Control'
      BY <1>3, <2>1, <2>2, <2>3 DEF Inv, TypeOK, Control, ReserveEnd
    <2>a. lossy' \/ kept = Len(writeBuffer)
      <3>1. CASE kept < Len(writeBuffer)
        BY <2>1, <3>1, Zenon
      <3> QED BY <2>3, <3>1
    <2>6. Filled'
      BY <1>3, <2>2, <2>3, <2>a DEF Inv, TypeOK, Control, Filled, ReserveEnd, Total
    <2>7. NothingLost'
      <3>1. ~lossy
        BY <1>3 DEF Inv, Control, ReserveEnd
      <3>2. Unread' = Unread
        BY <1>3 DEF Unread, ReserveEnd
      <3> SUFFICES ASSUME ~lossy' PROVE NothingLost'
        BY DEF NothingLost
      <3>3. Len(writeBuffer') = Len(writeBuffer)
        BY <2>2, <2>a
      <3> QED
        BY <1>3, <2>2, <2>3, <2>a, <3>1, <3>2, <3>3 DEF Inv, TypeOK, NothingLost, ReserveEnd
    <2>8. FalseAtEnd'
      BY <1>3 DEF FalseAtEnd, ReserveEnd
    <2>9. KthCallKthRecord'
      BY <1>3 DEF Inv, KthCallKthRecord, Control, ReserveEnd, Total
    <2> QED BY <2>4, <2>5, <2>6, <2>7, <2>8, <2>9 DEF Inv
  <1>4. CASE GetEdgeHit
    <2>1. /\ currentElement \in Nat /\ Len(readBuffer) \in Nat
          /\ currentElement + 1 \in DOMAIN readBuffer
          /\ readBuffer[currentElement + 1] \in Nat
          /\ last' = readBuffer[currentElement + 1]
          /\ currentElement' = currentElement + 1
          /\ calls' = calls + 1
          /\ Total' = Total
      BY <1>4 DEF Inv, TypeOK, GetEdgeHit, ReturnEdge, Total
    <2>2. TypeOK' /\ Control' /\ Filled' /\ FalseAtEnd'
      BY <1>4, <2>1 DEF Inv, TypeOK, Control, Filled, FalseAtEnd, GetEdgeHit,
         ReturnEdge
    <2>3. ~lossy => last' = last + 1
      BY <1>4, <2>1 DEF Inv, TypeOK, NothingLost, GetEdgeHit
    <2>4. Unread' = Unread - 1 /\ Unread \in Nat
      BY <1>4, <2>1 DEF Unread, GetEdgeHit
    <2>5. NothingLost'
      <3> SUFFICES ASSUME ~lossy PROVE NothingLost'
        BY <1>4 DEF NothingLost, GetEdgeHit
      <3>1. filePos' = last' + Unread' + Len(writeBuffer')
        BY <1>4, <2>1, <2>3, <2>4 DEF Inv, TypeOK, NothingLost, GetEdgeHit
      <3>2. ASSUME NEW j \in (currentElement' + 1) .. Len(readBuffer')
            PROVE  readBuffer'[j] = last' + (j - currentElement')
        <4>1. readBuffer[j] = last + (j - currentElement)
          BY <1>4, <2>1, <3>2 DEF Inv, NothingLost, GetEdgeHit
        <4> QED BY <1>4, <2>1, <2>3, <3>2, <4>1 DEF Inv, TypeOK, GetEdgeHit
      <3>3. ASSUME NEW j \in 1 .. Len(writeBuffer')
            PROVE  writeBuffer'[j] = last' + Unread' + j
        <4>1. writeBuffer[j] = last + Unread + j
          BY <1>4, <3>3 DEF Inv, NothingLost, GetEdgeHit
        <4> QED BY <1>4, <2>1, <2>3, <2>4, <3>3, <4>1 DEF Inv, TypeOK, GetEdgeHit
      <3> QED BY <3>1, <3>2, <3>3 DEF NothingLost
    <2>6. ~lossy => last < Total
      BY <1>4, <2>1, <1>a DEF Inv, TypeOK, NothingLost, GetEdgeHit, Unread
    <2>7. KthCallKthRecord'
      BY <1>4, <1>a, <2>1, <2>3, <2>6 DEF Inv, TypeOK, KthCallKthRecord, GetEdgeHit
    <2> QED BY <2>2, <2>5, <2>7 DEF Inv
  <1>5. CASE GetEdgeMiss
    BY <1>5 DEF Inv, TypeOK, Control, Filled, NothingLost, FalseAtEnd,
       KthCallKthRecord, Unread, Total, GetEdgeMiss
  <1>6. CASE GetEdgeBlock
    BY <1>6 DEF Inv, TypeOK, Control, Filled, NothingLost, FalseAtEnd,
       KthCallKthRecord, Unread, Total, GetEdgeBlock
  <1>7. CASE GetEdgeSwap
    <2>1. /\ readBuffer = <<>> /\ readBuffer' = writeBuffer /\ writeBuffer' = <<>>
          /\ currentElement' = 0 /\ Total' = Total
      BY <1>7 DEF Inv, Control, GetEdgeSwap, Total
    <2>2. TypeOK'
      <3>1. readBuffer' \in Seq(Nat) /\ writeBuffer' \in Seq(Nat)
        BY <2>1, EmptySeq DEF Inv, TypeOK
      <3>2. swapWaiting' \in BOOLEAN
        BY <1>7, Zenon DEF GetEdgeSwap
      <3> QED BY <1>7, <2>1, <3>1, <3>2 DEF Inv, TypeOK, GetEdgeSwap
    <2>8. KthCallKthRecord'
      BY <1>7, <2>1 DEF Inv, KthCallKthRecord, GetEdgeSwap
    <2>6. Control'
      BY <1>7, <2>1 DEF Inv, TypeOK, Control, GetEdgeSwap
    <2>7. Filled'
      BY <1>7, <2>1 DEF Inv, TypeOK, Control, Filled, GetEdgeSwap, SwapAllowed
    <2>3. Unread = 0 /\ Unread' = Len(writeBuffer)
      BY <2>1 DEF Inv, TypeOK, Unread
    <2>4. NothingLost'
      BY <1>7, <2>1, <2>3 DEF Inv, TypeOK, NothingLost, GetEdgeSwap
    <2>5. FalseAtEnd'
      <3> SUFFICES ASSUME ~lossy, writeBuffer = <<>> PROVE last = Total
        BY <1>7, <2>1 DEF FalseAtEnd, GetEdgeSwap
      <3>1. endOfFile
        BY <1>7 DEF Inv, Control, Filled, GetEdgeSwap, SwapAllowed, TypeOK
      <3> QED
        BY <2>3, <3>1 DEF Inv, TypeOK, Filled, NothingLost
    <2> QED BY <2>2, <2>4, <2>5, <2>6, <2>7, <2>8 DEF Inv
  <1>8. CASE GetEdgeNotify
    <2>1. /\ currentElement = 0 /\ Len(readBuffer) \in Nat /\ Total' = Total
          /\ calls < NumCalls /\ calls' = calls + 1
      BY <1>8 DEF Inv, TypeOK, Control, GetEdgeNotify, ReturnEdge, Total
    <2>2. TypeOK' /\ Control' /\ Filled' /\ FalseAtEnd'
      BY <1>8, <2>1 DEF Inv, TypeOK, Control, Filled, FalseAtEnd, GetEdgeNotify,
         ReturnEdge, WakeReader
    <2>3. CASE readBuffer = <<>>
      <3>1. last' = last /\ currentElement' = currentElement
        BY <1>8, <2>1, <2>3 DEF GetEdgeNotify, ReturnEdge
      <3>2. NothingLost'
        BY <1>8, <2>1, <2>3, <3>1 DEF Inv, TypeOK, NothingLost, Unread, GetEdgeNotify
      <3>3. KthCallKthRecord'
        BY <1>8, <1>a, <2>1, <2>3, <3>1
           DEF Inv, TypeOK, KthCallKthRecord, FalseAtEnd, GetEdgeNotify
      <3> QED BY <2>2, <3>2, <3>3 DEF Inv
    <2>4. CASE readBuffer # <<>>
      <3>1. /\ 1 \in DOMAIN readBuffer /\ Len(readBuffer) > 0
            /\ last' = readBuffer[1] /\ currentElement' = 1
        BY <1>8, <2>1, <2>4 DEF Inv, TypeOK, GetEdgeNotify, ReturnEdge
      <3>2. ~lossy => last' = last + 1
        BY <2>1, <3>1 DEF Inv, TypeOK, NothingLost
      <3>a. readBuffer' = readBuffer /\ writeBuffer' = writeBuffer /\ lossy' = lossy
            /\ filePos' = filePos
        BY <1>8 DEF GetEdgeNotify
      <3>3. Unread = Len(readBuffer) /\ Unread' = Unread - 1
        <4>1. Unread = Len(readBuffer)
          BY <2>1, <3>1 DEF Unread
        <4>2. Unread' = IF 1 < Len(readBuffer) THEN Len(readBuffer) - 1 ELSE 0
          BY <3>1, <3>a DEF Unread
        <4> QED BY <2>1, <3>1, <4>1, <4>2
      <3>4. NothingLost'
        <4> SUFFICES ASSUME ~lossy PROVE NothingLost'
          BY <3>a DEF NothingLost
        <4>1. filePos' = last' + Unread' + Len(writeBuffer')
          BY <2>1, <3>a, <3>2, <3>3 DEF Inv, TypeOK, NothingLost
        <4>2. ASSUME NEW j \in (currentElement' + 1) .. Len(readBuffer')
              PROVE  readBuffer'[j] = last' + (j - currentElement')
          <5>1. readBuffer[j] = last + j
            BY <2>1, <3>1, <3>a, <4>2 DEF Inv, TypeOK, NothingLost
          <5> QED BY <2>1, <3>1, <3>a, <3>2, <4>2, <5>1 DEF Inv, TypeOK
        <4>3. ASSUME NEW j \in 1 .. Len(writeBuffer')
              PROVE  writeBuffer'[j] = last' + Unread' + j
          <5>1. writeBuffer[j] = last + Unread + j
            BY <3>a, <4>3 DEF Inv, NothingLost
          <5> QED BY <2>1, <3>a, <3>2, <3>3, <4>3, <5>1 DEF Inv, TypeOK
        <4> QED BY <4>1, <4>2, <4>3 DEF NothingLost
      <3>5. ~lossy => last < Total
        BY <1>a, <2>1, <3>1, <3>3 DEF Inv, TypeOK, NothingLost
      <3>6. KthCallKthRecord'
        BY <1>8, <1>a, <2>1, <3>2, <3>5 DEF Inv, TypeOK, KthCallKthRecord, GetEdgeNotify
      <3> QED BY <2>2, <3>4, <3>6 DEF Inv
    <2> QED BY <2>3, <2>4
  <1>9. CASE Exit
    BY <1>9 DEF Inv, TypeOK, Control, Filled, NothingLost, FalseAtEnd,
       KthCallKthRecord, Unread, Total, Exit
  <1>10. CASE Destroy
    BY <1>10 DEF Inv, TypeOK, Control, Filled, NothingLost, FalseAtEnd,
       KthCallKthRecord, Unread, Total, Destroy
  <1>20. CASE Joined
    BY <1>20 DEF Inv, TypeOK, Control, Filled, NothingLost, FalseAtEnd,
       KthCallKthRecord, Unread, Total, Joined
  <1>11. CASE IngestRecord
    <2>1. /\ writeBuffer' \in Seq(Nat)
          /\ Len(writeBuffer') = Len(writeBuffer) + 1
          /\ \A j \in 1 .. Len(writeBuffer) : writeBuffer'[j] = writeBuffer[j]
          /\ writeBuffer'[Len(writeBuffer) + 1] = filePos + 1
          /\ Len(writeBuffer) \in Nat
          /\ Total' = Total
      BY <1>11, AppendProperties DEF Inv, TypeOK, IngestRecord, Total
    <2>2. TypeOK' /\ FalseAtEnd' /\ KthCallKthRecord'
      BY <1>11, <1>a, <2>1 DEF Inv, TypeOK, FalseAtEnd, KthCallKthRecord, IngestRecord
    <2>5. Control'
      BY <1>11, <2>1 DEF Inv, TypeOK, Control, IngestRecord
    <2>6. Filled'
      BY <1>11, <1>a, <2>1 DEF Inv, TypeOK, Control, Filled, IngestRecord
    <2>3. Unread' = Unread /\ Unread \in Nat
      BY <1>11 DEF Inv, TypeOK, Unread, IngestRecord
    <2>4. NothingLost'
      <3> SUFFICES ASSUME ~lossy PROVE NothingLost'
        BY <1>11 DEF NothingLost, IngestRecord
      <3>1. filePos' = last' + Unread' + Len(writeBuffer')
        BY <1>11, <2>1, <2>3 DEF Inv, TypeOK, NothingLost, IngestRecord
      <3>2. \A j \in (currentElement' + 1) .. Len(readBuffer') :
               readBuffer'[j] = last' + (j - currentElement')
        BY <1>11 DEF Inv, NothingLost, IngestRecord
      <3>3. ASSUME NEW j \in 1 .. Len(writeBuffer')
            PROVE  writeBuffer'[j] = last' + Unread' + j
        <4>1. CASE j \in 1 .. Len(writeBuffer)
          BY <1>11, <2>1, <2>3, <4>1 DEF Inv, NothingLost, IngestRecord
        <4>2. CASE j = Len(writeBuffer) + 1
          BY <1>11, <2>1, <2>3, <4>2 DEF Inv, TypeOK, NothingLost, IngestRecord
        <4> QED BY <2>1, <4>1, <4>2
      <3> QED BY <3>1, <3>2, <3>3 DEF NothingLost
    <2> QED BY <2>2, <2>4, <2>5, <2>6 DEF Inv
  <1>12. CASE IngestEnd
    BY <1>12 DEF Inv, TypeOK, Control, Filled, NothingLost, FalseAtEnd,
       KthCallKthRecord, Unread, Total, IngestEnd, WakeMain
  <1>13. CASE IngestFull
    BY <1>13 DEF Inv, TypeOK, Control, Filled, NothingLost, FalseAtEnd,
       KthCallKthRecord, Unread, Total, IngestFull, WakeMain
  <1>14. CASE IngestReblock
    BY <1>14 DEF Inv, TypeOK, Control, Filled, NothingLost, FalseAtEnd,
       KthCallKthRecord, Unread, Total, IngestReblock
  <1>15. CASE IngestResume
    BY <1>15 DEF Inv, TypeOK, Control, Filled, NothingLost, FalseAtEnd,
       KthCallKthRecord, Unread, Total, IngestResume
  <1>16. CASE ReserveCorrupts
    BY <1>16 DEF Inv, TypeOK, Control, Filled, NothingLost, FalseAtEnd,
       KthCallKthRecord, Unread, Total, ReserveCorrupts
  <1>17. CASE SpuriousWakeup
    BY <1>17 DEF Inv, TypeOK, Control, Filled, NothingLost, FalseAtEnd,
       KthCallKthRecord, Unread, Total, SpuriousWakeup, WakeMain, WakeReader
  <1>18. CASE Ended
    BY <1>18 DEF Inv, TypeOK, Control, Filled, NothingLost, FalseAtEnd,
       KthCallKthRecord, Unread, Total, Ended, vars
  <1>19. CASE UNCHANGED vars
    BY <1>19 DEF Inv, TypeOK, Control, Filled, NothingLost, FalseAtEnd, KthCallKthRecord, Unread, Total, vars
  <1> QED
    BY <1>1, <1>2, <1>3, <1>4, <1>5, <1>6, <1>7, <1>8, <1>9,
       <1>10, <1>11, <1>12, <1>13, <1>14, <1>15, <1>16, <1>17, <1>18, <1>19, <1>20
       DEF Next, MainStep, ReaderStep

\* The inductive invariant holds throughout.
THEOREM Invariance == Spec => []Inv
  BY InitInv, NextInv, PTL DEF Spec

\* Every variable keeps its type: in particular ingest's counter never leaves
\* its loop bound and the reader never runs past the file.
THEOREM TypeCorrect == Spec => []TypeOK
  <1>1. Inv => TypeOK
    BY DEF Inv
  <1> QED BY <1>1, Invariance, PTL

\* Whenever main may swap the buffers, the reader is not filling one.
THEOREM ParkedCorrect == Spec => []ReaderParked
  <1>1. Inv => ReaderParked
    BY DEF Inv, TypeOK, Control, ReaderParked, SwapAllowed
  <1> QED BY <1>1, Invariance, PTL

\* Neither vector ever outgrows what its reserve() asked for.
THEOREM BoundCorrect == Spec => []BuffersBounded
  <1>1. Inv => BuffersBounded
    BY DEF Inv, TypeOK, Filled, BuffersBounded
  <1> QED BY <1>1, Invariance, PTL

\* Records are conserved, in order, between the file, the two buffers and the
\* driver.
THEOREM ConservationCorrect == Spec => []NothingLost
  <1>1. Inv => NothingLost
    BY DEF Inv
  <1> QED BY <1>1, Invariance, PTL

\* The k-th call of get_edge returns the k-th record, false past the last.
THEOREM KthCallCorrect == Spec => []KthCallKthRecord
  <1>1. Inv => KthCallKthRecord
    BY DEF Inv
  <1> QED BY <1>1, Invariance, PTL

-----------------------------------------------------------------------------
(* The refinement of EdgeSource.  Without a loss Inv says what get_edge      *)
(* hands out; after one, it must be known that the records in the buffers    *)
(* still are in file order and that the only gap is in the first buffer.     *)

\* Record q may come after record p: it is the next one, or both are at a gap
\* of the first buffer.
Follows(p, q) == p < q /\ (q = p + 1 \/ (p < BUFFER_SIZE /\ q <= BUFFER_SIZE + 1))

\* The last record that main can see, and the last one emplaced.
ReadTail == IF currentElement < Len(readBuffer) THEN readBuffer[Len(readBuffer)] ELSE last
WriteTail == IF writeBuffer = <<>> THEN ReadTail ELSE writeBuffer[Len(writeBuffer)]

\* What main has yet to hand out of readBuffer, in order.
ReadOrder ==
    /\ currentElement < Len(readBuffer) => Follows(last, readBuffer[currentElement + 1])
    /\ \A j \in currentElement + 1 .. Len(readBuffer) : readBuffer[j] <= filePos
    /\ \A j \in currentElement + 1 .. Len(readBuffer) - 1 :
          Follows(readBuffer[j], readBuffer[j + 1])

\* What the reader has emplaced, in order.
WriteOrder ==
    /\ writeBuffer # <<>> => Follows(ReadTail, writeBuffer[1])
    /\ \A j \in 1 .. Len(writeBuffer) : writeBuffer[j] <= filePos
    /\ \A j \in 1 .. Len(writeBuffer) - 1 : Follows(writeBuffer[j], writeBuffer[j + 1])

\* A buffer can have lost all its records only if it is the first.
EmptyIsFirst ==
    writeBuffer = <<>> /\ (\/ rpc = "read" /\ i > 0
                           \/ rpc \in {"wait", "relock"} /\ swapWaiting)
      => ReadTail < BUFFER_SIZE

\* get_edge returns false at the end of the file or within the first buffer.
FalseAtGap == mpc = "notify" /\ readBuffer = <<>> => last = Total \/ last < BUFFER_SIZE

LossInv ==
    /\ mpc \in {"ctor", "reserve", "reserving"} => last = 0 /\ calls = 0
    /\ lossy => /\ ReadOrder
                /\ WriteOrder
                /\ Follows(WriteTail, filePos + 1)
                /\ EmptyIsFirst
                /\ FalseAtGap

\* The initial states have lost nothing.
LEMMA InitLoss == Init => LossInv
  BY DEF Init, LossInv

\* Steps that touch neither the buffers nor the position in the file.
LEMMA LossQuiet ==
    ASSUME Inv, LossInv,
           UNCHANGED <<readBuffer, writeBuffer, currentElement, last, calls, filePos, lossy,
                       records, torn>>,
           mpc' \in {"ctor", "reserve", "reserving"} => mpc \in {"ctor", "reserve", "reserving"},
           mpc' = "notify" => mpc = "notify",
           rpc' = "read" /\ i' > 0 => rpc = "read" /\ i' = i,
           rpc' \in {"wait", "relock"} /\ swapWaiting'
              => \/ rpc \in {"wait", "relock"} /\ swapWaiting
                 \/ rpc = "read" /\ i = BUFFER_SIZE
    PROVE  LossInv'
  <1>1. ReadTail' = ReadTail /\ Total' = Total
    BY DEF ReadTail, Total
  <1>2. WriteTail' = WriteTail
    BY <1>1 DEF WriteTail
  <1>3. lossy => ReadOrder' /\ WriteOrder' /\ Follows(WriteTail', filePos' + 1)
    BY <1>1, <1>2 DEF LossInv, ReadOrder, WriteOrder
  <1>4. lossy => EmptyIsFirst'
    BY <1>1 DEF LossInv, EmptyIsFirst
  <1>5. lossy => FalseAtGap'
    BY <1>1 DEF LossInv, FalseAtGap
  <1> QED BY <1>3, <1>4, <1>5 DEF LossInv

\* The constructor's race: the reader has read no more than the first buffer.
LEMMA LossReserve ==
    ASSUME Inv, LossInv, ReserveEnd
    PROVE  LossInv'
  <1> USE DEF fileVars, flags
  <1>1. PICK kept \in reserved .. Len(writeBuffer) :
           /\ writeBuffer' = SubSeq(writeBuffer, 1, kept)
           /\ lossy' = (kept < Len(writeBuffer))
    BY DEF ReserveEnd
  <1>2. /\ Len(writeBuffer') = kept /\ kept \in Nat
        /\ writeBuffer' \in Seq(Nat) /\ writeBuffer \in Seq(Nat)
        /\ \A j \in 1 .. kept : writeBuffer'[j] = writeBuffer[j]
    BY <1>1, SubSeqProperties DEF Inv, TypeOK
  <1>3. /\ last = 0 /\ readBuffer = <<>> /\ ~lossy /\ calls = 0
        /\ UNCHANGED <<readBuffer, currentElement, last, filePos, calls>>
        /\ mpc' = "idle" /\ currentElement \in Nat
    BY DEF Inv, TypeOK, Control, LossInv, ReserveEnd
  <1>4. ReadTail' = 0 /\ Unread = 0
    BY <1>3 DEF ReadTail, Unread
  <1>5. filePos = Len(writeBuffer) /\ filePos <= BUFFER_SIZE /\ kept <= filePos
    BY <1>1, <1>2, <1>3, <1>4 DEF Inv, TypeOK, NothingLost, Filled
  <1>6. \A j \in 1 .. kept : writeBuffer'[j] = j
    BY <1>1, <1>2, <1>3, <1>4 DEF Inv, NothingLost
  <1>7. ReadOrder'
    BY <1>3 DEF ReadOrder
  <1>8. WriteOrder'
    BY <1>2, <1>3, <1>4, <1>5, <1>6 DEF WriteOrder, Follows
  <1>9. WriteTail' = kept
    BY <1>2, <1>4, <1>6 DEF WriteTail
  <1>10. lossy' => kept < filePos
    <2>1. lossy' => kept < Len(writeBuffer)
      BY <1>1, Zenon
    <2> QED BY <1>5, <2>1
  <1>11. lossy' => Follows(WriteTail', filePos' + 1)
    BY <1>2, <1>3, <1>5, <1>9, <1>10 DEF Follows, Inv, TypeOK
  <1>12. EmptyIsFirst' /\ FalseAtGap'
    BY <1>3, <1>4 DEF EmptyIsFirst, FalseAtGap
  <1> QED BY <1>3, <1>7, <1>8, <1>11, <1>12 DEF LossInv

\* get_edge hands out the next record that main can see.
LEMMA LossHit ==
    ASSUME Inv, LossInv, currentElement < Len(readBuffer),
           last' = readBuffer[currentElement + 1], currentElement' = currentElement + 1,
           UNCHANGED <<readBuffer, writeBuffer, filePos, i, lossy, records, torn, swapWaiting>>,
           mpc' = "idle", rpc' = rpc \/ (rpc = "wait" /\ rpc' = "relock")
    PROVE  LossInv'
  <1>1. /\ readBuffer \in Seq(Nat) /\ writeBuffer \in Seq(Nat) /\ currentElement \in Nat
        /\ Len(readBuffer) \in Nat /\ Len(writeBuffer) \in Nat
    BY DEF Inv, TypeOK
  <1>2. ReadTail' = ReadTail
    BY <1>1 DEF ReadTail
  <1>3. WriteTail' = WriteTail
    BY <1>2 DEF WriteTail
  <1> SUFFICES ASSUME lossy PROVE LossInv'
    BY DEF LossInv
  <1>4. ReadOrder'
    BY <1>1 DEF LossInv, ReadOrder
  <1>5. WriteOrder' /\ Follows(WriteTail', filePos' + 1)
    BY <1>2, <1>3 DEF LossInv, WriteOrder
  <1>6. EmptyIsFirst' /\ FalseAtGap'
    BY <1>2 DEF LossInv, EmptyIsFirst, FalseAtGap
  <1> QED BY <1>4, <1>5, <1>6 DEF LossInv

\* A swap passes the order on, and an empty buffer only at a gap or the end.
LEMMA LossSwap ==
    ASSUME Inv, LossInv, GetEdgeSwap
    PROVE  LossInv'
  <1> USE DEF fileVars, flags
  <1>1. /\ readBuffer = <<>> /\ readBuffer' = writeBuffer /\ writeBuffer' = <<>>
        /\ currentElement' = 0 /\ mpc' = "notify" /\ mpc = "lock"
        /\ UNCHANGED <<filePos, last, lossy, rpc, records, torn, i>>
        /\ swapWaiting' = FALSE
    BY DEF Inv, Control, GetEdgeSwap
  <1>2. /\ writeBuffer \in Seq(Nat) /\ Len(writeBuffer) \in Nat /\ currentElement \in Nat
        /\ last \in Nat /\ filePos \in Nat /\ Total \in Nat
    BY TotalType DEF Inv, TypeOK
  <1>3. ReadTail = last
    BY <1>1, <1>2 DEF ReadTail
  <1>4. ReadTail' = WriteTail /\ WriteTail' = WriteTail
    BY <1>1, <1>2, <1>3 DEF ReadTail, WriteTail
  <1> SUFFICES ASSUME lossy PROVE LossInv'
    BY <1>1 DEF LossInv
  <1>5. WriteOrder /\ Follows(WriteTail, filePos + 1) /\ EmptyIsFirst
    BY DEF LossInv
  <1>6. ReadOrder'
    BY <1>1, <1>2, <1>3, <1>5 DEF ReadOrder, WriteOrder
  <1>7. WriteOrder'
    BY <1>1 DEF WriteOrder
  <1>b. rpc # "read"
    BY DEF Inv, Control, GetEdgeSwap, SwapAllowed
  <1>8. EmptyIsFirst'
    BY <1>1, <1>b DEF EmptyIsFirst
  <1>9. FalseAtGap'
    <2> SUFFICES ASSUME writeBuffer = <<>> PROVE last = Total \/ last < BUFFER_SIZE
      BY <1>1 DEF FalseAtGap, Total
    <2>1. Follows(last, filePos + 1)
      BY <1>3, <1>5 DEF WriteTail
    <2>2. CASE endOfFile
      BY <1>2, <2>1, <2>2 DEF Follows, Inv, Filled
    <2>3. CASE ~endOfFile
      <3>1. rpc \in {"wait", "relock"} /\ swapWaiting
        BY <2>3, <1>1 DEF Inv, Control, GetEdgeSwap, SwapAllowed
      <3> QED BY <1>3, <1>5, <3>1 DEF EmptyIsFirst
    <2> QED BY <2>2, <2>3
  <1> QED BY <1>1, <1>4, <1>5, <1>6, <1>7, <1>8, <1>9 DEF LossInv

\* The reader appends the next record of the file.
LEMMA LossRecord ==
    ASSUME Inv, LossInv, IngestRecord
    PROVE  LossInv'
  <1> USE DEF fileVars, flags
  <1>1. /\ writeBuffer' \in Seq(Nat) /\ writeBuffer \in Seq(Nat)
        /\ Len(writeBuffer') = Len(writeBuffer) + 1
        /\ \A j \in 1 .. Len(writeBuffer) : writeBuffer'[j] = writeBuffer[j]
        /\ writeBuffer'[Len(writeBuffer) + 1] = filePos + 1
        /\ Len(writeBuffer) \in Nat
    BY AppendProperties DEF Inv, TypeOK, IngestRecord
  <1>2. /\ filePos' = filePos + 1 /\ filePos \in Nat /\ currentElement \in Nat
        /\ readBuffer \in Seq(Nat) /\ Len(readBuffer) \in Nat
        /\ UNCHANGED <<readBuffer, currentElement, last, lossy, mpc, rpc, records, torn, calls>>
    BY DEF Inv, TypeOK, IngestRecord
  <1>3. ReadTail' = ReadTail
    BY <1>2 DEF ReadTail
  <1>4. WriteTail' = filePos + 1
    BY <1>1 DEF WriteTail
  <1>5. Follows(WriteTail', filePos' + 1)
    BY <1>2, <1>4 DEF Follows
  <1> SUFFICES ASSUME lossy PROVE LossInv'
    BY <1>2 DEF LossInv
  <1>a. ReadOrder /\ WriteOrder /\ Follows(WriteTail, filePos + 1)
    BY DEF LossInv
  <1>6. ReadOrder'
    BY <1>2, <1>a DEF ReadOrder
  <1>7. WriteOrder'
    <2>1. Follows(ReadTail', writeBuffer'[1])
      <3>1. CASE writeBuffer = <<>>
        BY <1>1, <1>3, <1>a, <3>1 DEF WriteTail
      <3>2. CASE writeBuffer # <<>>
        <4>1. 1 \in 1 .. Len(writeBuffer)
          BY <1>1, <3>2
        <4>2. writeBuffer'[1] = writeBuffer[1]
          BY <1>1, <4>1
        <4> QED BY <1>3, <1>a, <3>2, <4>2 DEF WriteOrder
      <3> QED BY <3>1, <3>2
    <2>2. \A j \in 1 .. Len(writeBuffer') : writeBuffer'[j] <= filePos'
      <3>1. ASSUME NEW j \in 1 .. Len(writeBuffer) PROVE writeBuffer'[j] <= filePos'
        <4>1. writeBuffer[j] \in Nat /\ writeBuffer'[j] = writeBuffer[j]
          BY <1>1
        <4>2. writeBuffer[j] <= filePos
          BY <1>a DEF WriteOrder
        <4> QED BY <1>2, <4>1, <4>2
      <3>2. \A j \in 1 .. Len(writeBuffer') : j \in 1 .. Len(writeBuffer) \/ j = Len(writeBuffer) + 1
        BY <1>1
      <3>3. writeBuffer'[Len(writeBuffer) + 1] <= filePos'
        BY <1>1, <1>2
      <3> QED BY <3>1, <3>2, <3>3
    <2>3. ASSUME NEW j \in 1 .. Len(writeBuffer') - 1
          PROVE  Follows(writeBuffer'[j], writeBuffer'[j + 1])
      <3>1. CASE j = Len(writeBuffer)
        BY <1>1, <1>a, <2>3, <3>1 DEF WriteTail
      <3>2. CASE j < Len(writeBuffer)
        <4>1. j \in 1 .. Len(writeBuffer) - 1 /\ j + 1 \in 1 .. Len(writeBuffer)
          BY <1>1, <2>3, <3>2
        <4>2. writeBuffer'[j] = writeBuffer[j] /\ writeBuffer'[j + 1] = writeBuffer[j + 1]
          BY <1>1, <4>1
        <4> QED BY <1>a, <4>1, <4>2 DEF WriteOrder
      <3> QED BY <1>1, <2>3, <3>1, <3>2
    <2> QED BY <2>1, <2>2, <2>3 DEF WriteOrder
  <1>8. EmptyIsFirst' /\ FalseAtGap'
    BY <1>1, <1>2 DEF EmptyIsFirst, FalseAtGap, LossInv, Total
  <1> QED BY <1>2, <1>5, <1>6, <1>7, <1>8 DEF LossInv

\* Every step keeps the records in file order, a gap in the first buffer apart.
LEMMA NextLoss == Inv /\ LossInv /\ [Next]_vars => LossInv'
  <1> SUFFICES ASSUME Inv, LossInv, [Next]_vars PROVE LossInv'
    OBVIOUS
  <1> USE DEF fileVars, flags
  <1>1. CASE \/ StartReader \/ ReserveBegin \/ GetEdgeBlock \/ Exit \/ Destroy \/ Joined
             \/ IngestReblock \/ IngestResume \/ ReserveCorrupts \/ Ended \/ UNCHANGED vars
    BY <1>1, LossQuiet DEF StartReader, ReserveBegin, GetEdgeBlock, Exit, Destroy, Joined,
       IngestReblock, IngestResume, ReserveCorrupts, Ended, vars, Inv, Control
  <1>2. CASE IngestEnd \/ IngestFull
    BY <1>2, LossQuiet DEF IngestEnd, IngestFull, WakeMain
  <1>3. CASE SpuriousWakeup
    BY <1>3, LossQuiet DEF SpuriousWakeup, WakeMain, WakeReader
  <1>4. CASE ReserveEnd
    BY <1>4, LossReserve
  <1>5. CASE GetEdgeHit
    BY <1>5, LossHit DEF GetEdgeHit, ReturnEdge
  <1>6. CASE GetEdgeMiss
    <2>1. ReadTail' = ReadTail /\ WriteTail' = WriteTail /\ Total' = Total
      BY <1>6 DEF GetEdgeMiss, ReadTail, WriteTail, Inv, TypeOK, Total
    <2> QED
      BY <1>6, <2>1 DEF GetEdgeMiss, LossInv, ReadOrder, WriteOrder, EmptyIsFirst, FalseAtGap,
         Inv, TypeOK
  <1>7. CASE GetEdgeSwap
    BY <1>7, LossSwap
  <1>8. CASE GetEdgeNotify
    <2>1. CASE currentElement < Len(readBuffer)
      BY <1>8, <2>1, LossHit DEF GetEdgeNotify, ReturnEdge, WakeReader
    <2>2. CASE ~(currentElement < Len(readBuffer))
      <3>1. /\ UNCHANGED <<readBuffer, writeBuffer, currentElement, last, filePos, i, lossy,
                           records, torn, swapWaiting>>
            /\ mpc' = "idle" /\ (rpc' = rpc \/ (rpc = "wait" /\ rpc' = "relock"))
        BY <1>8, <2>2 DEF GetEdgeNotify, ReturnEdge, WakeReader
      <3>2. ReadTail' = ReadTail /\ WriteTail' = WriteTail
        BY <3>1 DEF ReadTail, WriteTail
      <3> QED
        BY <3>1, <3>2 DEF LossInv, ReadOrder, WriteOrder, EmptyIsFirst, FalseAtGap
    <2> QED BY <2>1, <2>2
  <1>9. CASE IngestRecord
    BY <1>9, LossRecord
  <1> QED
    BY <1>1, <1>2, <1>3, <1>4, <1>5, <1>6, <1>7, <1>8, <1>9 DEF Next, MainStep, ReaderStep

\* An initial state maps to one of the abstract source.
LEMMA InitSource == Init => Source!Init
  <1> SUFFICES ASSUME Init PROVE Source!Init
    OBVIOUS
  <1>1. Total \in Nat
    BY TotalType DEF Init
  <1> QED BY <1>1 DEF Init, Source!Init

\* get_edge returns with an element of readBuffer: the source delivers it.
LEMMA HitDelivers ==
    ASSUME Inv, LossInv, currentElement < Len(readBuffer), ReturnEdge,
           UNCHANGED <<records, torn, lossy>>
    PROVE  Source!Deliver
  <1> DEFINE r == readBuffer[currentElement + 1]
  <1>1. /\ currentElement \in Nat /\ Len(readBuffer) \in Nat /\ readBuffer \in Seq(Nat)
        /\ last \in Nat /\ filePos \in 0 .. Total /\ Len(writeBuffer) \in Nat
        /\ Total \in Nat
    BY TotalType DEF Inv, TypeOK
  <1>2. currentElement + 1 \in (currentElement + 1) .. Len(readBuffer) /\ r \in Nat
    BY <1>1
  <1>3. last' = r /\ calls' = calls + 1 /\ Total' = Total /\ lossy' = lossy
    BY DEF ReturnEdge, Total
  <1> HIDE DEF r
  <1>4. CASE ~lossy
    <2>1. r = last + 1
      BY <1>1, <1>2, <1>4 DEF Inv, NothingLost, r
    <2>2. r <= filePos
      BY <1>1, <1>4, <2>1 DEF Inv, NothingLost, Unread
    <2> QED BY <1>1, <1>2, <1>3, <2>1, <2>2 DEF Source!Deliver
  <1>5. CASE lossy
    <2>1. Follows(last, r) /\ r <= filePos
      BY <1>2, <1>5 DEF LossInv, ReadOrder, r
    <2> QED
      BY <1>1, <1>2, <1>3, <1>5, <2>1, BufferAssumption
         DEF Source!Deliver, Source!InLossWindow, Follows
  <1> QED BY <1>4, <1>5

\* Every step of the class is a step of the abstract source or none.
LEMMA NextSource == Inv /\ LossInv /\ [Next]_vars => [Source!Next]_Source!vars
  <1> SUFFICES ASSUME Inv, LossInv, [Next]_vars PROVE Source!Next \/ UNCHANGED Source!vars
    OBVIOUS
  <1> USE DEF fileVars, flags
  <1>1. CASE \/ StartReader \/ ReserveBegin \/ GetEdgeMiss \/ GetEdgeBlock \/ GetEdgeSwap
             \/ Exit \/ Destroy \/ Joined \/ ReaderStep \/ ReserveCorrupts
             \/ SpuriousWakeup \/ Ended \/ UNCHANGED vars
    <2>1. UNCHANGED <<records, torn, last, calls, lossy>>
      BY <1>1 DEF StartReader, ReserveBegin, GetEdgeMiss, GetEdgeBlock, GetEdgeSwap, Exit,
         Destroy, Joined, ReaderStep, IngestRecord, IngestEnd, IngestFull, IngestReblock,
         IngestResume, ReserveCorrupts, SpuriousWakeup, Ended, vars
    <2> QED BY <2>1 DEF Source!vars, Total
  <1>2. CASE ReserveEnd
    <2>1. ~lossy /\ calls = 0 /\ UNCHANGED <<records, torn, last, calls>>
      BY <1>2 DEF ReserveEnd, Inv, Control, LossInv
    <2>2. lossy' \in BOOLEAN
      BY <1>2, NextInv DEF Next, MainStep, Inv, TypeOK
    <2>3. CASE lossy' = TRUE
      BY <2>1, <2>3 DEF Source!Next, Source!Lose, Total
    <2>4. CASE lossy' = FALSE
      <3>1. lossy' = lossy
        BY <2>1, <2>4, Zenon DEF Inv, TypeOK
      <3> QED BY <2>1, <3>1 DEF Source!vars, Total
    <2> QED BY <2>2, <2>3, <2>4
  <1>3. CASE GetEdgeHit
    BY <1>3, HitDelivers DEF GetEdgeHit, Source!Next
  <1>4. CASE GetEdgeNotify
    <2>1. CASE currentElement < Len(readBuffer)
      BY <1>4, <2>1, HitDelivers DEF GetEdgeNotify, Source!Next
    <2>2. CASE ~(currentElement < Len(readBuffer))
      <3>1. readBuffer = <<>> /\ Total \in Nat
        BY <1>4, <2>2, TotalType DEF GetEdgeNotify, Inv, TypeOK, Control
      <3>2. last = Total \/ (lossy /\ last < BUFFER_SIZE)
        BY <1>4, <3>1 DEF GetEdgeNotify, Inv, FalseAtEnd, LossInv, FalseAtGap
      <3>3. calls' = calls + 1 /\ UNCHANGED <<records, torn, last, lossy>>
        BY <1>4, <2>2 DEF GetEdgeNotify, ReturnEdge
      <3> QED
        BY <3>2, <3>3 DEF Source!Next, Source!Exhausted, Source!InLossWindow, Total
    <2> QED BY <2>1, <2>2
  <1> QED
    BY <1>1, <1>2, <1>3, <1>4 DEF Next, MainStep

\* The double-buffered class implements the abstract edge source: records come
\* in file order, none twice, and none is missing behind the first buffer.
THEOREM SourceCorrect == Spec => ImplementsEdgeSource
  <1>1. Spec => [](Inv /\ LossInv)
    BY InitInv, NextInv, InitLoss, NextLoss, PTL DEF Spec
  <1> QED
    BY <1>1, InitSource, NextSource, PTL DEF Spec, ImplementsEdgeSource, Source!Spec
=============================================================================
