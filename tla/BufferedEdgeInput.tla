------------------------- MODULE BufferedEdgeInput -------------------------
(***************************************************************************)
(* The double-buffered file reader shared by the Aspen and Terrace drivers *)
(* (comparison_systems/aspen/code/tools/BufferedEdgeInput.h, and its twin  *)
(* comparison_systems/terrace/code/src/BufferedEdgeInput.h).               *)
(*                                                                         *)
(* Two threads: the driver's thread ("main"), which constructs the object, *)
(* calls get_edge NumCalls times and then either calls exit() or destroys  *)
(* the object, and the reader thread, which runs ingest().  They share two *)
(* buffers, two flags, a mutex and one condition variable.                 *)
(*                                                                         *)
(* A record is its position in the file.  A step is a critical section of  *)
(* the mutex, or a stretch of code that touches shared state once; wait()  *)
(* is split into blocking, waking (by notify_all or spuriously) and        *)
(* re-evaluating the predicate under the mutex.                            *)
(***************************************************************************)
EXTENDS Naturals, Sequences

CONSTANTS
    BUFFER_SIZE,    \* records per buffer
    MaxRecords,     \* bound on the length of the stream file
    NumCalls        \* get_edge calls of the driver: the header's num_edges,
                    \* whatever the file really holds

ASSUME BufferAssumption == BUFFER_SIZE \in Nat \ {0}
ASSUME MaxRecordsAssumption == MaxRecords \in Nat
ASSUME CallsAssumption == NumCalls \in Nat

VARIABLES
    records,        \* whole records of the stream file
    torn,           \* a last record whose tag is there but whose vertices are not
    filePos,        \* records the reader has taken from the stream
    i,              \* ingest's loop counter
    readBuffer,     \* the vector readBuffer points to
    writeBuffer,    \* the vector writeBuffer points to
    currentElement, \* index of the next element of readBuffer
    swapWaiting,
    endOfFile,
    mpc,            \* where main is
    rpc,            \* where the reader is
    reserved,       \* size of writeBuffer that reserve() saw when it began
    lossy,          \* reserve() has dropped records the reader emplaced meanwhile
    last,           \* last record get_edge handed out
    calls           \* get_edge calls that have returned

fileVars == <<records, torn>>
flags    == <<swapWaiting, endOfFile>>
vars == <<records, torn, filePos, i, readBuffer, writeBuffer, currentElement,
          swapWaiting, endOfFile, mpc, rpc, reserved, lossy, last, calls>>

\* Records get_edge can hand out: a torn last record is emplaced like any
\* other, with whatever its uninitialised vertices hold.
Total == IF torn THEN records + 1 ELSE records

Init ==
    /\ records \in 0 .. MaxRecords
    /\ torn \in BOOLEAN
    /\ filePos = 0
    /\ i = 0
    /\ readBuffer = <<>>
    /\ writeBuffer = <<>>
    /\ currentElement = BUFFER_SIZE
    /\ swapWaiting = FALSE
    /\ endOfFile = FALSE
    /\ mpc = "ctor"
    /\ rpc = "unstarted"
    /\ reserved = 0
    /\ lossy = FALSE
    /\ last = 0
    /\ calls = 0

-----------------------------------------------------------------------------
(* The constructor, run by main.                                           *)

\* The header is read and the reader starts; readBuffer's reserve() follows,
\* which the reader cannot see.
StartReader ==
    /\ mpc = "ctor"
    /\ mpc' = "reserve"
    /\ rpc' = "read"
    /\ UNCHANGED <<fileVars, filePos, i, readBuffer, writeBuffer, currentElement,
                   flags, reserved, lossy, last, calls>>

\* writeBuffer->reserve() reads the vector's size ...
ReserveBegin ==
    /\ mpc = "reserve"
    /\ mpc' = "reserving"
    /\ reserved' = Len(writeBuffer)
    /\ UNCHANGED <<fileVars, filePos, i, readBuffer, writeBuffer, currentElement,
                   flags, rpc, lossy, last, calls>>

\* ... and installs the new storage.  What the reader emplaced in between is a
\* data race: any suffix of it may be gone.
ReserveEnd ==
    /\ mpc = "reserving"
    /\ mpc' = "idle"
    /\ \E kept \in reserved .. Len(writeBuffer) :
          /\ writeBuffer' = SubSeq(writeBuffer, 1, kept)
          /\ lossy' = (kept < Len(writeBuffer))
    /\ UNCHANGED <<fileVars, filePos, i, readBuffer, currentElement, flags, rpc,
                   reserved, last, calls>>

\* The other outcome of that race: both threads move and free the same
\* storage, and the process aborts.
ReserveCorrupts ==
    /\ mpc = "reserving"
    /\ reserved < Len(writeBuffer)
    /\ mpc' = "crashed"
    /\ rpc' = "crashed"
    /\ UNCHANGED <<fileVars, filePos, i, readBuffer, writeBuffer, currentElement,
                   flags, reserved, lossy, last, calls>>

-----------------------------------------------------------------------------
(* get_edge, run by main.                                                  *)

\* The end of get_edge: hand out an element if there is one, else return false.
ReturnEdge ==
    /\ mpc' = "idle"
    /\ calls' = calls + 1
    /\ IF currentElement < Len(readBuffer)
         THEN /\ last' = readBuffer[currentElement + 1]
              /\ currentElement' = currentElement + 1
         ELSE UNCHANGED <<last, currentElement>>

\* The read buffer still has an element.
GetEdgeHit ==
    /\ mpc = "idle"
    /\ calls < NumCalls
    /\ currentElement < Len(readBuffer)
    /\ ReturnEdge
    /\ UNCHANGED <<fileVars, filePos, i, readBuffer, writeBuffer, flags, rpc,
                   reserved, lossy>>

\* Mutant of GetEdgeMiss: the buffer is given to the reader uncleared.
GetEdgeMissNoClear ==
    /\ mpc = "idle"
    /\ calls < NumCalls
    /\ currentElement >= Len(readBuffer)
    /\ mpc' = "lock"
    /\ UNCHANGED <<fileVars, filePos, i, readBuffer, writeBuffer, currentElement,
                   flags, rpc, reserved, lossy, last, calls>>

\* It has none: it is cleared, outside the mutex.
GetEdgeMiss ==
    /\ mpc = "idle"
    /\ calls < NumCalls
    /\ currentElement >= Len(readBuffer)
    /\ readBuffer' = <<>>
    /\ mpc' = "lock"
    /\ UNCHANGED <<fileVars, filePos, i, writeBuffer, currentElement, flags, rpc,
                   reserved, lossy, last, calls>>

\* Mutant of SwapAllowed: main waits without a predicate.
SwapAlwaysAllowed == TRUE

\* The predicate of main's wait.
SwapAllowed == swapWaiting \/ endOfFile

\* The predicate is false: main blocks on the condition variable.
GetEdgeBlock ==
    /\ mpc = "lock"
    /\ ~SwapAllowed
    /\ mpc' = "wait"
    /\ UNCHANGED <<fileVars, filePos, i, readBuffer, writeBuffer, currentElement,
                   flags, rpc, reserved, lossy, last, calls>>

\* Mutant of GetEdgeSwap: currentElement keeps pointing past the old buffer.
GetEdgeSwapNoReset ==
    /\ mpc = "lock"
    /\ SwapAllowed
    /\ readBuffer' = writeBuffer
    /\ writeBuffer' = readBuffer
    /\ swapWaiting' = FALSE
    /\ mpc' = "notify"
    /\ UNCHANGED <<fileVars, filePos, i, currentElement, endOfFile, rpc, reserved,
                   lossy, last, calls>>

\* The predicate is true: the buffers change places and the mutex is released.
GetEdgeSwap ==
    /\ mpc = "lock"
    /\ SwapAllowed
    /\ readBuffer' = writeBuffer
    /\ writeBuffer' = readBuffer
    /\ currentElement' = 0
    /\ swapWaiting' = FALSE
    /\ mpc' = "notify"
    /\ UNCHANGED <<fileVars, filePos, i, endOfFile, rpc, reserved, lossy, last,
                   calls>>

\* Mutant of WakeMain: nobody is notified.
NoWakeMain == mpc' = mpc

\* What notify_all does to a reader blocked on the condition variable ...
WakeReader == rpc' = IF rpc = "wait" THEN "relock" ELSE rpc

\* ... and to a main thread blocked on it.
WakeMain == mpc' = IF mpc = "wait" THEN "lock" ELSE mpc

\* main notifies after it has released the mutex, then returns from get_edge.
GetEdgeNotify ==
    /\ mpc = "notify"
    /\ WakeReader
    /\ ReturnEdge
    /\ UNCHANGED <<fileVars, filePos, i, readBuffer, writeBuffer, flags,
                   reserved, lossy>>

-----------------------------------------------------------------------------
(* The end of the driver.                                                  *)

\* ingestion_test and continuous_query_test call exit(): the process ends, the
\* reader with it, and no destructor runs.
Exit ==
    /\ mpc = "idle"
    /\ calls = NumCalls
    /\ mpc' = "exited"
    /\ rpc' = "exited"
    /\ UNCHANGED <<fileVars, filePos, i, readBuffer, writeBuffer, currentElement,
                   flags, reserved, lossy, last, calls>>

\* buffer_test returns from main instead: ~BufferedEdgeInput joins the reader.
Destroy ==
    /\ mpc = "idle"
    /\ calls = NumCalls
    /\ mpc' = "join"
    /\ UNCHANGED <<fileVars, filePos, i, readBuffer, writeBuffer, currentElement,
                   flags, rpc, reserved, lossy, last, calls>>

\* The join returns once ingest has returned.
Joined ==
    /\ mpc = "join"
    /\ rpc = "done"
    /\ mpc' = "exited"
    /\ UNCHANGED <<fileVars, filePos, i, readBuffer, writeBuffer, currentElement,
                   flags, rpc, reserved, lossy, last, calls>>

-----------------------------------------------------------------------------
(* ingest, run by the reader.                                              *)

\* One iteration of the loop: a record is read and emplaced, without the mutex.
IngestRecord ==
    /\ rpc = "read"
    /\ i < BUFFER_SIZE
    /\ filePos < Total
    /\ filePos' = filePos + 1
    /\ writeBuffer' = Append(writeBuffer, filePos + 1)
    /\ i' = i + 1
    /\ UNCHANGED <<fileVars, readBuffer, currentElement, flags, mpc, rpc,
                   reserved, lossy, last, calls>>

\* The tag cannot be read: the reader sets both flags, notifies and returns.
IngestEnd ==
    /\ rpc = "read"
    /\ i < BUFFER_SIZE
    /\ filePos = Total
    /\ swapWaiting' = TRUE
    /\ endOfFile' = TRUE
    /\ WakeMain
    /\ rpc' = "done"
    /\ UNCHANGED <<fileVars, filePos, i, readBuffer, writeBuffer, currentElement,
                   reserved, lossy, last, calls>>

\* The buffer is full: under the mutex the reader asks for a swap, notifies
\* and blocks (its predicate is false, it has just set the flag itself).
IngestFull ==
    /\ rpc = "read"
    /\ i = BUFFER_SIZE
    /\ swapWaiting' = TRUE
    /\ WakeMain
    /\ rpc' = "wait"
    /\ UNCHANGED <<fileVars, filePos, i, readBuffer, writeBuffer, currentElement,
                   endOfFile, reserved, lossy, last, calls>>

\* Woken, the reader re-evaluates !swapWaiting under the mutex: it blocks
\* again, or starts to fill the buffer that main has emptied.
IngestReblock ==
    /\ rpc = "relock"
    /\ swapWaiting
    /\ rpc' = "wait"
    /\ UNCHANGED <<fileVars, filePos, i, readBuffer, writeBuffer, currentElement,
                   flags, mpc, reserved, lossy, last, calls>>

\* Mutant of IngestResume: any wakeup is taken for the swap.
IngestResumeNoPredicate ==
    /\ rpc = "relock"
    /\ i' = 0
    /\ rpc' = "read"
    /\ UNCHANGED <<fileVars, filePos, readBuffer, writeBuffer, currentElement,
                   flags, mpc, reserved, lossy, last, calls>>

IngestResume ==
    /\ rpc = "relock"
    /\ ~swapWaiting
    /\ i' = 0
    /\ rpc' = "read"
    /\ UNCHANGED <<fileVars, filePos, readBuffer, writeBuffer, currentElement,
                   flags, mpc, reserved, lossy, last, calls>>

\* A condition variable may wake a waiter that nobody notified.
SpuriousWakeup ==
    /\ \/ mpc = "wait" /\ WakeMain /\ UNCHANGED rpc
       \/ rpc = "wait" /\ WakeReader /\ UNCHANGED mpc
    /\ UNCHANGED <<fileVars, filePos, i, readBuffer, writeBuffer, currentElement,
                   flags, reserved, lossy, last, calls>>

\* The process has ended.
Ended ==
    /\ mpc \in {"exited", "crashed"}
    /\ UNCHANGED vars

-----------------------------------------------------------------------------
MainStep ==
    \/ StartReader \/ ReserveBegin \/ ReserveEnd
    \/ GetEdgeHit \/ GetEdgeMiss \/ GetEdgeBlock \/ GetEdgeSwap \/ GetEdgeNotify
    \/ Exit \/ Destroy \/ Joined

ReaderStep ==
    \/ IngestRecord \/ IngestEnd \/ IngestFull \/ IngestReblock \/ IngestResume

Next == MainStep \/ ReaderStep \/ ReserveCorrupts \/ SpuriousWakeup \/ Ended

Spec == Init /\ [][Next]_vars

\* The scheduler runs every thread that can run, and a mutex that is released
\* again and again is eventually acquired.  No wakeup is assumed that the
\* code does not ask for.
FairSpec == Spec /\ WF_vars(MainStep) /\ WF_vars(ReaderStep)
-----------------------------------------------------------------------------
(* Properties.                                                             *)

TypeOK ==
    /\ records \in 0 .. MaxRecords
    /\ torn \in BOOLEAN
    /\ filePos \in 0 .. Total
    /\ i \in 0 .. BUFFER_SIZE
    /\ readBuffer \in Seq(Nat)
    /\ writeBuffer \in Seq(Nat)
    /\ currentElement \in Nat
    /\ swapWaiting \in BOOLEAN
    /\ endOfFile \in BOOLEAN
    /\ mpc \in {"ctor", "reserve", "reserving", "idle", "lock", "wait", "notify",
                "join", "exited", "crashed"}
    /\ rpc \in {"unstarted", "read", "wait", "relock", "done", "exited", "crashed"}
    /\ reserved \in Nat
    /\ lossy \in BOOLEAN
    /\ last \in Nat
    /\ calls \in 0 .. NumCalls

\* main swaps the buffers without asking where the reader is: the two flags
\* alone must imply that ingest is not filling writeBuffer (it is blocked at
\* its own wait, woken but not past it, or has returned).
ReaderParked ==
    SwapAllowed => rpc \in {"wait", "relock", "done", "exited", "crashed"}

\* Neither vector outgrows the BUFFER_SIZE its reserve() asked for, so that
\* after the constructor no emplace_back reallocates.
BuffersBounded ==
    /\ Len(readBuffer) <= BUFFER_SIZE
    /\ Len(writeBuffer) <= BUFFER_SIZE

\* Elements of readBuffer that get_edge has not handed out.
Unread == IF currentElement < Len(readBuffer)
            THEN Len(readBuffer) - currentElement ELSE 0

\* Unless the constructor's race dropped records, every record taken from the
\* file is handed out, unread in readBuffer or in writeBuffer, exactly once and
\* in file order, across any number of unlocked clears and swaps.
NothingLost ==
    ~lossy =>
      /\ filePos = last + Unread + Len(writeBuffer)
      /\ \A j \in (currentElement + 1) .. Len(readBuffer) :
            readBuffer[j] = last + (j - currentElement)
      /\ \A j \in 1 .. Len(writeBuffer) : writeBuffer[j] = last + Unread + j

\* The k-th call of get_edge returns the k-th record, and it returns false only
\* when the file has no k-th record, however the two threads interleave.
KthCallKthRecord ==
    ~lossy => last = IF calls <= Total THEN calls ELSE Total

\* The class implements the abstract edge source, the constructor's race
\* included: it costs records of the first buffer only, and get_edge never
\* repeats or reorders what it hands out.
Source == INSTANCE EdgeSource WITH total <- Total
ImplementsEdgeSource == Source!Spec

\* The program that uses the class ends, so that every call of get_edge returns:
\* the flags, the two waits and the two notify_all calls lose no wakeup.  There
\* is one exception: a destructor that runs while the reader is parked on a full
\* buffer joins it for ever, because only get_edge swaps.  A driver that has
\* seen get_edge return false is safe.
Terminates ==
    \/ <>(mpc \in {"exited", "crashed"})
    \/ <>[](mpc = "join" /\ swapWaiting /\ ~endOfFile)

=============================================================================
