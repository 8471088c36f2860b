--------------------------- MODULE JtagUartProofs ---------------------------
(***************************************************************************)
(* Proofs about JtagUart, for every length of the rings and FIFOs.         *)
(*                                                                         *)
(* That neither interrupt stays shut with work to do is not inductive: the *)
(* invariant adds what the foreground holds in its locals while the        *)
(* interrupt routine cuts in.                                              *)
(*                                                                         *)
(* That no character is lost, doubled or reordered rests on the order in   *)
(* which the pieces of a stream lie: what the host has taken, the FIFO,    *)
(* the ring and the piece being copied carry on from one another.          *)
(***************************************************************************)
EXTENDS JtagUart, TLAPS

\* The device.
DeviceTypes ==
    /\ rx_fifo \in Seq(Nat) /\ tx_fifo \in Seq(Nat)
    /\ Len(rx_fifo) <= readBufferDepth /\ Len(tx_fifo) <= writeBufferDepth
    /\ irq_enable \subseteq {"RE", "WE"}
    /\ hostSent \in Nat

Flags ==
    /\ pause_irq \in BOOLEAN /\ ac \in BOOLEAN
    /\ alarm \in BOOLEAN /\ ticking \in BOOLEAN
    /\ nonblock \in BOOLEAN
    /\ wi \in BOOLEAN /\ avail \in BOOLEAN

\* The rings, and the watch for the host.
RingTypes ==
    /\ rx_in \in Index /\ rx_out \in Index /\ tx_in \in Index /\ tx_out \in Index
    /\ rx_buf \in [Index -> Nat] /\ tx_buf \in [Index -> Nat]

WatchTypes ==
    /\ host_inactive \in 0..(INT_MAX - 2)
    /\ timeout \in 2..INT_MAX

IsrTypes ==
    /\ isr \in {"out", "control", "receive", "transmit"}
    /\ space \in 0..writeBufferDepth

\* The locals; a piece about to be copied lies within the ring and the request.
CallTypes ==
    /\ pc \in {"clock", "uart", "idle", "closing"} \cup Reading \cup Writing
    /\ in \in Index /\ out \in Index /\ n \in 0..(BUF_LEN - 1)
    /\ size \in Nat /\ todo \in 0..size
    /\ chunk \in Seq(Nat)
    /\ pc \in {"rdIndices", "rdSpin", "rdCheck", "wrIndices", "wrSpin", "wrCheck"} => todo > 0
    /\ pc = "rdCopy" => n \in 1..todo /\ out + n <= BUF_LEN
    /\ pc = "wrCopy" => n \in 1..todo /\ in + n <= BUF_LEN
    /\ pc = "wrAdvance" => n + todo <= size

\* What writes have put into the ring against what they have said they took.
Account ==
    /\ written \in Nat /\ acked \in Nat /\ written <= MaxOut
    /\ pc \notin Writing => acked = written
    /\ pc \in Writing => acked + size <= MaxOut
    /\ pc \in Writing \ {"wrAdvance"} => acked + size = written + todo
    /\ pc = "wrAdvance" => acked + size = written + n + todo

Types == /\ DeviceTypes /\ Flags /\ RingTypes /\ WatchTypes
         /\ IsrTypes /\ CallTypes /\ Account

USE DriverAssumption, CoreAssumption
----------------------------------------------------------------------------
(* What the helpers return.                                                *)

\* Indices stay in the ring, and the next is another.
LEMMA IndexFacts ==
    /\ 0 \in Index
    /\ \A i \in Nat : i % BUF_LEN \in Index
    /\ \A i \in Index : Next1(i) \in Index /\ i \in Nat /\ Next1(i) # i
  BY DEF Index, Next1

\* The pieces that are copied fit.
LEMMA Pieces ==
    ASSUME RingTypes
    PROVE  /\ Readable \in 0..(BUF_LEN - 1) /\ rx_out + Readable <= BUF_LEN
           /\ Writable \in 0..(BUF_LEN - 1) /\ tx_in + Writable <= BUF_LEN
  BY DEF RingTypes, Readable, Writable, Index

LEMMA LeastFacts ==
    \A a, b \in Nat : /\ Least(a, b) \in Nat /\ Least(a, b) <= a /\ Least(a, b) <= b
                      /\ a > 0 /\ b > 0 => Least(a, b) > 0
  BY DEF Least

LEMMA Bounds ==
    /\ BUF_LEN \in Nat /\ BUF_LEN > 1
    /\ INT_MAX \in Nat /\ DEFAULT_TIMEOUT \in Nat
    /\ 2 <= DEFAULT_TIMEOUT /\ DEFAULT_TIMEOUT <= INT_MAX - 2
    /\ readBufferDepth \in Nat /\ writeBufferDepth \in Nat
    /\ MaxIn \in Nat /\ MaxOut \in Nat
  OBVIOUS

\* A part whose variables a step leaves alone still holds after it.
LEMMA Frame ==
    /\ DeviceTypes /\ UNCHANGED coreVars => DeviceTypes'
    /\ RingTypes /\ UNCHANGED ringVars => RingTypes'
    /\ WatchTypes /\ UNCHANGED <<host_inactive, timeout>> => WatchTypes'
    /\ IsrTypes /\ UNCHANGED <<isr, space>> => IsrTypes'
    /\ CallTypes /\ UNCHANGED callVars => CallTypes'
    /\ Account /\ UNCHANGED <<callVars, appVars>> => Account'
  <1>1. DeviceTypes /\ UNCHANGED coreVars => DeviceTypes'
    BY DEF DeviceTypes, coreVars
  <1>2. RingTypes /\ UNCHANGED ringVars => RingTypes'
    BY DEF RingTypes, ringVars
  <1>3. WatchTypes /\ UNCHANGED <<host_inactive, timeout>> => WatchTypes'
    BY DEF WatchTypes
  <1>4. IsrTypes /\ UNCHANGED <<isr, space>> => IsrTypes'
    BY DEF IsrTypes
  <1>5. CallTypes /\ UNCHANGED callVars => CallTypes'
    BY DEF CallTypes, callVars
  <1>6. Account /\ UNCHANGED <<callVars, appVars>> => Account'
    BY DEF Account, callVars, appVars
  <1> QED
    BY <1>1, <1>2, <1>3, <1>4, <1>5, <1>6

\* A call that returns, or goes on without a piece to copy.
LEMMA ReturnTypes == CallTypes /\ Return => CallTypes'
<1> SUFFICES ASSUME CallTypes, Return PROVE CallTypes'
  OBVIOUS
<1>1. /\ in' \in Index /\ out' \in Index /\ n' \in 0..(BUF_LEN - 1)
      /\ size' \in Nat /\ todo' \in 0..size'
  BY IndexFacts DEF Return
<1>2. pc' = "idle" /\ chunk' \in Seq(Nat)
  BY DEF Return
<1> QED
  BY <1>1, <1>2 DEF CallTypes

LEMMA GotoTypes ==
    ASSUME NEW label \in {"rdIndices", "rdSpin", "rdCheck", "rdDone",
                          "wrIndices", "wrKick", "wrSpin", "wrCheck"},
           label \in {"rdIndices", "rdSpin", "rdCheck", "wrIndices", "wrSpin", "wrCheck"}
               => todo > 0,
           CallTypes, Goto(label)
    PROVE  CallTypes'
<1>1. /\ in' = in /\ out' = out /\ n' = n /\ todo' = todo /\ size' = size
      /\ chunk' = chunk /\ pc' = label
  BY DEF Goto
<1>2. label \in (Reading \cup Writing) \ {"rdCopy", "wrCopy", "wrAdvance"}
  BY DEF Reading, Writing
<1> QED
  BY <1>1, <1>2 DEF CallTypes

LEMMA InitTypes == Init => Types
<1> SUFFICES ASSUME Init PROVE Types
  OBVIOUS
<1>1. DeviceTypes
  BY Bounds DEF Init, CoreInit, DeviceTypes
<1>2. Flags
  BY DEF Init, CoreInit, Flags
<1>3. RingTypes
  BY IndexFacts DEF Init, RingTypes
<1>4. WatchTypes /\ IsrTypes
  BY DEF Init, WatchTypes, IsrTypes
<1>5. CallTypes
  <2>1. /\ in \in Index /\ out \in Index /\ n \in 0..(BUF_LEN - 1)
        /\ size \in Nat /\ todo \in 0..size
    BY IndexFacts DEF Init
  <2>2. chunk \in Seq(Nat)
    BY DEF Init
  <2>3. pc \in {"clock", "uart"}
    BY DEF Init
  <2> QED
    BY <2>1, <2>2, <2>3 DEF CallTypes
<1>6. Account
  BY DEF Init, Account
<1> QED
  BY <1>1, <1>2, <1>3, <1>4, <1>5, <1>6 DEF Types

LEMMA StartClockTypes ==
    ASSUME Types, StartClock
    PROVE  Types'
<1>1. DeviceTypes' /\ RingTypes' /\ WatchTypes' /\ IsrTypes'
  BY Frame DEF Types, StartClock, isrVars
<1>2. Flags'
  BY DEF Types, Flags, StartClock, coreVars, isrVars
<1>3. CallTypes'
  BY DEF Types, CallTypes, StartClock
<1>4. Account'
  BY DEF Types, Account, Writing, StartClock, At, appVars
<1> QED
  BY <1>1, <1>2, <1>3, <1>4 DEF Types

LEMMA InitUartTypes ==
    ASSUME Types, InitUart
    PROVE  Types'
<1>1. RingTypes' /\ IsrTypes'
  BY Frame DEF Types, InitUart, isrVars
<1>2. DeviceTypes'
  BY DEF Types, DeviceTypes, InitUart
<1>3. Flags'
  BY DEF Types, Flags, InitUart, isrVars
<1>4. WatchTypes'
  BY DEF Types, WatchTypes, InitUart
<1>5. CallTypes'
  BY DEF Types, CallTypes, InitUart
<1>6. Account'
  BY DEF Types, Account, Writing, InitUart, At, appVars
<1> QED
  BY <1>1, <1>2, <1>3, <1>4, <1>5, <1>6 DEF Types

LEMMA TimeoutTypes ==
    ASSUME Types, Timeout
    PROVE  Types'
<1>1. RingTypes' /\ IsrTypes' /\ CallTypes' /\ Account'
  BY Frame DEF Types, Timeout, isrVars
<1>2. DeviceTypes'
  BY DEF Types, DeviceTypes, Timeout
<1>3. Flags'
  BY DEF Types, Flags, Timeout, callVars, isrVars
<1>4. WatchTypes'
  BY DEF Types, WatchTypes, Timeout
<1> QED
  BY <1>1, <1>2, <1>3, <1>4 DEF Types

LEMMA InterruptTypes ==
    ASSUME Types, Interrupt
    PROVE  Types'
<1>1. DeviceTypes' /\ RingTypes' /\ WatchTypes' /\ CallTypes' /\ Account'
  BY Frame DEF Types, Interrupt, watchVars
<1>2. Flags'
  BY DEF Types, Flags, Interrupt, coreVars, watchVars, callVars
<1>3. IsrTypes'
  BY DEF Types, IsrTypes, Interrupt
<1> QED
  BY <1>1, <1>2, <1>3 DEF Types

LEMMA IsrControlTypes ==
    ASSUME Types, IsrControl
    PROVE  Types'
<1>1. DeviceTypes' /\ RingTypes' /\ WatchTypes' /\ CallTypes' /\ Account'
  BY Frame DEF Types, IsrControl, watchVars
<1>2. Flags'
  BY DEF Types, Flags, IsrControl, ipen_AE, ipen_AF, coreVars, watchVars, callVars
<1>3. IsrTypes'
  <2>1. Len(tx_fifo) \in 0..writeBufferDepth
    BY DEF Types, DeviceTypes
  <2>2. space' \in 0..writeBufferDepth
    BY <2>1 DEF IsrControl, wspace
  <2>3. isr' \in {"out", "receive", "transmit"}
    BY DEF IsrControl
  <2> QED
    BY <2>2, <2>3 DEF IsrTypes
<1> QED
  BY <1>1, <1>2, <1>3 DEF Types

LEMMA IsrReceiveTypes ==
    ASSUME Types, IsrReceive
    PROVE  Types'
<1>1. WatchTypes' /\ CallTypes' /\ Account'
  BY Frame DEF Types, IsrReceive, watchVars
<1>2. DeviceTypes'
  BY DEF Types, DeviceTypes, IsrTypes, IsrReceive, PopData, watchVars
<1>3. Flags'
  BY DEF Types, Flags, DeviceTypes, IsrReceive, PopData, watchVars, callVars
<1>4. RingTypes'
  <2>1. Head(rx_fifo) \in Nat
    BY DEF Types, DeviceTypes, IsrReceive
  <2>2. rx_buf' \in [Index -> Nat]
    BY <2>1 DEF Types, RingTypes, IsrReceive
  <2>3. rx_in' \in Index
    BY IndexFacts DEF Types, RingTypes, IsrReceive
  <2> QED
    BY <2>2, <2>3 DEF Types, RingTypes, IsrReceive
<1>5. IsrTypes'
  BY DEF Types, IsrTypes, IsrReceive
<1> QED
  BY <1>1, <1>2, <1>3, <1>4, <1>5 DEF Types

LEMMA IsrReceiveEndTypes ==
    ASSUME Types, IsrReceiveEnd
    PROVE  Types'
<1>1. RingTypes' /\ WatchTypes' /\ CallTypes' /\ Account'
  BY Frame DEF Types, IsrReceiveEnd, watchVars
<1>2. DeviceTypes'
  BY DEF Types, DeviceTypes, IsrReceiveEnd, PopData
<1>3. Flags'
  BY DEF Types, Flags, IsrReceiveEnd, PopData, watchVars, callVars
<1>4. IsrTypes'
  BY DEF Types, IsrTypes, IsrReceiveEnd
<1> QED
  BY <1>1, <1>2, <1>3, <1>4 DEF Types

LEMMA IsrReceiveLateTypes ==
    ASSUME Types, IsrReceiveLate
    PROVE  Types'
<1>1. RingTypes' /\ WatchTypes' /\ CallTypes' /\ Account'
  BY Frame DEF Types, IsrReceiveLate, watchVars
<1>2. DeviceTypes'
  BY DEF Types, DeviceTypes, IsrReceiveLate, Arrival
<1>3. Flags'
  BY DEF Types, Flags, IsrReceiveLate, Arrival, watchVars, callVars
<1>4. IsrTypes'
  BY DEF Types, IsrTypes, IsrReceiveLate
<1> QED
  BY <1>1, <1>2, <1>3, <1>4 DEF Types

LEMMA IsrTransmitTypes ==
    ASSUME Types, IsrTransmit
    PROVE  Types'
<1>1. WatchTypes' /\ CallTypes' /\ Account'
  BY Frame DEF Types, IsrTransmit, watchVars
<1>2. DeviceTypes'
  BY Bounds DEF Types, DeviceTypes, RingTypes, IsrTransmit, PushData, appVars
<1>3. Flags'
  BY DEF Types, Flags, IsrTransmit, watchVars, callVars
<1>4. RingTypes'
  BY IndexFacts DEF Types, RingTypes, IsrTransmit
<1>5. IsrTypes'
  BY DEF Types, IsrTypes, IsrTransmit
<1> QED
  BY <1>1, <1>2, <1>3, <1>4, <1>5 DEF Types

LEMMA IsrTransmitEndTypes ==
    ASSUME Types, IsrTransmitEnd
    PROVE  Types'
<1>1. RingTypes' /\ WatchTypes' /\ CallTypes' /\ Account'
  BY Frame DEF Types, IsrTransmitEnd, watchVars
<1>2. DeviceTypes'
  BY DEF Types, DeviceTypes, IsrTransmitEnd
<1>3. Flags'
  BY DEF Types, Flags, IsrTransmitEnd, watchVars, callVars
<1>4. IsrTypes'
  BY DEF IsrTypes, IsrTransmitEnd
<1> QED
  BY <1>1, <1>2, <1>3, <1>4 DEF Types

LEMMA CallReadTypes ==
    ASSUME Types, NEW length \in Requests, NEW flag \in BOOLEAN, CallRead(length, flag)
    PROVE  Types'
<1>1. DeviceTypes' /\ RingTypes' /\ WatchTypes' /\ IsrTypes'
  BY Frame DEF Types, CallRead, idleForRead, watchVars, isrVars
<1>2. Flags'
  BY DEF Types, Flags, CallRead, Call, idleForRead, coreVars, watchVars, isrVars
<1>3. CallTypes'
  BY DEF Types, CallTypes, Reading, CallRead, Call
<1>4. Account'
  BY DEF Types, Account, Writing, CallRead, Call, idleForRead, At, appVars
<1> QED
  BY <1>1, <1>2, <1>3, <1>4 DEF Types

LEMMA ReadIndicesTypes ==
    ASSUME Types, ReadIndices
    PROVE  Types'
<1>1. DeviceTypes' /\ RingTypes' /\ WatchTypes' /\ IsrTypes'
  BY Frame DEF Types, ReadIndices, idleForRead, watchVars, isrVars
<1>2. Flags'
  BY DEF Types, Flags, ReadIndices, Return, idleForRead, coreVars, watchVars, isrVars
<1>3. CallTypes'
  <2>1. CASE Return
    BY <2>1, ReturnTypes DEF Types
  <2>2. CASE ~Return
    <3> DEFINE m == Least(Readable, todo)
    <3>1. Readable \in 0..(BUF_LEN - 1) /\ rx_out + Readable <= BUF_LEN
      BY Pieces DEF Types
    <3>2. todo \in Nat /\ size \in Nat /\ todo <= size
      BY DEF Types, CallTypes
    <3>0. Readable \in Nat
      BY <3>1
    <3>3. m \in Nat /\ m <= Readable /\ m <= todo /\ (Readable > 0 /\ todo > 0 => m > 0)
      BY <3>0, <3>2, LeastFacts
    <3>4. /\ in' = rx_in /\ out' = rx_out /\ n' = m /\ todo' = todo
          /\ size' = size /\ chunk' = chunk
          /\ pc' \in {"rdCopy", "rdDone", "rdSpin"} /\ (pc' = "rdCopy" => Readable > 0)
      BY <2>2 DEF ReadIndices
    <3>5. pc = "rdIndices"
      BY DEF ReadIndices, At
    <3>6. todo > 0
      BY <3>5 DEF Types, CallTypes
    <3> HIDE DEF m
    <3>7. /\ in' \in Index /\ out' \in Index /\ n' \in 0..(BUF_LEN - 1)
          /\ size' \in Nat /\ todo' \in 0..size' /\ chunk' \in Seq(Nat)
      BY <3>1, <3>3, <3>4 DEF Types, RingTypes, CallTypes
    <3>8. pc' = "rdCopy" => n' \in 1..todo' /\ out' + n' <= BUF_LEN
      BY <3>1, <3>3, <3>4, <3>6 DEF Types, RingTypes, Index
    <3>9. pc' \in Reading /\ pc' # "wrCopy"
      BY <3>4 DEF Reading
    <3> QED
      BY <3>4, <3>6, <3>7, <3>8, <3>9 DEF CallTypes
  <2> QED
    BY <2>1, <2>2
<1>4. Account'
  BY DEF Types, Account, Writing, ReadIndices, At, Return, idleForRead, appVars
<1> QED
  BY <1>1, <1>2, <1>3, <1>4 DEF Types

LEMMA ReadCopyTypes ==
    ASSUME Types, ReadCopy
    PROVE  Types'
<1>1. DeviceTypes' /\ RingTypes' /\ WatchTypes' /\ IsrTypes'
  BY Frame DEF Types, ReadCopy, idleForRead, watchVars, isrVars
<1>2. Flags'
  BY DEF Types, Flags, ReadCopy, idleForRead, coreVars, watchVars, isrVars
<1>3. CallTypes'
  <2>1. /\ pc = "rdCopy" /\ n \in 1..todo /\ out + n <= BUF_LEN /\ out \in Index
        /\ todo \in Nat /\ size \in Nat /\ todo <= size
    BY DEF Types, CallTypes, ReadCopy, At
  <2>2. [i \in 1..n |-> rx_buf[out + i - 1]] \in Seq(Nat)
    <3>1. \A i \in 1..n : out + i - 1 \in Index
      BY <2>1 DEF Index
    <3>2. \A i \in 1..n : rx_buf[out + i - 1] \in Nat
      BY <3>1 DEF Types, RingTypes
    <3> QED
      BY <2>1, <3>2
  <2>3. chunk' \in Seq(Nat)
    BY <2>2 DEF Types, CallTypes, ReadCopy
  <2>4. todo' \in 0..size'
    BY <2>1 DEF ReadCopy
  <2>5. pc' = "rdAdvance" /\ UNCHANGED <<in, out, n, size>>
    BY DEF ReadCopy
  <2> QED
    BY <2>3, <2>4, <2>5 DEF Types, CallTypes, Reading
<1>4. Account'
  BY DEF Types, Account, Writing, ReadCopy, At, idleForRead, appVars
<1> QED
  BY <1>1, <1>2, <1>3, <1>4 DEF Types

LEMMA ReadAdvanceTypes ==
    ASSUME Types, ReadAdvance
    PROVE  Types'
<1>1. DeviceTypes' /\ WatchTypes' /\ IsrTypes'
  BY Frame DEF Types, ReadAdvance, watchVars, isrVars
<1>2. Flags'
  BY DEF Types, Flags, ReadAdvance, Goto, coreVars, watchVars, isrVars
<1>3. RingTypes'
  <2>1. out + n \in Nat
    BY DEF Types, CallTypes, Index
  <2>2. rx_out' \in Index
    BY <2>1, IndexFacts DEF ReadAdvance
  <2> QED
    BY <2>2 DEF Types, RingTypes, ReadAdvance
<1>4. CallTypes'
  BY DEF Types, CallTypes, Reading, ReadAdvance, Goto
<1>5. Account'
  BY DEF Types, Account, Writing, ReadAdvance, At, Goto, appVars
<1> QED
  BY <1>1, <1>2, <1>3, <1>4, <1>5 DEF Types

LEMMA ReadSpinTypes ==
    ASSUME Types, ReadSpin
    PROVE  Types'
<1>1. DeviceTypes' /\ RingTypes' /\ WatchTypes' /\ IsrTypes'
  BY Frame DEF Types, ReadSpin, idleForRead, watchVars, isrVars
<1>2. Flags'
  BY DEF Types, Flags, ReadSpin, Goto, idleForRead, coreVars, watchVars, isrVars
<1>3. CallTypes'
  BY DEF Types, CallTypes, Reading, ReadSpin, At, Goto
<1>4. Account'
  BY DEF Types, Account, Writing, ReadSpin, At, Goto, idleForRead, appVars
<1> QED
  BY <1>1, <1>2, <1>3, <1>4 DEF Types

LEMMA ReadCheckTypes ==
    ASSUME Types, ReadCheck
    PROVE  Types'
<1>1. DeviceTypes' /\ RingTypes' /\ WatchTypes' /\ IsrTypes'
  BY Frame DEF Types, ReadCheck, idleForRead, watchVars, isrVars
<1>2. Flags'
  BY DEF Types, Flags, ReadCheck, Return, Goto, idleForRead, coreVars, watchVars, isrVars
<1>3. CallTypes'
  <2>1. todo > 0
    BY DEF Types, CallTypes, ReadCheck, At
  <2> QED
    BY <2>1, ReturnTypes, GotoTypes DEF Types, ReadCheck
<1>4. Account'
  BY DEF Types, Account, Writing, ReadCheck, At, Return, Goto, idleForRead, appVars
<1> QED
  BY <1>1, <1>2, <1>3, <1>4 DEF Types

LEMMA ReadDoneTypes ==
    ASSUME Types, ReadDone
    PROVE  Types'
<1>1. RingTypes' /\ WatchTypes' /\ IsrTypes'
  BY Frame DEF Types, ReadDone, watchVars, isrVars
<1>2. DeviceTypes'
  BY DEF Types, DeviceTypes, ReadDone
<1>3. Flags'
  BY DEF Types, Flags, ReadDone, Return, watchVars, isrVars
<1>4. CallTypes'
  BY IndexFacts DEF CallTypes, ReadDone, Return
<1>5. Account'
  BY DEF Types, Account, Writing, ReadDone, At, Return
<1> QED
  BY <1>1, <1>2, <1>3, <1>4, <1>5 DEF Types

LEMMA CallWriteTypes ==
    ASSUME Types, NEW length \in Requests, NEW flag \in BOOLEAN, CallWrite(length, flag)
    PROVE  Types'
<1>1. DeviceTypes' /\ RingTypes' /\ WatchTypes' /\ IsrTypes'
  BY Frame DEF Types, CallWrite, idleForWrite, watchVars, isrVars
<1>2. Flags'
  BY DEF Types, Flags, CallWrite, Call, idleForWrite, coreVars, watchVars, isrVars
<1>3. CallTypes'
  BY DEF Types, CallTypes, Writing, CallWrite, Call
<1>4. Account'
  BY DEF Types, Account, Writing, CallWrite, Call, idleForWrite, At, appVars
<1> QED
  BY <1>1, <1>2, <1>3, <1>4 DEF Types

LEMMA WriteIndicesTypes ==
    ASSUME Types, WriteIndices
    PROVE  Types'
<1>1. DeviceTypes' /\ RingTypes' /\ WatchTypes' /\ IsrTypes'
  BY Frame DEF Types, WriteIndices, idleForWrite, watchVars, isrVars
<1>2. Flags'
  BY DEF Types, Flags, WriteIndices, idleForWrite, coreVars, watchVars, isrVars
<1>3. CallTypes'
  <2> DEFINE m == Least(Writable, todo)
  <2>1. Writable \in 0..(BUF_LEN - 1) /\ tx_in + Writable <= BUF_LEN
    BY Pieces DEF Types
  <2>2. todo \in Nat /\ size \in Nat /\ todo <= size
    BY DEF Types, CallTypes
  <2>0. Writable \in Nat
    BY <2>1
  <2>3. m \in Nat /\ m <= Writable /\ m <= todo /\ (Writable > 0 /\ todo > 0 => m > 0)
    BY <2>0, <2>2, LeastFacts
  <2>4. /\ in' = tx_in /\ out' = tx_out /\ n' = m /\ todo' = todo
        /\ size' = size /\ chunk' = chunk
        /\ pc' \in {"wrCopy", "wrKick"} /\ (pc' = "wrCopy" => Writable > 0)
    BY DEF WriteIndices
  <2>5. pc = "wrIndices"
    BY DEF WriteIndices, At
  <2>6. todo > 0
    BY <2>5 DEF Types, CallTypes
  <2> HIDE DEF m
  <2>7. /\ in' \in Index /\ out' \in Index /\ n' \in 0..(BUF_LEN - 1)
        /\ size' \in Nat /\ todo' \in 0..size' /\ chunk' \in Seq(Nat)
    BY <2>1, <2>3, <2>4 DEF Types, RingTypes, CallTypes
  <2>8. pc' = "wrCopy" => n' \in 1..todo' /\ in' + n' <= BUF_LEN
    BY <2>1, <2>3, <2>4, <2>6 DEF Types, RingTypes, Index
  <2>9. pc' \in Writing /\ pc' # "rdCopy"
    BY <2>4 DEF Writing
  <2> QED
    BY <2>4, <2>7, <2>8, <2>9 DEF CallTypes
<1>4. Account'
  BY DEF Types, Account, Writing, WriteIndices, At, idleForWrite, appVars
<1> QED
  BY <1>1, <1>2, <1>3, <1>4 DEF Types

LEMMA WriteCopyTypes ==
    ASSUME Types, WriteCopy
    PROVE  Types'
<1>1. DeviceTypes' /\ WatchTypes' /\ IsrTypes'
  BY Frame DEF Types, WriteCopy, watchVars, isrVars
<1>2. Flags'
  BY DEF Types, Flags, WriteCopy, coreVars, watchVars, isrVars
<1>3. RingTypes'
  <2>1. acked + size >= todo /\ acked + size - todo \in Nat
    BY DEF Types, CallTypes, Account
  <2>2. in \in Nat
    BY IndexFacts DEF Types, CallTypes
  <2>3. \A i \in Index : i \in in..(in + n - 1) => acked + size - todo + i - in + 1 \in Nat
    BY <2>1, <2>2
  <2>4. tx_buf' \in [Index -> Nat]
    BY <2>3 DEF Types, RingTypes, WriteCopy
  <2> QED
    BY <2>4 DEF Types, RingTypes, WriteCopy
<1>4. CallTypes'
  BY DEF Types, CallTypes, Writing, WriteCopy, At
<1>5. Account'
  BY DEF Types, Account, CallTypes, Writing, WriteCopy, At, appVars
<1> QED
  BY <1>1, <1>2, <1>3, <1>4, <1>5 DEF Types

LEMMA WriteAdvanceTypes ==
    ASSUME Types, WriteAdvance
    PROVE  Types'
<1>1. DeviceTypes' /\ WatchTypes' /\ IsrTypes'
  BY Frame DEF Types, WriteAdvance, watchVars, isrVars
<1>2. Flags'
  BY DEF Types, Flags, WriteAdvance, Goto, coreVars, watchVars, isrVars
<1>3. RingTypes'
  <2>1. in + n \in Nat
    BY DEF Types, CallTypes, Index
  <2>2. tx_in' \in Index
    BY <2>1, IndexFacts DEF WriteAdvance
  <2> QED
    BY <2>2 DEF Types, RingTypes, WriteAdvance
<1>4. CallTypes'
  BY DEF Types, CallTypes, Writing, WriteAdvance, Goto
<1>5. Account'
  BY DEF Types, Account, CallTypes, Writing, WriteAdvance, At, Goto
<1> QED
  BY <1>1, <1>2, <1>3, <1>4, <1>5 DEF Types

LEMMA WriteKickTypes ==
    ASSUME Types, WriteKick
    PROVE  Types'
<1>1. RingTypes' /\ WatchTypes' /\ IsrTypes'
  BY Frame DEF Types, WriteKick, watchVars, isrVars
<1>2. DeviceTypes'
  BY DEF Types, DeviceTypes, WriteKick
<1>3. Flags'
  BY DEF Types, Flags, WriteKick, Goto, WriteReturn, watchVars, isrVars, Return
<1>4. CallTypes'
  BY ReturnTypes, GotoTypes DEF Types, WriteKick, WriteReturn
<1>5. Account'
  <2>1. /\ acked + size = written + todo /\ acked + size <= MaxOut /\ pc \in Writing
        /\ written \in Nat /\ acked \in Nat /\ todo \in Nat /\ size \in Nat /\ written <= MaxOut
    BY DEF Types, CallTypes, Account, WriteKick, At, Writing
  <2>2. CASE WriteReturn
    <3>1. acked' = written /\ written' = written /\ pc' = "idle"
      BY <2>1, <2>2 DEF WriteReturn, Return
    <3> QED
      BY <2>1, <3>1 DEF Account, Writing
  <2>3. CASE ~WriteReturn
    <3>1. /\ size' = size /\ todo' = todo /\ n' = n /\ written' = written /\ acked' = acked
          /\ pc' \in {"wrSpin", "wrIndices"}
      BY <2>3 DEF WriteKick, Goto, appVars
    <3>2. pc' \in Writing \ {"wrAdvance"}
      BY <3>1 DEF Writing
    <3> QED
      BY <2>1, <3>1, <3>2 DEF Account
  <2> QED
    BY <2>2, <2>3
<1> QED
  BY <1>1, <1>2, <1>3, <1>4, <1>5 DEF Types

LEMMA WriteSpinTypes ==
    ASSUME Types, WriteSpin
    PROVE  Types'
<1>1. DeviceTypes' /\ RingTypes' /\ WatchTypes' /\ IsrTypes'
  BY Frame DEF Types, WriteSpin, idleForWrite, watchVars, isrVars
<1>2. Flags'
  BY DEF Types, Flags, WriteSpin, Goto, idleForWrite, coreVars, watchVars, isrVars
<1>3. CallTypes'
  BY DEF Types, CallTypes, Writing, WriteSpin, At, Goto
<1>4. Account'
  BY DEF Types, Account, Writing, WriteSpin, At, Goto, idleForWrite, appVars
<1> QED
  BY <1>1, <1>2, <1>3, <1>4 DEF Types

LEMMA WriteCheckTypes ==
    ASSUME Types, WriteCheck
    PROVE  Types'
<1>1. DeviceTypes' /\ RingTypes' /\ WatchTypes' /\ IsrTypes'
  BY Frame DEF Types, WriteCheck, watchVars, isrVars
<1>2. Flags'
  BY DEF Types, Flags, WriteCheck, WriteReturn, Goto, coreVars, watchVars, isrVars, Return
<1>3. CallTypes'
  <2>1. todo > 0
    BY DEF Types, CallTypes, WriteCheck, At
  <2> QED
    BY <2>1, ReturnTypes, GotoTypes DEF Types, WriteCheck, WriteReturn
<1>4. Account'
  <2>1. /\ acked + size = written + todo /\ acked + size <= MaxOut /\ pc \in Writing
        /\ written \in Nat /\ acked \in Nat /\ todo \in Nat /\ size \in Nat /\ written <= MaxOut
    BY DEF Types, CallTypes, Account, WriteCheck, At, Writing
  <2>2. CASE WriteReturn
    <3>1. acked' = written /\ written' = written /\ pc' = "idle"
      BY <2>1, <2>2 DEF WriteReturn, Return
    <3> QED
      BY <2>1, <3>1 DEF Account, Writing
  <2>3. CASE ~WriteReturn
    <3>1. /\ size' = size /\ todo' = todo /\ n' = n /\ written' = written /\ acked' = acked
          /\ pc' \in {"wrSpin", "wrIndices"}
      BY <2>3 DEF WriteCheck, Goto, appVars
    <3>2. pc' \in Writing \ {"wrAdvance"}
      BY <3>1 DEF Writing
    <3> QED
      BY <2>1, <3>1, <3>2 DEF Account
  <2> QED
    BY <2>2, <2>3
<1> QED
  BY <1>1, <1>2, <1>3, <1>4 DEF Types

LEMMA SetTimeoutTypes ==
    ASSUME Types, SetTimeout
    PROVE  Types'
<1>1. DeviceTypes' /\ RingTypes' /\ IsrTypes' /\ CallTypes' /\ Account'
  BY Frame DEF Types, SetTimeout, isrVars
<1>2. Flags'
  BY DEF Types, Flags, SetTimeout, coreVars, callVars, isrVars
<1>3. WatchTypes'
  BY DEF Types, WatchTypes, SetTimeout
<1> QED
  BY <1>1, <1>2, <1>3 DEF Types

LEMMA CallCloseTypes ==
    ASSUME Types, CallClose
    PROVE  Types'
<1>1. DeviceTypes' /\ RingTypes' /\ WatchTypes' /\ IsrTypes'
  BY Frame DEF Types, CallClose, watchVars, isrVars
<1>2. Flags'
  BY DEF Types, Flags, CallClose, Call, coreVars, watchVars, isrVars
<1>3. CallTypes'
  BY DEF Types, CallTypes, CallClose, Call
<1>4. Account'
  BY DEF Types, Account, Writing, CallClose, Call, appVars, At
<1> QED
  BY <1>1, <1>2, <1>3, <1>4 DEF Types

LEMMA CloseReturnTypes ==
    ASSUME Types, CloseReturn
    PROVE  Types'
<1>1. DeviceTypes' /\ RingTypes' /\ WatchTypes' /\ IsrTypes'
  BY Frame DEF Types, CloseReturn, watchVars, isrVars
<1>2. Flags'
  BY DEF Types, Flags, CloseReturn, Return, coreVars, watchVars, isrVars
<1>3. CallTypes'
  BY IndexFacts DEF CallTypes, CloseReturn, Return
<1>4. Account'
  BY DEF Types, Account, Writing, CloseReturn, At, Return, appVars
<1> QED
  BY <1>1, <1>2, <1>3, <1>4 DEF Types

LEMMA HostSendTypes ==
    ASSUME Types, HostSend, UNCHANGED driverVars
    PROVE  Types'
<1>1. RingTypes' /\ WatchTypes' /\ IsrTypes' /\ CallTypes' /\ Account'
  BY Frame DEF Types, driverVars, watchVars, isrVars
<1>2. DeviceTypes'
  BY DEF Types, DeviceTypes, HostSend, Arrival
<1>3. Flags'
  BY DEF Types, Flags, HostSend, Arrival, driverVars, watchVars, callVars, isrVars
<1> QED
  BY <1>1, <1>2, <1>3 DEF Types

LEMMA HostPollTypes ==
    ASSUME Types, HostPoll, UNCHANGED driverVars
    PROVE  Types'
<1>1. RingTypes' /\ WatchTypes' /\ IsrTypes' /\ CallTypes' /\ Account'
  BY Frame DEF Types, driverVars, watchVars, isrVars
<1>2. DeviceTypes'
  BY DEF Types, DeviceTypes, HostPoll
<1>3. Flags'
  BY DEF Types, Flags, HostPoll, driverVars, watchVars, callVars, isrVars
<1> QED
  BY <1>1, <1>2, <1>3 DEF Types

LEMMA HostTakeTypes ==
    ASSUME Types, HostTake, UNCHANGED driverVars
    PROVE  Types'
<1>1. RingTypes' /\ WatchTypes' /\ IsrTypes' /\ CallTypes' /\ Account'
  BY Frame DEF Types, driverVars, watchVars, isrVars
<1>2. DeviceTypes'
  BY DEF Types, DeviceTypes, IsrTypes, HostTake, driverVars, ringVars, watchVars, callVars
<1>3. Flags'
  BY DEF Types, Flags, HostTake, driverVars, watchVars, callVars, isrVars
<1> QED
  BY <1>1, <1>2, <1>3 DEF Types

LEMMA NextTypes == Types /\ [Next]_vars => Types'
<1> SUFFICES ASSUME Types, [Next]_vars PROVE Types'
  OBVIOUS
<1>1. CASE Boot
  BY <1>1, StartClockTypes, InitUartTypes DEF Boot
<1>2. CASE Read
  BY <1>2, CallReadTypes, ReadIndicesTypes, ReadCopyTypes, ReadAdvanceTypes, ReadSpinTypes,
     ReadCheckTypes, ReadDoneTypes DEF Read
<1>3. CASE Write
  BY <1>3, CallWriteTypes, WriteIndicesTypes, WriteCopyTypes, WriteAdvanceTypes, WriteKickTypes,
     WriteSpinTypes, WriteCheckTypes DEF Write
<1>4. CASE SetTimeout \/ CallClose \/ CloseReturn
  BY <1>4, SetTimeoutTypes, CallCloseTypes, CloseReturnTypes
<1>5. CASE Isr
  BY <1>5, InterruptTypes, IsrControlTypes, IsrReceiveTypes, IsrReceiveEndTypes,
     IsrReceiveLateTypes, IsrTransmitTypes, IsrTransmitEndTypes DEF Isr
<1>6. CASE Timeout
  BY <1>6, TimeoutTypes
<1>7. CASE Host
  BY <1>7, HostSendTypes, HostPollTypes, HostTakeTypes DEF Host
<1>8. CASE UNCHANGED vars
  <2>1. DeviceTypes' /\ RingTypes' /\ WatchTypes' /\ IsrTypes' /\ CallTypes' /\ Account'
    BY <1>8, Frame DEF Types, vars, watchVars, isrVars
  <2>2. Flags'
    BY <1>8 DEF Types, Flags, vars, coreVars, watchVars, callVars, isrVars
  <2> QED
    BY <2>1, <2>2 DEF Types
<1> QED
  BY <1>1, <1>2, <1>3, <1>4, <1>5, <1>6, <1>7, <1>8 DEF Next, Foreground

\* Indices, counters, locals and states stay in their ranges, and writes never
\* put more into the ring than they were given.
THEOREM JtagTypeOK == Spec => []TypeOK
<1>1. Types => TypeOK
  <2> SUFFICES ASSUME Types PROVE TypeOK
    OBVIOUS
  <2>1. {pause_irq, ac, alarm, ticking, nonblock, wi, avail} \subseteq BOOLEAN
    BY DEF Types, Flags
  <2>2. acked <= written
    <3>1. /\ acked \in Nat /\ written \in Nat /\ n \in Nat /\ todo \in Nat /\ size \in Nat
          /\ todo <= size
      BY DEF Types, Account, CallTypes
    <3>2. CASE pc \notin Writing
      BY <3>2 DEF Types, Account
    <3>3. CASE pc = "wrAdvance"
      BY DEF Types, Account, CallTypes
    <3>4. CASE pc \in Writing \ {"wrAdvance"}
      BY <3>1, <3>4 DEF Types, Account
    <3> QED
      BY <3>2, <3>3, <3>4
  <2>3. /\ Len(rx_fifo) <= readBufferDepth /\ Len(tx_fifo) <= writeBufferDepth
        /\ irq_enable \subseteq {"RE", "WE"}
    BY DEF Types, DeviceTypes
  <2>4. /\ {rx_in, rx_out, tx_in, tx_out, in, out} \subseteq Index
        /\ rx_buf \in [Index -> Nat] /\ tx_buf \in [Index -> Nat]
    BY DEF Types, RingTypes, CallTypes
  <2>5. /\ host_inactive \in 0..(INT_MAX - 2) /\ timeout \in 2..INT_MAX
        /\ isr \in {"out", "control", "receive", "transmit"}
        /\ space \in 0..writeBufferDepth
    BY DEF Types, WatchTypes, IsrTypes
  <2>6. /\ pc \in {"clock", "uart", "idle", "closing"} \cup Reading \cup Writing
        /\ n \in 0..(BUF_LEN - 1) /\ todo \in 0..size /\ size \in Nat
        /\ written <= MaxOut
    BY DEF Types, CallTypes, Account
  <2> QED
    BY <2>1, <2>2, <2>3, <2>4, <2>5, <2>6 DEF TypeOK
<1> QED
  BY <1>1, InitTypes, NextTypes, PTL DEF Spec
----------------------------------------------------------------------------
(* Neither interrupt stays shut with work to do.                           *)

\* What a read has taken so far, by where it stands.
Taken ==
    /\ pc \notin Reading \/ pc \in {"rdSpin", "rdCheck"} => chunk = <<>>
    /\ pc \in {"rdAdvance", "rdDone"} => chunk # <<>>

\* The receive interrupt is asserted only with something to receive, so the
\* routine leaves nothing behind an empty ring.
Pending ==
    /\ pause_irq => rx_fifo # <<>>
    /\ isr = "receive" => rx_fifo # <<>> \/ rx_in # rx_out

\* Nothing is written before the driver is initialised.
Quiet == pc \in {"clock", "uart"} => tx_in = tx_out

Armed == ReceiverReopens /\ TransmitterArmed

ArmedInv == Types /\ Taken /\ Pending /\ Quiet /\ Armed

LEMMA ArmedInit == Init => ArmedInv
<1> SUFFICES ASSUME Init PROVE ArmedInv
  OBVIOUS
<1>1. Types
  BY InitTypes
<1>2. Taken
  BY DEF Init, Taken
<1>3. Pending
  BY DEF Init, CoreInit, Pending
<1>4. Quiet /\ Armed
  BY DEF Init, Quiet, Armed, ReceiverReopens, TransmitterArmed
<1> QED
  BY <1>1, <1>2, <1>3, <1>4 DEF ArmedInv

\* Who leaves what alone.
LEMMA Untouched ==
    /\ Isr => UNCHANGED <<callVars, appVars, rx_out, tx_in, tx_buf>>
    /\ Timeout => UNCHANGED <<rx_fifo, irq_enable, pause_irq, ringVars, callVars, isrVars, appVars>>
    /\ Host => UNCHANGED <<irq_enable, ringVars, callVars, isrVars, appVars>>
    /\ Foreground => isr = "out" /\ UNCHANGED <<rx_fifo, pause_irq, rx_in, isrVars>>
<1>1. Isr => UNCHANGED <<callVars, appVars, rx_out, tx_in, tx_buf>>
  BY DEF Isr, Interrupt, IsrControl, IsrReceive, IsrReceiveEnd, IsrReceiveLate, IsrTransmit,
     IsrTransmitEnd, ringVars
<1>2. Timeout => UNCHANGED <<rx_fifo, irq_enable, pause_irq, ringVars, callVars, isrVars, appVars>>
  BY DEF Timeout
<1>3. Host => UNCHANGED <<irq_enable, ringVars, callVars, isrVars, appVars>>
  BY DEF Host, HostSend, HostPoll, HostTake, driverVars
<1>4. Boot => isr = "out" /\ UNCHANGED <<rx_fifo, pause_irq, rx_in, isrVars>>
  BY DEF Boot, StartClock, InitUart, At, coreVars, ringVars
<1>5. Read => isr = "out" /\ UNCHANGED <<rx_fifo, pause_irq, rx_in, isrVars>>
  BY DEF Read, CallRead, Call, ReadIndices, ReadCopy, ReadAdvance, ReadSpin, ReadCheck,
     ReadDone, At, idleForRead, coreVars, ringVars
<1>6. Write => isr = "out" /\ UNCHANGED <<rx_fifo, pause_irq, rx_in, isrVars>>
  BY DEF Write, CallWrite, Call, WriteIndices, WriteCopy, WriteAdvance, WriteKick, WriteSpin,
     WriteCheck, At, idleForWrite, coreVars, ringVars
<1>7. SetTimeout \/ CallClose \/ CloseReturn
         => isr = "out" /\ UNCHANGED <<rx_fifo, pause_irq, rx_in, isrVars>>
  BY DEF SetTimeout, CallClose, Call, CloseReturn, At, coreVars, ringVars
<1> QED
  BY <1>1, <1>2, <1>3, <1>4, <1>5, <1>6, <1>7 DEF Foreground

LEMMA TakenStep ==
    ASSUME Types, Taken, [Next]_vars
    PROVE  Taken'
<1>1. CASE UNCHANGED callVars
  BY <1>1 DEF Taken, callVars
<1>2. CASE Boot
  BY <1>2 DEF Boot, StartClock, InitUart, At, Taken, Reading
<1>3. CASE Read
  <2>1. ASSUME NEW length \in Requests, NEW flag \in BOOLEAN, CallRead(length, flag)
        PROVE  Taken'
    BY <2>1 DEF CallRead, Call, Taken, Reading
  <2>2. CASE ReadIndices
    BY <2>2 DEF ReadIndices, Return, Taken, Reading
  <2>3. CASE ReadCopy
    <3>1. n > 0 /\ chunk \in Seq(Nat) /\ pc = "rdCopy"
      BY <2>3 DEF Types, CallTypes, ReadCopy, At
    <3>2. chunk' # <<>> /\ pc' = "rdAdvance"
      <4>1. chunk' = chunk \o [i \in 1..n |-> rx_buf[out + i - 1]] /\ pc' = "rdAdvance"
        BY <2>3 DEF ReadCopy
      <4>2. n \in Nat
        BY DEF Types, CallTypes
      <4>3. Len([i \in 1..n |-> rx_buf[out + i - 1]]) = n
        BY <4>2
      <4>4. \A a, b : a \in Seq(Nat) => DOMAIN (a \o b) = 1..(Len(a) + Len(b))
        OBVIOUS
      <4>5. 1 \in DOMAIN chunk'
        BY <3>1, <4>1, <4>2
      <4>6. DOMAIN <<>> = {}
        OBVIOUS
      <4> QED
        BY <4>1, <4>5, <4>6
    <3> QED
      BY <3>2 DEF Taken, Reading
  <2>4. CASE ReadAdvance \/ ReadSpin
    BY <2>4 DEF ReadAdvance, ReadSpin, Goto, At, Taken, Reading
  <2>5. CASE ReadCheck \/ ReadDone
    BY <2>5 DEF ReadCheck, ReadDone, Return, Goto, Taken, Reading
  <2> QED
    BY <1>3, <2>1, <2>2, <2>3, <2>4, <2>5 DEF Read
<1>4. CASE Write
  <2>1. ASSUME NEW length \in Requests, NEW flag \in BOOLEAN, CallWrite(length, flag)
        PROVE  Taken'
    BY <2>1 DEF CallWrite, Call, At, Taken, Reading
  <2>2. CASE WriteIndices \/ WriteCopy
    BY <2>2 DEF WriteIndices, WriteCopy, At, Taken, Reading
  <2>3. CASE WriteAdvance \/ WriteSpin
    BY <2>3 DEF WriteAdvance, WriteSpin, Goto, At, Taken, Reading
  <2>4. CASE WriteKick \/ WriteCheck
    BY <2>4 DEF WriteKick, WriteCheck, WriteReturn, Return, Goto, At, Taken, Reading
  <2> QED
    BY <1>4, <2>1, <2>2, <2>3, <2>4 DEF Write
<1>5. CASE CallClose \/ CloseReturn
  BY <1>5 DEF CallClose, Call, CloseReturn, Return, At, Taken, Reading
<1> QED
  BY <1>1, <1>2, <1>3, <1>4, <1>5, Untouched DEF Next, Foreground, SetTimeout, vars

LEMMA PendingStep ==
    ASSUME Types, Pending, [Next]_vars
    PROVE  Pending'
<1>1. CASE Foreground
  <2>1. isr' = "out" /\ pause_irq' = pause_irq /\ rx_fifo' = rx_fifo
    BY <1>1, Untouched DEF isrVars
  <2> QED
    BY <2>1 DEF Pending
<1>2. CASE Timeout
  BY <1>2, Untouched DEF Pending, ringVars, isrVars
<1>3. CASE Host
  <2>1. isr' = isr /\ rx_in' = rx_in /\ rx_out' = rx_out
    BY <1>3, Untouched DEF ringVars, isrVars
  <2>2. CASE HostSend
    <3>1. rx_fifo' # <<>> /\ pause_irq' = pause_irq
      BY <2>2 DEF HostSend, Arrival
    <3> QED
      BY <3>1 DEF Pending
  <2>3. CASE HostPoll \/ HostTake
    <3>1. rx_fifo' = rx_fifo
      BY <2>3 DEF HostPoll, HostTake
    <3>2. pause_irq' => pause_irq \/ rx_fifo # <<>>
      BY <2>3 DEF HostPoll, HostTake
    <3> QED
      BY <2>1, <3>1, <3>2 DEF Pending
  <2> QED
    BY <1>3, <2>2, <2>3 DEF Host
<1>4. CASE Interrupt
  BY <1>4 DEF Interrupt, coreVars, Pending
<1>5. CASE IsrControl
  <2>1. ipen_AF => rx_fifo # <<>>
    BY DEF ipen_AF, fifo_AF, Pending
  <2> QED
    BY <1>5, <2>1 DEF IsrControl, coreVars, Pending
<1>6. CASE IsrReceive
  <2>1. rx_in' # rx_out' /\ pause_irq' = FALSE
    BY <1>6 DEF IsrReceive, PopData, RxFull
  <2> QED
    BY <2>1 DEF Pending
<1>7. CASE IsrReceiveEnd \/ IsrReceiveLate
  <2>1. isr' # "receive"
    BY <1>7 DEF IsrReceiveEnd, IsrReceiveLate
  <2>2. pause_irq' => pause_irq /\ rx_fifo' = rx_fifo
    BY <1>7 DEF IsrReceiveEnd, IsrReceiveLate, PopData
  <2> QED
    BY <2>1, <2>2 DEF Pending
<1>8. CASE IsrTransmit \/ IsrTransmitEnd
  BY <1>8 DEF IsrTransmit, IsrTransmitEnd, Pending
<1>9. CASE UNCHANGED vars
  BY <1>9 DEF vars, coreVars, ringVars, isrVars, Pending
<1> QED
  BY <1>1, <1>2, <1>3, <1>4, <1>5, <1>6, <1>7, <1>8, <1>9 DEF Next, Isr

LEMMA QuietStep ==
    ASSUME Types, Quiet, [Next]_vars
    PROVE  Quiet'
<1>1. CASE Boot
  BY <1>1 DEF Boot, StartClock, InitUart, At, ringVars, Quiet
<1>2. CASE Isr
  BY <1>2 DEF Isr, Interrupt, IsrControl, IsrReceive, IsrReceiveEnd, IsrReceiveLate,
     IsrTransmit, IsrTransmitEnd, ringVars, callVars, Quiet
<1>3. CASE Timeout \/ Host
  BY <1>3, Untouched DEF ringVars, callVars, Quiet
<1>4. CASE Read
  BY <1>4 DEF Read, CallRead, Call, ReadIndices, ReadCopy, ReadAdvance, ReadSpin, ReadCheck,
     ReadDone, Return, Goto, Quiet
<1>5. CASE Write
  <2>1. pc' \notin {"clock", "uart"}
    BY <1>5 DEF Write, CallWrite, Call, WriteIndices, WriteCopy, WriteAdvance, WriteKick,
       WriteSpin, WriteCheck, WriteReturn, Return, Goto
  <2> QED
    BY <2>1 DEF Quiet
<1>6. CASE SetTimeout \/ CallClose \/ CloseReturn
  BY <1>6 DEF SetTimeout, CallClose, Call, CloseReturn, Return, At, callVars, Quiet
<1>7. CASE UNCHANGED vars
  BY <1>7 DEF vars, ringVars, callVars, Quiet
<1> QED
  BY <1>1, <1>2, <1>3, <1>4, <1>5, <1>6, <1>7 DEF Next, Foreground

LEMMA ReopensStep ==
    ASSUME ArmedInv, Types', [Next]_vars
    PROVE  ReceiverReopens'
<1> DEFINE Booting == pc = "uart" \/ (ClockFirst /\ pc = "clock")
           Busy == rx_in # rx_out \/ (pc \in Reading /\ chunk # <<>>)
<1>0. ~Booting /\ "RE" \notin irq_enable => Busy
  BY DEF ArmedInv, Armed, ReceiverReopens
<1>1. CASE Boot
  <2>1. CASE StartClock
    <3>1. /\ irq_enable' = irq_enable /\ rx_in' = rx_in /\ rx_out' = rx_out
          /\ pc = "clock" /\ pc' = IF ClockFirst THEN "uart" ELSE "idle"
      BY <2>1 DEF StartClock, At, coreVars, ringVars
    <3> QED
      BY <1>0, <3>1 DEF Reading, ReceiverReopens
  <2>2. CASE InitUart
    BY <2>2 DEF InitUart, ReceiverReopens
  <2> QED
    BY <1>1, <2>1, <2>2 DEF Boot
<1>2. CASE Isr
  <2>1. UNCHANGED callVars /\ rx_out' = rx_out
    BY <1>2, Untouched
  <2>2. CASE IsrReceive
    BY <2>2 DEF IsrReceive, RxFull, ReceiverReopens
  <2>3. CASE IsrReceiveEnd
    <3>1. rx_in' = rx_in /\ ("RE" \notin irq_enable' => "RE" \notin irq_enable \/ RxFull)
      BY <2>3 DEF IsrReceiveEnd, ringVars
    <3>2. RxFull => rx_in # rx_out
      BY IndexFacts DEF ArmedInv, Types, RingTypes, RxFull
    <3> QED
      BY <1>0, <2>1, <3>1, <3>2 DEF callVars, ReceiverReopens
  <2>4. CASE IsrReceiveLate
    <3>1. rx_in' = rx_in /\ rx_in # rx_out
      BY <2>4 DEF IsrReceiveLate, ringVars, ArmedInv, Pending
    <3> QED
      BY <2>1, <3>1 DEF ReceiverReopens
  <2>5. CASE Interrupt \/ IsrControl \/ IsrTransmit \/ IsrTransmitEnd
    <3>1. rx_in' = rx_in /\ ("RE" \notin irq_enable' => "RE" \notin irq_enable)
      BY <2>5 DEF Interrupt, IsrControl, IsrTransmit, IsrTransmitEnd, coreVars, ringVars
    <3> QED
      BY <1>0, <2>1, <3>1 DEF callVars, ReceiverReopens
  <2> QED
    BY <1>2, <2>2, <2>3, <2>4, <2>5 DEF Isr
<1>3. CASE Timeout \/ Host
  BY <1>0, <1>3, Untouched DEF ringVars, callVars, ReceiverReopens
<1>4. CASE Read
  <2>1. rx_in' = rx_in
    BY <1>4, Untouched DEF Foreground
  <2>2. ASSUME NEW length \in Requests, NEW flag \in BOOLEAN, CallRead(length, flag)
        PROVE  ReceiverReopens'
    BY <1>0, <2>2 DEF CallRead, Call, At, idleForRead, coreVars, ringVars, Reading,
       ReceiverReopens
  <2>3. CASE ReadIndices
    <3>1. /\ irq_enable' = irq_enable /\ rx_out' = rx_out
          /\ chunk' = chunk
          /\ pc' \in Reading \/ chunk = <<>>
      BY <2>3 DEF ReadIndices, Return, idleForRead, coreVars, ringVars, Reading
    <3>2. ~Booting
      BY <2>3 DEF ReadIndices, At
    <3> QED
      BY <1>0, <2>1, <3>1, <3>2 DEF ReceiverReopens
  <2>4. CASE ReadCopy
    <3>1. chunk' # <<>> /\ pc' \in Reading
      <4>1. pc' = "rdAdvance"
        BY <2>4 DEF ReadCopy
      <4>2. Taken'
        BY TakenStep DEF ArmedInv
      <4> QED
        BY <4>1, <4>2 DEF Taken
    <3> QED
      BY <3>1 DEF ReceiverReopens
  <2>5. CASE ReadAdvance
    <3>1. chunk' # <<>> /\ pc' \in Reading
      BY <2>5 DEF ReadAdvance, Goto, At, ArmedInv, Taken, Reading
    <3> QED
      BY <3>1 DEF ReceiverReopens
  <2>6. CASE ReadSpin \/ ReadCheck
    <3>1. /\ irq_enable' = irq_enable /\ rx_out' = rx_out
          /\ chunk = <<>> /\ ~Booting
      BY <2>6 DEF ReadSpin, ReadCheck, At, idleForRead, coreVars, ringVars, ArmedInv, Taken
    <3> QED
      BY <1>0, <2>1, <3>1 DEF ReceiverReopens
  <2>7. CASE ReadDone
    BY <2>7 DEF ReadDone, ReceiverReopens
  <2> QED
    BY <1>4, <2>2, <2>3, <2>4, <2>5, <2>6, <2>7 DEF Read
<1>5. CASE Write \/ SetTimeout \/ CallClose \/ CloseReturn
  <2>1. /\ rx_in' = rx_in /\ rx_out' = rx_out /\ ~Booting /\ pc \notin Reading
        /\ "RE" \notin irq_enable' => "RE" \notin irq_enable
    <3>1. CASE Write
      <4>1. rx_out' = rx_out
        BY <3>1 DEF Write, CallWrite, WriteIndices, WriteCopy, WriteAdvance, WriteKick,
           WriteSpin, WriteCheck, idleForWrite, ringVars
      <4>2. "RE" \notin irq_enable' => "RE" \notin irq_enable
        BY <3>1 DEF Write, CallWrite, WriteIndices, WriteCopy, WriteAdvance, WriteKick,
           WriteSpin, WriteCheck, idleForWrite, coreVars
      <4>3. pc \in Writing \cup {"idle"}
        BY <3>1 DEF Write, CallWrite, Call, WriteIndices, WriteCopy, WriteAdvance, WriteKick,
           WriteSpin, WriteCheck, At, Writing
      <4> QED
        BY <3>1, <4>1, <4>2, <4>3, Untouched DEF Foreground, Reading, Writing
    <3>2. CASE SetTimeout \/ CallClose \/ CloseReturn
      BY <3>2 DEF SetTimeout, CallClose, Call, CloseReturn, At, coreVars, ringVars, Reading
    <3> QED
      BY <1>5, <3>1, <3>2
  <2> QED
    BY <1>0, <2>1 DEF ReceiverReopens
<1>6. CASE UNCHANGED vars
  BY <1>0, <1>6 DEF vars, coreVars, ringVars, callVars, ReceiverReopens
<1> QED
  BY <1>1, <1>2, <1>3, <1>4, <1>5, <1>6 DEF Next, Foreground

LEMMA ArmedStep ==
    ASSUME ArmedInv, [Next]_vars
    PROVE  TransmitterArmed'
<1> DEFINE OnItsWay == pc \in {"wrIndices", "wrCopy", "wrAdvance", "wrKick"}
<1>0. tx_in # tx_out /\ "WE" \notin irq_enable => OnItsWay
  BY DEF ArmedInv, Armed, TransmitterArmed
<1>1. CASE Boot
  BY <1>1 DEF Boot, StartClock, InitUart, At, ringVars, ArmedInv, Quiet, TransmitterArmed
<1>2. CASE Isr
  <2>1. UNCHANGED callVars /\ tx_in' = tx_in
    BY <1>2, Untouched
  <2>2. CASE IsrTransmit
    BY <1>0, <2>2 DEF IsrTransmit, callVars, TransmitterArmed
  <2>3. CASE IsrTransmitEnd
    <3>1. tx_out' = tx_out /\ ("WE" \notin irq_enable' => "WE" \notin irq_enable \/ tx_out = tx_in)
      BY <2>3 DEF IsrTransmitEnd, ringVars
    <3> QED
      BY <1>0, <2>1, <3>1 DEF callVars, TransmitterArmed
  <2>4. CASE Interrupt \/ IsrControl \/ IsrReceive \/ IsrReceiveEnd \/ IsrReceiveLate
    <3>1. tx_out' = tx_out /\ ("WE" \notin irq_enable' => "WE" \notin irq_enable)
      BY <2>4 DEF Interrupt, IsrControl, IsrReceive, IsrReceiveEnd, IsrReceiveLate, coreVars,
         ringVars
    <3> QED
      BY <1>0, <2>1, <3>1 DEF callVars, TransmitterArmed
  <2> QED
    BY <1>2, <2>2, <2>3, <2>4 DEF Isr
<1>3. CASE Timeout \/ Host
  BY <1>0, <1>3, Untouched DEF ringVars, callVars, TransmitterArmed
<1>4. CASE Read \/ SetTimeout \/ CallClose \/ CloseReturn
  <2>1. /\ tx_in' = tx_in /\ tx_out' = tx_out
        /\ "WE" \notin irq_enable' => "WE" \notin irq_enable
    <3>1. CASE Read
      BY <3>1 DEF Read, CallRead, ReadIndices, ReadCopy, ReadAdvance, ReadSpin, ReadCheck,
         ReadDone, idleForRead, coreVars, ringVars
    <3>2. CASE SetTimeout \/ CallClose \/ CloseReturn
      BY <3>2 DEF SetTimeout, CallClose, CloseReturn, coreVars, ringVars
    <3> QED
      BY <1>4, <3>1, <3>2
  <2>2. ~OnItsWay
    BY <1>4 DEF Read, CallRead, Call, ReadIndices, ReadCopy, ReadAdvance, ReadSpin, ReadCheck,
       ReadDone, SetTimeout, CallClose, CloseReturn, At
  <2> QED
    BY <1>0, <2>1, <2>2 DEF TransmitterArmed
<1>5. CASE Write
  <2>1. ASSUME NEW length \in Requests, NEW flag \in BOOLEAN, CallWrite(length, flag)
        PROVE  TransmitterArmed'
    BY <2>1 DEF CallWrite, Call, TransmitterArmed
  <2>2. CASE WriteIndices \/ WriteCopy \/ WriteAdvance
    <3>1. pc' \in {"wrIndices", "wrCopy", "wrAdvance", "wrKick"}
      BY <2>2 DEF WriteIndices, WriteCopy, WriteAdvance, Goto
    <3> QED
      BY <3>1 DEF TransmitterArmed
  <2>3. CASE WriteKick
    BY <2>3 DEF WriteKick, TransmitterArmed
  <2>4. CASE WriteSpin \/ WriteCheck
    BY <1>0, <2>4 DEF WriteSpin, WriteCheck, At, idleForWrite, coreVars, ringVars,
       TransmitterArmed
  <2> QED
    BY <1>5, <2>1, <2>2, <2>3, <2>4 DEF Write
<1>6. CASE UNCHANGED vars
  BY <1>0, <1>6 DEF vars, coreVars, ringVars, callVars, TransmitterArmed
<1> QED
  BY <1>1, <1>2, <1>3, <1>4, <1>5, <1>6 DEF Next, Foreground

LEMMA ArmedAlways == Spec => []ArmedInv
<1>1. ArmedInv /\ [Next]_vars => ArmedInv'
  <2> SUFFICES ASSUME ArmedInv, [Next]_vars PROVE ArmedInv'
    OBVIOUS
  <2>1. Types'
    BY NextTypes DEF ArmedInv
  <2>2. Taken' /\ Pending' /\ Quiet'
    BY TakenStep, PendingStep, QuietStep DEF ArmedInv
  <2>3. ReceiverReopens' /\ TransmitterArmed'
    BY <2>1, ReopensStep, ArmedStep
  <2> QED
    BY <2>1, <2>2, <2>3 DEF ArmedInv, Armed
<1> QED
  BY <1>1, ArmedInit, PTL DEF Spec

\* The receive interrupt is never left shut beside an empty ring, although the
\* interrupt routine may shut it with room in the ring.
THEOREM JtagReceiverReopens == Spec => []ReceiverReopens
<1>1. ArmedInv => ReceiverReopens
  BY DEF ArmedInv, Armed
<1> QED
  BY <1>1, ArmedAlways, PTL

\* Characters never lie in the ring with the transmit interrupt shut.
THEOREM JtagTransmitterArmed == Spec => []TransmitterArmed
<1>1. ArmedInv => TransmitterArmed
  BY DEF ArmedInv, Armed
<1> QED
  BY <1>1, ArmedAlways, PTL
----------------------------------------------------------------------------
(***************************************************************************)
(* The two streams.  What a ring holds is the piece of the stream after b, *)
(* from o to before w.                                                     *)
(***************************************************************************)
Dist(o, i) == IF i >= o THEN i - o ELSE i + BUF_LEN - o

Holds(o, w, buf, b) ==
    \A i \in Index : Dist(o, i) < Dist(o, w) => buf[i] = b + Dist(o, i) + 1

\* A sequence that carries on the stream after b.
Run(s, b) == \A i \in 1..Len(s) : s[i] = b + i

LEMMA Wraps ==
    \A x \in 0..BUF_LEN : x % BUF_LEN = IF x = BUF_LEN THEN 0 ELSE x
<1>1. BUF_LEN % BUF_LEN = 0
  OBVIOUS
<1>2. \A x \in 0..(BUF_LEN - 1) : x % BUF_LEN = x
  OBVIOUS
<1> QED
  BY <1>1, <1>2

LEMMA DistFacts ==
    ASSUME NEW o \in Index, NEW i \in Index
    PROVE  Dist(o, i) \in Index /\ (Dist(o, i) = 0 <=> i = o)
  BY DEF Dist, Index

LEMMA DistStart ==
    ASSUME NEW o \in Index, NEW w \in Index, NEW m \in Nat, m <= Dist(o, w), o + m <= BUF_LEN
    PROVE  /\ (o + m) % BUF_LEN \in Index
           /\ Dist((o + m) % BUF_LEN, w) = Dist(o, w) - m
<1>1. o + m \in 0..BUF_LEN
  BY DEF Index
<1>2. (o + m) % BUF_LEN = IF o + m = BUF_LEN THEN 0 ELSE o + m
  BY <1>1, Wraps
<1> QED
  BY <1>1, <1>2 DEF Dist, Index

LEMMA DistEnd ==
    ASSUME NEW o \in Index, NEW w \in Index, NEW m \in Nat, Dist(o, w) + m < BUF_LEN,
           w + m <= BUF_LEN
    PROVE  /\ (w + m) % BUF_LEN \in Index
           /\ Dist(o, (w + m) % BUF_LEN) = Dist(o, w) + m
           /\ \A i \in w..(w + m - 1) : i \in Index /\ Dist(o, i) = Dist(o, w) + (i - w)
<1>1. w + m \in 0..BUF_LEN
  BY DEF Index
<1>2. (w + m) % BUF_LEN = IF w + m = BUF_LEN THEN 0 ELSE w + m
  BY <1>1, Wraps
<1> QED
  BY <1>1, <1>2 DEF Dist, Index

\* Taking m from the ring.
LEMMA HoldsLess ==
    ASSUME NEW o \in Index, NEW w \in Index, NEW m \in Nat, NEW buf, NEW b \in Nat,
           m <= Dist(o, w), o + m <= BUF_LEN, Holds(o, w, buf, b)
    PROVE  Holds((o + m) % BUF_LEN, w, buf, b + m)
<1> SUFFICES ASSUME NEW i \in Index,
                    Dist((o + m) % BUF_LEN, i) < Dist((o + m) % BUF_LEN, w)
             PROVE  buf[i] = b + m + Dist((o + m) % BUF_LEN, i) + 1
  BY DEF Holds
<1>1. o + m \in 0..BUF_LEN
  BY DEF Index
<1>2. (o + m) % BUF_LEN = IF o + m = BUF_LEN THEN 0 ELSE o + m
  BY <1>1, Wraps
<1>3. Dist(o, i) < Dist(o, w) /\ Dist(o, i) = m + Dist((o + m) % BUF_LEN, i)
  BY <1>1, <1>2 DEF Dist, Index
<1>4. buf[i] = b + Dist(o, i) + 1
  BY <1>3 DEF Holds
<1>5. Dist(o, i) \in Nat
  BY DistFacts DEF Index
<1> QED
  BY <1>3, <1>4, <1>5 DEF Dist, Index

\* Taking in the m that lie behind the end.
LEMMA HoldsMore ==
    ASSUME NEW o \in Index, NEW w \in Index, NEW m \in Nat, NEW buf, NEW b \in Nat,
           Dist(o, w) + m < BUF_LEN, w + m <= BUF_LEN, Holds(o, w, buf, b),
           \A i \in w..(w + m - 1) : buf[i] = b + Dist(o, w) + (i - w) + 1
    PROVE  Holds(o, (w + m) % BUF_LEN, buf, b)
<1> SUFFICES ASSUME NEW i \in Index, Dist(o, i) < Dist(o, (w + m) % BUF_LEN)
             PROVE  buf[i] = b + Dist(o, i) + 1
  BY DEF Holds
<1>1. Dist(o, i) < Dist(o, w) + m
  BY DistEnd
<1>2. CASE Dist(o, i) < Dist(o, w)
  BY <1>2 DEF Holds
<1>3. CASE Dist(o, i) >= Dist(o, w)
  <2>1. i \in w..(w + m - 1)
    BY <1>1, <1>3 DEF Dist, Index
  <2>2. Dist(o, i) = Dist(o, w) + (i - w)
    BY <2>1, DistEnd
  <2>3. buf[i] = b + Dist(o, w) + (i - w) + 1
    BY <2>1
  <2>4. Dist(o, w) \in Nat /\ i \in Nat /\ w \in Nat
    BY DistFacts DEF Index
  <2> QED
    BY <2>2, <2>3, <2>4
<1>4. Dist(o, i) \in Nat /\ Dist(o, w) \in Nat
  BY DistFacts DEF Index
<1> QED
  BY <1>2, <1>3, <1>4

\* Writing behind the end.
LEMMA HoldsBehind ==
    ASSUME NEW o \in Index, NEW w \in Index, NEW m \in Nat, NEW buf, NEW buf2, NEW b,
           Dist(o, w) + m < BUF_LEN, w + m <= BUF_LEN, Holds(o, w, buf, b),
           \A i \in Index : i \notin w..(w + m - 1) => buf2[i] = buf[i]
    PROVE  Holds(o, w, buf2, b)
<1> SUFFICES ASSUME NEW i \in Index, Dist(o, i) < Dist(o, w)
             PROVE  buf2[i] = b + Dist(o, i) + 1
  BY DEF Holds
<1>1. i \notin w..(w + m - 1)
  BY DistEnd, DistFacts DEF Dist, Index
<1> QED
  BY <1>1 DEF Holds

\* Sequences that carry on the stream.
LEMMA RunAppend ==
    ASSUME NEW s \in Seq(Nat), NEW b \in Nat, Run(s, b)
    PROVE  Run(Append(s, b + Len(s) + 1), b)
  BY DEF Run

LEMMA RunTail ==
    ASSUME NEW s \in Seq(Nat), NEW b \in Nat, Run(s, b), s # <<>>
    PROVE  /\ Head(s) = b + 1 /\ Run(Tail(s), b + 1)
           /\ Tail(s) \in Seq(Nat) /\ Len(Tail(s)) = Len(s) - 1 /\ Len(s) > 0
  BY DEF Run

LEMMA RunConcat ==
    ASSUME NEW s \in Seq(Nat), NEW t \in Seq(Nat), NEW b \in Nat, Run(s, b), Run(t, b + Len(s))
    PROVE  /\ Run(s \o t, b) /\ s \o t \in Seq(Nat) /\ Len(s \o t) = Len(s) + Len(t)
<1>1. s \o t \in Seq(Nat) /\ Len(s \o t) = Len(s) + Len(t)
  OBVIOUS
<1>2. ASSUME NEW i \in 1..Len(s) + Len(t) PROVE (s \o t)[i] = b + i
  <2>1. CASE i <= Len(s)
    BY <1>2, <2>1 DEF Run
  <2>2. CASE i > Len(s)
    <3>1. (s \o t)[i] = t[i - Len(s)] /\ i - Len(s) \in 1..Len(t)
      BY <1>2, <2>2
    <3>2. t[i - Len(s)] = b + Len(s) + (i - Len(s))
      BY <3>1 DEF Run
    <3> QED
      BY <3>1, <3>2
  <2> QED
    BY <2>1, <2>2
<1> QED
  BY <1>1, <1>2 DEF Run

LEMMA RunNumbers ==
    ASSUME NEW s \in Seq(Nat), Run(s, 0) PROVE s = Numbers(Len(s))
  BY DEF Run, Numbers

LEMMA NumbersStart ==
    ASSUME NEW a \in Nat, NEW b \in Nat, b <= a
    PROVE  Len(Numbers(b)) <= Len(Numbers(a)) /\ SubSeq(Numbers(a), 1, Len(Numbers(b))) = Numbers(b)
<1>1. Len(Numbers(b)) = b /\ Len(Numbers(a)) = a
  BY DEF Numbers
<1>2. SubSeq(Numbers(a), 1, b) = Numbers(b)
  BY DEF Numbers
<1> QED
  BY <1>1, <1>2
----------------------------------------------------------------------------
(***************************************************************************)
(* Input: received, then chunk, then the ring, then the FIFO.              *)
(***************************************************************************)

\* The characters that reads have taken, and those that left the device.
Copied == Len(received) + Len(chunk) - (IF pc = "rdAdvance" THEN n ELSE 0)
Popped == hostSent - Len(rx_fifo)

InRuns ==
    /\ received \in Seq(Nat) /\ Run(received, 0)
    /\ Run(chunk, Len(received))
    /\ hostSent >= Len(rx_fifo) /\ Run(rx_fifo, Popped)

InRing ==
    /\ Popped = Copied + Dist(rx_out, rx_in)
    /\ Holds(rx_out, rx_in, rx_buf, Copied)

\* A piece a read is at lies in the ring, though the ring may grow meanwhile.
InPiece ==
    /\ pc \in {"rdCopy", "rdAdvance"} =>
          out = rx_out /\ n <= Dist(rx_out, rx_in) /\ out + n <= BUF_LEN
    /\ pc = "rdAdvance" => n <= Len(chunk)

InputInv == InRuns /\ InRing /\ InPiece

LEMMA InputFacts ==
    ASSUME Types, InputInv
    PROVE  /\ Copied \in Nat /\ Popped \in Nat /\ Dist(rx_out, rx_in) \in Index
           /\ rx_in \in Index /\ rx_out \in Index /\ n \in Nat /\ hostSent \in Nat
           /\ rx_fifo \in Seq(Nat) /\ chunk \in Seq(Nat) /\ received \in Seq(Nat)
<1>1. /\ rx_in \in Index /\ rx_out \in Index /\ n \in Nat /\ hostSent \in Nat
      /\ rx_fifo \in Seq(Nat) /\ chunk \in Seq(Nat) /\ received \in Seq(Nat)
  BY DEF Types, RingTypes, CallTypes, DeviceTypes, InputInv, InRuns
<1>2. Copied \in Nat /\ Popped \in Nat
  BY <1>1 DEF InputInv, InPiece, InRuns, Copied, Popped
<1> QED
  BY <1>1, <1>2, DistFacts

LEMMA InputInit == Init => InputInv
<1> SUFFICES ASSUME Init PROVE InputInv
  OBVIOUS
<1>1. /\ received = <<>> /\ chunk = <<>> /\ rx_fifo = <<>> /\ hostSent = 0
      /\ rx_in = 0 /\ rx_out = 0 /\ pc \in {"clock", "uart"}
  BY DEF Init, CoreInit
<1>2. Copied = 0 /\ Popped = 0 /\ Dist(rx_out, rx_in) = 0
  <2>1. Len(received) = 0 /\ Len(chunk) = 0 /\ Len(rx_fifo) = 0
    BY <1>1
  <2>2. Copied = 0 /\ Popped = 0
    <3>1. pc # "rdAdvance"
      BY <1>1
    <3>2. Copied = Len(received) + Len(chunk) - 0
      BY <3>1 DEF Copied
    <3>3. Popped = 0 - 0
      BY <1>1, <2>1 DEF Popped
    <3> QED
      BY <2>1, <3>2, <3>3
  <2>3. Dist(0, 0) = 0
    BY DEF Dist
  <2> QED
    BY <1>1, <2>2, <2>3
<1>3. InRuns
  BY <1>1 DEF InRuns, Run
<1>4. InRing
  <2>1. \A i \in Index : ~(Dist(0, i) < 0)
    BY IndexFacts, DistFacts DEF Index
  <2>2. Holds(rx_out, rx_in, rx_buf, Copied)
    BY <1>1, <1>2, <2>1 DEF Holds
  <2> QED
    BY <1>2, <2>2 DEF InRing
<1> QED
  BY <1>1, <1>3, <1>4 DEF InputInv, InPiece

\* A step that takes nothing leaves the streams as they are.
LEMMA InputKept ==
    ASSUME InputInv, UNCHANGED <<received, chunk, rx_fifo, hostSent, rx_in, rx_out, rx_buf>>,
           \/ UNCHANGED <<pc, n, out>>
           \/ pc # "rdAdvance" /\ pc' \notin {"rdCopy", "rdAdvance"}
    PROVE  InputInv'
<1>1. Copied' = Copied /\ Popped' = Popped
  BY DEF Copied, Popped
<1>2. InRuns'
  BY <1>1 DEF InputInv, InRuns, Run
<1>3. InRing'
  BY <1>1 DEF InputInv, InRing, Holds, Dist
<1>4. InPiece'
  BY DEF InputInv, InPiece, Dist
<1> QED
  BY <1>2, <1>3, <1>4 DEF InputInv

LEMMA InputArrival ==
    ASSUME Types, InputInv, Arrival, UNCHANGED <<ringVars, callVars, received>>
    PROVE  InputInv'
<1>1. /\ hostSent' = hostSent + 1 /\ rx_fifo' = Append(rx_fifo, hostSent + 1)
  BY DEF Arrival
<1>2. Len(rx_fifo') = Len(rx_fifo) + 1 /\ Len(rx_fifo) \in Nat /\ hostSent \in Nat
  BY <1>1, InputFacts
<1>3. Popped' = Popped /\ Copied' = Copied /\ hostSent' >= Len(rx_fifo')
  BY <1>1, <1>2 DEF Popped, Copied, InputInv, InRuns, callVars
<1>4. Run(rx_fifo', Popped)
  <2>1. hostSent + 1 = Popped + Len(rx_fifo) + 1
    BY <1>2 DEF Popped, InputInv, InRuns
  <2> QED
    BY <1>1, <2>1, InputFacts, RunAppend DEF InputInv, InRuns
<1>5. InRuns'
  BY <1>3, <1>4 DEF InputInv, InRuns, Run, callVars
<1>6. InRing' /\ InPiece'
  BY <1>3 DEF InputInv, InRing, InPiece, Holds, Dist, callVars, ringVars
<1> QED
  BY <1>5, <1>6 DEF InputInv

LEMMA InputReceive ==
    ASSUME Types, InputInv, IsrReceive
    PROVE  InputInv'
<1>1. /\ UNCHANGED <<received, chunk, pc, n, out, hostSent, rx_out>> /\ rx_fifo # <<>>
      /\ rx_fifo' = Tail(rx_fifo) /\ rx_in' = Next1(rx_in) /\ Next1(rx_in) # rx_out
      /\ rx_buf' = [rx_buf EXCEPT ![rx_in] = Head(rx_fifo)]
  BY DEF IsrReceive, PopData, RxFull, callVars, appVars
<1>2. /\ Head(rx_fifo) = Popped + 1 /\ Run(rx_fifo', Popped + 1)
      /\ Len(rx_fifo') = Len(rx_fifo) - 1 /\ Len(rx_fifo) > 0
  BY <1>1, InputFacts, RunTail DEF InputInv, InRuns
<1>3. Copied' = Copied /\ Popped' = Popped + 1
  BY <1>1, <1>2, InputFacts DEF Copied, Popped, InputInv, InRuns
<1>4. InRuns'
  BY <1>1, <1>2, <1>3, InputFacts DEF InputInv, InRuns, Run
<1>5. /\ rx_in \in Index /\ rx_out \in Index /\ Dist(rx_out, rx_in) + 1 < BUF_LEN
      /\ rx_in + 1 <= BUF_LEN /\ rx_in' = (rx_in + 1) % BUF_LEN
  <2>1. rx_in \in Index /\ rx_out \in Index
    BY InputFacts
  <2>2. Next1(rx_in) = IF rx_in + 1 = BUF_LEN THEN 0 ELSE rx_in + 1
    BY <2>1, Wraps DEF Next1, Index
  <2>3. rx_in' = (rx_in + 1) % BUF_LEN /\ rx_in + 1 <= BUF_LEN
    BY <1>1, <2>1 DEF Next1, Index
  <2>4. Dist(rx_out, rx_in) + 1 < BUF_LEN
    BY <1>1, <2>1, <2>2 DEF Dist, Index
  <2> QED
    BY <2>1, <2>3, <2>4
<1>6. Dist(rx_out, rx_in') = Dist(rx_out, rx_in) + 1
  BY <1>5, DistEnd
<1>7. Holds(rx_out, rx_in', rx_buf', Copied)
  <2>1. rx_buf \in [Index -> Nat]
    BY DEF Types, RingTypes
  <2>2. rx_buf'[rx_in] = Popped + 1 /\ \A i \in Index : i # rx_in => rx_buf'[i] = rx_buf[i]
    BY <1>1, <1>2, <1>5, <2>1
  <2>3. PICK buf : buf = rx_buf'
    OBVIOUS
  <2>4. \A i \in Index : i \notin rx_in..(rx_in + 1 - 1) => buf[i] = rx_buf[i]
    BY <1>5, <2>2, <2>3 DEF Index
  <2>5. Holds(rx_out, rx_in, buf, Copied)
    BY <1>5, <2>4, HoldsBehind DEF InputInv, InRing
  <2>6. \A i \in rx_in..(rx_in + 1 - 1) : buf[i] = Copied + Dist(rx_out, rx_in) + (i - rx_in) + 1
    <3>1. Popped = Copied + Dist(rx_out, rx_in)
      BY DEF InputInv, InRing
    <3>2. \A i \in rx_in..(rx_in + 1 - 1) : i = rx_in /\ i - rx_in = 0
      BY <1>5 DEF Index
    <3>3. Popped \in Nat
      BY InputFacts
    <3> QED
      BY <2>2, <2>3, <3>1, <3>2, <3>3
  <2>7. Copied \in Nat
    BY InputFacts
  <2>8. Holds(rx_out, (rx_in + 1) % BUF_LEN, buf, Copied)
    BY <1>5, <2>5, <2>6, <2>7, HoldsMore
  <2> QED
    BY <1>5, <2>3, <2>8
<1>8. InRing'
  <2>1. Dist(rx_out, rx_in)' = Dist(rx_out, rx_in')
    BY <1>1 DEF Dist
  <2>2. Popped + 1 = Copied + (Dist(rx_out, rx_in) + 1)
    BY InputFacts DEF InputInv, InRing, Index
  <2>3. Popped' = Copied' + Dist(rx_out, rx_in)'
    BY <1>3, <1>6, <2>1, <2>2
  <2>4. Holds(rx_out, rx_in, rx_buf, Copied)'
    BY <1>1, <1>3, <1>7 DEF Holds, Dist
  <2> QED
    BY <2>3, <2>4 DEF InRing
<1>9. InPiece'
  <2>1. Dist(rx_out, rx_in)' = Dist(rx_out, rx_in) + 1 /\ Dist(rx_out, rx_in) \in Nat
    BY <1>1, <1>6, InputFacts DEF Dist, Index
  <2>2. n \in Nat
    BY InputFacts
  <2> QED
    BY <1>1, <2>1, <2>2 DEF InputInv, InPiece
<1> QED
  BY <1>4, <1>8, <1>9 DEF InputInv

LEMMA InputIndices ==
    ASSUME Types, InputInv, ReadIndices
    PROVE  InputInv'
<1>1. UNCHANGED <<received, rx_fifo, hostSent, rx_in, rx_out, rx_buf>> /\ pc = "rdIndices"
  BY DEF ReadIndices, At, idleForRead, coreVars, ringVars, appVars
<1>2. CASE Return
  <2>1. chunk' = chunk /\ pc' = "idle"
    BY <1>2 DEF ReadIndices, Return
  <2> QED
    BY <1>1, <2>1, InputKept
<1>3. CASE ~Return
  <2>1. /\ out' = rx_out /\ n' = Least(Readable, todo) /\ chunk' = chunk
        /\ pc' \in {"rdCopy", "rdDone", "rdSpin"}
    BY <1>3 DEF ReadIndices
  <2>2. Readable \in Nat /\ rx_out + Readable <= BUF_LEN /\ Readable <= Dist(rx_out, rx_in)
    BY Pieces, InputFacts DEF Types, Readable, Dist, Index
  <2>3. n' \in Nat /\ n' <= Readable
    BY <2>1, <2>2, LeastFacts DEF Types, CallTypes
  <2>4. Copied' = Copied /\ Popped' = Popped
    BY <1>1, <2>1 DEF Copied, Popped
  <2>5. InRuns'
    BY <1>1, <2>1, <2>4 DEF InputInv, InRuns, Run
  <2>6. InRing'
    BY <1>1, <2>4 DEF InputInv, InRing, Holds, Dist
  <2>7. InPiece'
    <3>1. Dist(rx_out, rx_in)' = Dist(rx_out, rx_in) /\ Dist(rx_out, rx_in) \in Nat /\ rx_out \in Nat
      BY <1>1, InputFacts DEF Dist, Index
    <3>2. n' <= Dist(rx_out, rx_in) /\ rx_out + n' <= BUF_LEN
      <4>1. PICK m \in Nat : m = n'
        BY <2>3
      <4>2. PICK r \in Nat, d \in Nat : r = Readable /\ d = Dist(rx_out, rx_in)
        BY <2>2, <3>1
      <4>3. m <= r /\ r <= d /\ rx_out + r <= BUF_LEN
        BY <2>2, <2>3, <4>1, <4>2
      <4>4. m <= d
        BY <4>1, <4>2, <4>3
      <4>5. rx_out + m <= BUF_LEN
        <5>1. rx_out \in Nat /\ m \in Nat /\ r \in Nat /\ m <= r /\ rx_out + r <= BUF_LEN
          BY <3>1, <4>1, <4>2, <4>3
        <5> QED
          BY <5>1
      <4> QED
        BY <4>1, <4>2, <4>4, <4>5
    <3> QED
      BY <1>1, <2>1, <3>1, <3>2 DEF InPiece
  <2> QED
    BY <2>5, <2>6, <2>7 DEF InputInv
<1> QED
  BY <1>2, <1>3

LEMMA InputCopy ==
    ASSUME Types, InputInv, ReadCopy
    PROVE  InputInv'
<1>1. /\ UNCHANGED <<received, rx_fifo, hostSent, rx_in, rx_out, rx_buf, n, out>>
      /\ pc = "rdCopy" /\ pc' = "rdAdvance"
      /\ chunk' = chunk \o [i \in 1..n |-> rx_buf[out + i - 1]]
  BY DEF ReadCopy, At, idleForRead, coreVars, ringVars, appVars
<1>2. /\ out = rx_out /\ n <= Dist(rx_out, rx_in) /\ out + n <= BUF_LEN
      /\ Copied = Len(received) + Len(chunk)
  BY <1>1, InputFacts DEF InputInv, InPiece, Copied
<1> DEFINE piece == [i \in 1..n |-> rx_buf[out + i - 1]]
<1>3. ASSUME NEW i \in 1..n
      PROVE  rx_buf[out + i - 1] = Len(received) + Len(chunk) + i /\ rx_buf[out + i - 1] \in Nat
  <2>0. /\ out \in 0..(BUF_LEN - 1) /\ n \in Nat /\ i \in 1..n /\ out = rx_out
        /\ out + n <= BUF_LEN /\ n <= Dist(rx_out, rx_in) /\ Dist(rx_out, rx_in) \in Nat
    BY <1>2, <1>3, InputFacts DEF Index
  <2>1. out + i - 1 \in Index /\ Dist(rx_out, out + i - 1) = i - 1 /\ i - 1 < Dist(rx_out, rx_in)
    <3>1. out + i - 1 \in 0..(BUF_LEN - 1) /\ out + i - 1 >= out /\ out + i - 1 - out = i - 1
      BY <2>0
    <3>2. i - 1 < Dist(rx_out, rx_in)
      BY <2>0
    <3> QED
      BY <2>0, <3>1, <3>2 DEF Dist, Index
  <2>2. rx_buf[out + i - 1] = Copied + (i - 1) + 1
    BY <2>1 DEF InputInv, InRing, Holds
  <2>3. Copied \in Nat
    BY InputFacts
  <2> QED
    BY <1>2, <2>2, <2>3
<1>4. piece \in Seq(Nat) /\ Len(piece) = n /\ Run(piece, Len(received) + Len(chunk))
  <2>1. n \in Nat
    BY InputFacts
  <2>2. piece \in Seq(Nat) /\ Len(piece) = n
    BY <1>3, <2>1
  <2>3. \A i \in 1..n : piece[i] = Len(received) + Len(chunk) + i
    BY <1>3
  <2> QED
    BY <2>2, <2>3 DEF Run
<1>5. /\ Run(chunk', Len(received)) /\ Len(chunk') = Len(chunk) + n /\ chunk' \in Seq(Nat)
  <2>1. Run(chunk, Len(received)) /\ Len(received) \in Nat /\ chunk \in Seq(Nat)
    BY InputFacts DEF InputInv, InRuns
  <2> HIDE DEF piece
  <2>2. Run(chunk \o piece, Len(received)) /\ Len(chunk \o piece) = Len(chunk) + Len(piece)
        /\ chunk \o piece \in Seq(Nat)
    BY <1>4, <2>1, RunConcat
  <2>3. chunk' = chunk \o piece
    BY <1>1 DEF piece
  <2> QED
    BY <1>4, <2>2, <2>3
<1>6. Copied' = Copied /\ Popped' = Popped /\ n <= Len(chunk')
  BY <1>1, <1>2, <1>5, InputFacts DEF Copied, Popped
<1>7. InRuns'
  BY <1>1, <1>5, <1>6 DEF InputInv, InRuns, Run
<1>8. InRing'
  BY <1>1, <1>6 DEF InputInv, InRing, Holds, Dist
<1>9. InPiece'
  BY <1>1, <1>2, <1>6 DEF InPiece, Dist
<1> QED
  BY <1>7, <1>8, <1>9 DEF InputInv

LEMMA InputAdvance ==
    ASSUME Types, InputInv, ReadAdvance
    PROVE  InputInv'
<1>1. /\ UNCHANGED <<received, chunk, rx_fifo, hostSent, rx_in, rx_buf, n, out>>
      /\ pc = "rdAdvance" /\ pc' \in {"rdIndices", "rdDone"}
      /\ rx_out' = (out + n) % BUF_LEN
  BY DEF ReadAdvance, At, Goto, coreVars, appVars
<1>2. out = rx_out /\ n <= Dist(rx_out, rx_in) /\ out + n <= BUF_LEN /\ n <= Len(chunk)
  BY <1>1 DEF InputInv, InPiece
<1>3. Copied' = Copied + n /\ Popped' = Popped
  BY <1>1, <1>2, InputFacts DEF Copied, Popped
<1>4. InRuns'
  BY <1>1, <1>3 DEF InputInv, InRuns, Run
<1>5. /\ Dist((rx_out + n) % BUF_LEN, rx_in) = Dist(rx_out, rx_in) - n
      /\ Holds((rx_out + n) % BUF_LEN, rx_in, rx_buf, Copied + n)
  BY <1>2, InputFacts, DistStart, HoldsLess DEF InputInv, InRing
<1>6. InRing'
  <2>1. Dist(rx_out, rx_in)' = Dist((rx_out + n) % BUF_LEN, rx_in)
    BY <1>1, <1>2 DEF Dist
  <2>2. Popped = (Copied + n) + (Dist(rx_out, rx_in) - n)
    BY InputFacts DEF InputInv, InRing, Index
  <2>3. Holds(rx_out, rx_in, rx_buf, Copied)'
    BY <1>1, <1>2, <1>3, <1>5 DEF Holds, Dist
  <2> QED
    BY <1>3, <1>5, <2>1, <2>2, <2>3 DEF InRing
<1> QED
  BY <1>1, <1>4, <1>6 DEF InputInv, InPiece

LEMMA InputDone ==
    ASSUME Types, InputInv, ReadDone
    PROVE  InputInv' /\ Len(received') >= Len(received)
<1>1. /\ UNCHANGED <<rx_fifo, hostSent, rx_in, rx_out, rx_buf>>
      /\ pc = "rdDone" /\ pc' = "idle" /\ received' = received \o chunk /\ chunk' = <<>>
  BY DEF ReadDone, At, Return, ringVars
<1>2. /\ Run(received', 0) /\ received' \in Seq(Nat)
      /\ Len(received') = Len(received) + Len(chunk)
  <2>1. Run(received, 0) /\ Run(chunk, 0 + Len(received))
    BY InputFacts DEF InputInv, InRuns
  <2> QED
    BY <1>1, <2>1, InputFacts, RunConcat
<1>3. Copied' = Copied /\ Popped' = Popped
  BY <1>1, <1>2, InputFacts DEF Copied, Popped
<1>4. InRuns'
  BY <1>1, <1>2, <1>3 DEF InputInv, InRuns, Run
<1>5. InRing'
  BY <1>1, <1>3 DEF InputInv, InRing, Holds, Dist
<1> QED
  BY <1>1, <1>2, <1>4, <1>5, InputFacts DEF InputInv, InPiece

\* What the step of another part leaves of the input stream.
inputVars == <<received, chunk, rx_fifo, hostSent, rx_in, rx_out, rx_buf>>

LEMMA InputOthers ==
    /\ Boot \/ Write \/ SetTimeout \/ CallClose \/ CloseReturn
         => UNCHANGED <<received, rx_fifo, hostSent, rx_in, rx_out, rx_buf>>
            /\ pc \notin Reading /\ pc' \notin {"rdCopy", "rdAdvance"}
            /\ (chunk' = chunk \/ (pc \in Writing \cup {"closing"} /\ chunk' = <<>>))
    /\ Interrupt \/ IsrControl \/ IsrTransmit \/ IsrTransmitEnd
         => UNCHANGED <<inputVars, callVars>>
    /\ Timeout \/ ((HostPoll \/ HostTake) /\ UNCHANGED driverVars)
         => UNCHANGED <<inputVars, callVars>>
<1>1. Boot => UNCHANGED <<received, chunk, rx_fifo, hostSent, rx_in, rx_out, rx_buf>>
              /\ pc \notin Reading /\ pc' \notin {"rdCopy", "rdAdvance"}
  BY DEF Boot, StartClock, InitUart, At, Reading, coreVars, ringVars, appVars
<1>2. Write => UNCHANGED <<received, rx_fifo, hostSent, rx_in, rx_out, rx_buf>>
  BY DEF Write, CallWrite, WriteIndices, WriteCopy, WriteAdvance, WriteKick, WriteSpin,
         WriteCheck, WriteReturn, idleForWrite, coreVars, ringVars, appVars
<1>3. Write => /\ pc \notin Reading /\ pc' \notin {"rdCopy", "rdAdvance"}
               /\ (chunk' = chunk \/ (pc \in Writing \cup {"closing"} /\ chunk' = <<>>))
  BY DEF Write, CallWrite, Call, WriteIndices, WriteCopy, WriteAdvance, WriteKick, WriteSpin,
         WriteCheck, WriteReturn, Return, Goto, At, Reading, Writing
<1>4. SetTimeout \/ CallClose \/ CloseReturn
         => UNCHANGED <<received, rx_fifo, hostSent, rx_in, rx_out, rx_buf>>
            /\ pc \notin Reading /\ pc' \notin {"rdCopy", "rdAdvance"}
            /\ (chunk' = chunk \/ (pc \in Writing \cup {"closing"} /\ chunk' = <<>>))
  BY DEF SetTimeout, CallClose, Call, CloseReturn, Return, At, Reading, Writing, coreVars,
         ringVars, appVars, callVars
<1>5. Interrupt \/ IsrControl \/ IsrTransmit \/ IsrTransmitEnd => UNCHANGED <<inputVars, callVars>>
  BY DEF Interrupt, IsrControl, IsrTransmit, IsrTransmitEnd, inputVars, coreVars, ringVars,
         appVars, callVars
<1>6. Timeout => UNCHANGED <<inputVars, callVars>>
  BY DEF Timeout, inputVars, ringVars, appVars, callVars
<1>7. (HostPoll \/ HostTake) /\ UNCHANGED driverVars => UNCHANGED <<inputVars, callVars>>
  BY DEF HostPoll, HostTake, driverVars, inputVars, ringVars, appVars, callVars
<1> QED
  BY <1>1, <1>2, <1>3, <1>4, <1>5, <1>6, <1>7

\* A step of the input stream: a character comes in, or a read hands over.
InputMove ==
    \/ UNCHANGED <<hostSent, received>>
    \/ hostSent' = hostSent + 1 /\ UNCHANGED received
    \/ Len(received') >= Len(received) /\ UNCHANGED hostSent

LEMMA InputStep ==
    ASSUME Types, Taken, InputInv, [Next]_vars
    PROVE  InputInv' /\ InputMove
<1>1. CASE UNCHANGED <<inputVars, callVars>>
  BY <1>1, InputKept DEF inputVars, callVars, InputMove
<1>2. CASE Boot \/ Write \/ SetTimeout \/ CallClose \/ CloseReturn
  <2>1. UNCHANGED <<received, rx_fifo, hostSent, rx_in, rx_out, rx_buf>>
        /\ pc \notin Reading /\ pc' \notin {"rdCopy", "rdAdvance"}
        /\ (chunk' = chunk \/ chunk' = <<>>)
    BY <1>2, InputOthers
  <2>2. chunk = <<>> /\ pc # "rdAdvance"
    BY <2>1 DEF Taken, Reading
  <2> QED
    BY <2>1, <2>2, InputKept DEF InputMove
<1>3. CASE Read
  <2>1. ASSUME NEW length \in Requests, NEW flag \in BOOLEAN, CallRead(length, flag)
        PROVE  InputInv' /\ InputMove
    <3>1. /\ UNCHANGED <<received, chunk, rx_fifo, hostSent, rx_in, rx_out, rx_buf>>
          /\ pc = "idle" /\ pc' = "rdIndices"
      BY <2>1 DEF CallRead, Call, At, idleForRead, coreVars, ringVars, appVars
    <3> QED
      BY <3>1, InputKept DEF InputMove
  <2>2. CASE ReadIndices
    BY <2>2, InputIndices DEF ReadIndices, idleForRead, coreVars, appVars, InputMove
  <2>3. CASE ReadCopy
    BY <2>3, InputCopy DEF ReadCopy, idleForRead, coreVars, appVars, InputMove
  <2>4. CASE ReadAdvance
    BY <2>4, InputAdvance DEF ReadAdvance, coreVars, appVars, InputMove
  <2>5. CASE ReadSpin \/ ReadCheck
    <3>1. /\ UNCHANGED <<received, rx_fifo, hostSent, rx_in, rx_out, rx_buf>>
          /\ pc \in {"rdSpin", "rdCheck"} /\ pc' \in {"rdCheck", "rdIndices", "idle"}
          /\ chunk' \in {chunk, <<>>}
      BY <2>5 DEF ReadSpin, ReadCheck, Return, Goto, At, idleForRead, coreVars, ringVars, appVars
    <3>2. chunk = <<>>
      BY <3>1 DEF Taken
    <3> QED
      BY <3>1, <3>2, InputKept DEF InputMove
  <2>6. CASE ReadDone
    BY <2>6, InputDone DEF ReadDone, InputMove
  <2> QED
    BY <1>3, <2>1, <2>2, <2>3, <2>4, <2>5, <2>6 DEF Read
<1>4. CASE IsrReceive
  BY <1>4, InputReceive DEF IsrReceive, appVars, InputMove
<1>5. CASE IsrReceiveEnd
  <2>1. UNCHANGED <<inputVars, callVars>>
    BY <1>5 DEF IsrReceiveEnd, PopData, inputVars, ringVars, appVars, callVars
  <2> QED
    BY <1>1, <2>1
<1>6. CASE IsrReceiveLate
  BY <1>6, InputArrival DEF IsrReceiveLate, Arrival, appVars, InputMove
<1>7. CASE HostSend /\ UNCHANGED driverVars
  BY <1>7, InputArrival DEF HostSend, Arrival, driverVars, appVars, InputMove
<1>8. UNCHANGED vars => UNCHANGED <<inputVars, callVars>>
  BY DEF vars, inputVars, coreVars, ringVars, appVars, callVars
<1> QED
  BY <1>1, <1>2, <1>3, <1>4, <1>5, <1>6, <1>7, <1>8, InputOthers DEF Next, Foreground, Isr, Host

\* What a step of the stream is to the pipe.
LEMMA InputMoveIsPiped ==
    ASSUME Types, InputInv, InputInv', Types', InputMove
    PROVE  Input!Accept \/ Input!Deliver \/ UNCHANGED <<Numbers(hostSent), received>>
<1>1. hostSent \in Nat /\ hostSent' \in Nat
  BY DEF Types, DeviceTypes
<1>2. Len(received) \in Nat /\ received = Numbers(Len(received))
  BY RunNumbers, InputFacts DEF InputInv, InRuns
<1>3. Len(received') \in Nat /\ received' = Numbers(Len(received')) /\ Len(received') <= hostSent'
  <2>1. PICK r \in Seq(Nat) : r = received' /\ Run(r, 0)
    BY DEF InputInv, InRuns, Run
  <2>2. r = Numbers(Len(r)) /\ Len(r) \in Nat
    BY <2>1, RunNumbers
  <2>3. Len(received') <= hostSent'
    <3>1. /\ Copied' = Len(received') + Len(chunk') - (IF pc' = "rdAdvance" THEN n' ELSE 0)
          /\ Popped' = hostSent' - Len(rx_fifo') /\ Popped' = Copied' + Dist(rx_out, rx_in)'
      BY DEF Copied, Popped, InputInv, InRing
    <3>2. PICK a, b, c, d, e, f, g, h \in Nat :
             /\ a = Len(received') /\ b = Len(chunk') /\ c = (IF pc' = "rdAdvance" THEN n' ELSE 0)
             /\ d = hostSent' /\ e = Len(rx_fifo') /\ f = Dist(rx_out, rx_in)'
             /\ g = Copied' /\ h = Popped' /\ c <= b /\ e <= d
      <4>1. /\ Len(received') \in Nat /\ Len(chunk') \in Nat /\ Len(rx_fifo') \in Nat /\ n' \in Nat
        BY DEF Types, CallTypes, DeviceTypes, InputInv, InRuns
      <4>2. /\ Dist(rx_out, rx_in)' \in Nat
        <5>1. PICK o \in Index, w \in Index : o = rx_out' /\ w = rx_in'
          BY DEF Types, RingTypes, Index
        <5>2. Dist(o, w) \in Nat
          BY <5>1, DistFacts DEF Index
        <5> QED
          BY <5>1, <5>2 DEF Dist
      <4>3. (IF pc' = "rdAdvance" THEN n' ELSE 0) \in Nat
            /\ (IF pc' = "rdAdvance" THEN n' ELSE 0) <= Len(chunk')
        BY <4>1 DEF InputInv, InPiece
      <4>4. Len(rx_fifo') <= hostSent'
        BY <1>1, <4>1 DEF InputInv, InRuns
      <4>5. Copied' \in Nat /\ Popped' \in Nat
        BY <1>1, <3>1, <4>1, <4>3, <4>4
      <4> QED
        BY <1>1, <4>1, <4>2, <4>3, <4>4, <4>5
    <3>3. g = a + b - c /\ h = d - e /\ h = g + f
      BY <3>1, <3>2
    <3>4. a <= d
      <4>1. /\ a \in Nat /\ b \in Nat /\ c \in Nat /\ d \in Nat /\ e \in Nat /\ f \in Nat
            /\ c <= b /\ (a + b - c) + f = d - e
        BY <3>2, <3>3
      <4> QED
        BY <4>1
    <3> QED
      BY <3>2, <3>4
  <2> QED
    BY <2>1, <2>2, <2>3
<1>4. CASE UNCHANGED <<hostSent, received>>
  BY <1>4 DEF Numbers
<1>5. CASE hostSent' = hostSent + 1 /\ UNCHANGED received
  <2>1. PICK d \in Nat : d = hostSent' /\ hostSent <= d
    BY <1>1, <1>5
  <2>2. Len(Numbers(hostSent)) <= Len(Numbers(d))
        /\ SubSeq(Numbers(d), 1, Len(Numbers(hostSent))) = Numbers(hostSent)
    BY <1>1, <2>1, NumbersStart
  <2>3. Numbers(hostSent)' = Numbers(d)
    BY <2>1 DEF Numbers
  <2> QED
    BY <1>5, <2>2, <2>3 DEF Input!Accept, Input!StartsWith
<1>6. CASE Len(received') >= Len(received) /\ UNCHANGED hostSent
  <2>1. PICK k \in Nat : k = Len(received') /\ k >= Len(received) /\ k <= hostSent
        /\ received' = Numbers(k)
    BY <1>3, <1>6
  <2>2. /\ Len(received) <= Len(Numbers(k)) /\ SubSeq(Numbers(k), 1, Len(received)) = received
    <3>1. PICK j \in Nat : j = Len(received)
      BY <1>2
    <3>2. Len(Numbers(j)) <= Len(Numbers(k)) /\ SubSeq(Numbers(k), 1, Len(Numbers(j))) = Numbers(j)
      BY <2>1, <3>1, NumbersStart
    <3>3. received = Numbers(j)
      BY <1>2, <3>1
    <3> QED
      BY <3>2, <3>3
  <2>3. /\ Len(Numbers(k)) <= Len(Numbers(hostSent))
        /\ SubSeq(Numbers(hostSent), 1, Len(Numbers(k))) = Numbers(k)
    BY <1>1, <2>1, NumbersStart
  <2>4. Numbers(hostSent)' = Numbers(hostSent)
    BY <1>6 DEF Numbers
  <2> QED
    BY <2>1, <2>2, <2>3, <2>4 DEF Input!Deliver, Input!StartsWith
<1> QED
  BY <1>4, <1>5, <1>6 DEF InputMove

\* Reads return what the host sent, character for character, for all lengths of
\* the ring and the FIFOs, wherever the interrupt routine cuts into a copy.
THEOREM JtagInputIsPipe == Spec => InputSpec
<1>1. Init => Input!Init /\ InputInv
  <2> SUFFICES ASSUME Init PROVE Input!Init
    BY InputInit
  <2>1. Numbers(0) = <<>>
    BY DEF Numbers
  <2> QED
    BY <2>1 DEF Init, CoreInit, Input!Init
<1>2. ArmedInv /\ InputInv /\ [Next]_vars => InputInv'
  BY InputStep DEF ArmedInv
<1>3. ArmedInv /\ InputInv /\ ArmedInv' /\ InputInv' /\ [Next]_vars
        => [Input!Accept \/ Input!Deliver]_<<Numbers(hostSent), received>>
  BY InputStep, InputMoveIsPiped DEF ArmedInv
<1> QED
  BY <1>1, <1>2, <1>3, ArmedAlways, PTL DEF Spec, InputSpec, Input!Spec
----------------------------------------------------------------------------
(***************************************************************************)
(* Output: hostGot, then the FIFO, then the ring, up to written.           *)
(***************************************************************************)
Pushed == Len(hostGot) + Len(tx_fifo)

OutRuns ==
    /\ hostGot \in Seq(Nat) /\ Run(hostGot, 0)
    /\ Run(tx_fifo, Len(hostGot))
    /\ space + Len(tx_fifo) <= writeBufferDepth

OutRing ==
    /\ written = Pushed + Dist(tx_out, tx_in)
    /\ Holds(tx_out, tx_in, tx_buf, Pushed)

\* The piece a write is at fits behind the ring, which may shrink meanwhile.
OutPiece ==
    /\ pc \in {"wrCopy", "wrAdvance"} =>
          in = tx_in /\ Dist(tx_out, tx_in) + n < BUF_LEN /\ in + n <= BUF_LEN
    /\ pc = "wrAdvance" => \A i \in in..(in + n - 1) : tx_buf[i] = written + (i - in) + 1

OutputInv == OutRuns /\ OutRing /\ OutPiece

LEMMA OutputFacts ==
    ASSUME Types, OutputInv
    PROVE  /\ Pushed \in Nat /\ Dist(tx_out, tx_in) \in Index
           /\ tx_in \in Index /\ tx_out \in Index /\ n \in Nat /\ written \in Nat
           /\ tx_fifo \in Seq(Nat) /\ hostGot \in Seq(Nat) /\ tx_buf \in [Index -> Nat]
<1>1. /\ tx_in \in Index /\ tx_out \in Index /\ n \in Nat /\ written \in Nat
      /\ tx_fifo \in Seq(Nat) /\ hostGot \in Seq(Nat) /\ tx_buf \in [Index -> Nat]
  BY DEF Types, RingTypes, CallTypes, DeviceTypes, Account, OutputInv, OutRuns
<1>2. Pushed \in Nat
  BY <1>1 DEF Pushed
<1> QED
  BY <1>1, <1>2, DistFacts

LEMMA OutputInit == Init => OutputInv
<1> SUFFICES ASSUME Init PROVE OutputInv
  OBVIOUS
<1>1. /\ hostGot = <<>> /\ tx_fifo = <<>> /\ written = 0 /\ space = 0
      /\ tx_in = 0 /\ tx_out = 0 /\ pc \in {"clock", "uart"}
  BY DEF Init, CoreInit
<1>2. Len(hostGot) = 0 /\ Len(tx_fifo) = 0
  BY <1>1
<1>3. Pushed = 0
  BY <1>2 DEF Pushed
<1>4. OutRuns
  BY <1>1, <1>2 DEF OutRuns, Run
<1>5. OutRing
  <2>1. Dist(0, 0) = 0 /\ \A i \in Index : ~(Dist(0, i) < 0)
    BY IndexFacts, DistFacts DEF Index
  <2>2. Holds(tx_out, tx_in, tx_buf, Pushed)
    BY <1>1, <2>1 DEF Holds
  <2> QED
    BY <1>1, <1>3, <2>1, <2>2 DEF OutRing
<1> QED
  BY <1>1, <1>4, <1>5 DEF OutputInv, OutPiece

\* A step that hands nothing on leaves the stream as it is.
LEMMA OutputKept ==
    ASSUME OutputInv, UNCHANGED <<hostGot, tx_fifo, written, tx_in, tx_out, tx_buf>>,
           space' = space \/ space' + Len(tx_fifo) <= writeBufferDepth,
           UNCHANGED <<pc, n, in>> \/ pc' \notin {"wrCopy", "wrAdvance"}
    PROVE  OutputInv'
<1>1. Pushed' = Pushed
  BY DEF Pushed
<1>2. OutRuns'
  <2>1. space' + Len(tx_fifo) <= writeBufferDepth
    BY DEF OutputInv, OutRuns
  <2> QED
    BY <2>1 DEF OutputInv, OutRuns, Run
<1>3. OutRing'
  BY <1>1 DEF OutputInv, OutRing, Holds, Dist
<1>4. OutPiece'
  BY DEF OutputInv, OutPiece, Dist
<1> QED
  BY <1>2, <1>3, <1>4 DEF OutputInv

LEMMA OutputTake ==
    ASSUME Types, OutputInv, HostTake, UNCHANGED driverVars
    PROVE  OutputInv' /\ Len(hostGot') >= Len(hostGot)
<1>1. /\ UNCHANGED <<written, tx_in, tx_out, tx_buf, space, pc, n, in>> /\ tx_fifo # <<>>
      /\ hostGot' = Append(hostGot, Head(tx_fifo)) /\ tx_fifo' = Tail(tx_fifo)
  BY DEF HostTake, driverVars, ringVars, callVars, isrVars, appVars
<1>2. /\ Head(tx_fifo) = Len(hostGot) + 1 /\ Run(tx_fifo', Len(hostGot) + 1)
      /\ Len(tx_fifo') = Len(tx_fifo) - 1 /\ Len(tx_fifo) > 0
  BY <1>1, OutputFacts, RunTail DEF OutputInv, OutRuns
<1>3. /\ Run(hostGot', 0) /\ hostGot' \in Seq(Nat) /\ Len(hostGot') = Len(hostGot) + 1
  <2>1. hostGot' = Append(hostGot, 0 + Len(hostGot) + 1)
    BY <1>1, <1>2, OutputFacts
  <2>2. Run(Append(hostGot, 0 + Len(hostGot) + 1), 0)
    BY OutputFacts, RunAppend DEF OutputInv, OutRuns
  <2>3. hostGot' \in Seq(Nat) /\ Len(hostGot') = Len(hostGot) + 1
    BY <2>1, OutputFacts
  <2> QED
    BY <2>1, <2>2, <2>3
<1>4. Pushed' = Pushed
  BY <1>2, <1>3, OutputFacts DEF Pushed
<1>5. OutRuns'
  <2>1. space' + Len(tx_fifo') <= writeBufferDepth
    BY <1>1, <1>2, OutputFacts DEF OutputInv, OutRuns, Types, IsrTypes
  <2>2. Run(tx_fifo', Len(hostGot'))
    BY <1>2, <1>3
  <2> QED
    BY <1>3, <2>1, <2>2 DEF OutRuns, Run
<1>6. OutRing' /\ OutPiece'
  BY <1>1, <1>4 DEF OutputInv, OutRing, OutPiece, Holds, Dist
<1> QED
  BY <1>3, <1>5, <1>6, OutputFacts DEF OutputInv

LEMMA OutputTransmit ==
    ASSUME Types, OutputInv, IsrTransmit
    PROVE  OutputInv'
<1>1. /\ UNCHANGED <<hostGot, written, tx_in, tx_buf, pc, n, in>> /\ tx_out # tx_in
      /\ tx_out' = Next1(tx_out) /\ space > 0 /\ space' = space - 1
      /\ PushData(tx_buf[tx_out])
  BY DEF IsrTransmit, callVars, appVars
<1>2. /\ tx_out \in Index /\ tx_in \in Index /\ Dist(tx_out, tx_in) \in Nat
      /\ 1 <= Dist(tx_out, tx_in) /\ tx_out + 1 <= BUF_LEN /\ Dist(tx_out, tx_out) = 0
  <2>1. tx_out \in Index /\ tx_in \in Index
    BY OutputFacts
  <2>2. Dist(tx_out, tx_in) \in Index /\ Dist(tx_out, tx_in) # 0 /\ Dist(tx_out, tx_out) = 0
    BY <1>1, <2>1, DistFacts
  <2>3. PICK d \in Index : d = Dist(tx_out, tx_in) /\ d # 0
    BY <2>2
  <2>4. d \in Nat /\ 1 <= d
    BY <2>3 DEF Index
  <2>5. tx_out + 1 <= BUF_LEN
    BY <2>1 DEF Index
  <2> QED
    BY <2>1, <2>2, <2>3, <2>4, <2>5
<1>3. tx_buf[tx_out] = Pushed + 1
  <2>1. tx_buf[tx_out] = Pushed + 0 + 1
    BY <1>2 DEF OutputInv, OutRing, Holds
  <2> QED
    BY <2>1, OutputFacts
<1>4. tx_fifo' = Append(tx_fifo, Len(hostGot) + Len(tx_fifo) + 1)
  <2>1. Len(tx_fifo) < writeBufferDepth
    BY <1>1, OutputFacts DEF OutputInv, OutRuns, Types, IsrTypes
  <2> QED
    BY <1>1, <1>3, <2>1 DEF PushData, Pushed
<1>5. Run(tx_fifo', Len(hostGot)) /\ Len(tx_fifo') = Len(tx_fifo) + 1
  BY <1>4, OutputFacts, RunAppend DEF OutputInv, OutRuns
<1>6. Pushed' = Pushed + 1
  BY <1>1, <1>5, OutputFacts DEF Pushed
<1>7. OutRuns'
  <2>1. space' + Len(tx_fifo') <= writeBufferDepth
    BY <1>1, <1>5, OutputFacts DEF OutputInv, OutRuns, Types, IsrTypes
  <2> QED
    BY <1>1, <1>5, <2>1 DEF OutputInv, OutRuns, Run
<1>8. /\ Dist((tx_out + 1) % BUF_LEN, tx_in) = Dist(tx_out, tx_in) - 1
      /\ Holds((tx_out + 1) % BUF_LEN, tx_in, tx_buf, Pushed + 1)
  BY <1>2, OutputFacts, DistStart, HoldsLess DEF OutputInv, OutRing
<1>9. Dist(tx_out, tx_in)' = Dist(tx_out, tx_in) - 1
  BY <1>1, <1>8 DEF Dist, Next1
<1>10. OutRing'
  <2>1. written = (Pushed + 1) + (Dist(tx_out, tx_in) - 1)
    BY <1>2, OutputFacts DEF OutputInv, OutRing
  <2>2. Holds(tx_out, tx_in, tx_buf, Pushed)'
    BY <1>1, <1>6, <1>8 DEF Holds, Dist, Next1
  <2> QED
    BY <1>1, <1>6, <1>9, <2>1, <2>2 DEF OutRing
<1>11. OutPiece'
  BY <1>1, <1>2, <1>9, OutputFacts DEF OutputInv, OutPiece
<1> QED
  BY <1>7, <1>10, <1>11 DEF OutputInv

LEMMA OutputIndices ==
    ASSUME Types, OutputInv, WriteIndices
    PROVE  OutputInv'
<1>1. /\ UNCHANGED <<hostGot, tx_fifo, written, tx_in, tx_out, tx_buf, space>>
      /\ in' = tx_in /\ n' = Least(Writable, todo) /\ pc' \in {"wrCopy", "wrKick"}
  BY DEF WriteIndices, idleForWrite, coreVars, ringVars, isrVars, appVars
<1>2. /\ Writable \in Nat /\ tx_in + Writable <= BUF_LEN
      /\ Dist(tx_out, tx_in) + Writable < BUF_LEN
  <2>1. tx_out \in Index /\ tx_in \in Index
    BY OutputFacts
  <2>2. Writable \in Nat /\ tx_in + Writable <= BUF_LEN
    BY Pieces DEF Types
  <2>3. Dist(tx_out, tx_in) + Writable < BUF_LEN
    BY <2>1 DEF Writable, Dist, Index
  <2> QED
    BY <2>2, <2>3
<1>3. n' \in Nat /\ n' <= Writable
  BY <1>1, <1>2, LeastFacts DEF Types, CallTypes
<1>4. Dist(tx_out, tx_in) + n' < BUF_LEN /\ tx_in + n' <= BUF_LEN
  <2>1. PICK m \in Nat : m = n'
    BY <1>3
  <2>2. PICK r \in Nat : r = Writable
    BY <1>2
  <2>3. Dist(tx_out, tx_in) \in Nat /\ tx_in \in Nat
    BY OutputFacts DEF Index
  <2>4. PICK d \in Nat : d = Dist(tx_out, tx_in)
    BY <2>3
  <2>5. PICK w \in Nat : w = tx_in
    BY <2>3
  <2>6. m <= r /\ w + r <= BUF_LEN /\ d + r < BUF_LEN
    BY <1>2, <1>3, <2>1, <2>2, <2>4, <2>5
  <2>7. m \in Nat /\ r \in Nat /\ d \in Nat /\ w \in Nat
    BY <2>1, <2>2, <2>4, <2>5
  <2>8. d + m < BUF_LEN
    BY <2>6, <2>7
  <2>9. w + m <= BUF_LEN
    BY <2>6, <2>7
  <2> QED
    BY <2>1, <2>4, <2>5, <2>8, <2>9
<1>5. OutRuns'
  BY <1>1 DEF OutputInv, OutRuns, Run
<1>6. OutRing'
  BY <1>1 DEF OutputInv, OutRing, Holds, Dist, Pushed
<1>7. OutPiece'
  BY <1>1, <1>4 DEF OutPiece, Dist
<1> QED
  BY <1>5, <1>6, <1>7 DEF OutputInv

LEMMA OutputCopy ==
    ASSUME Types, OutputInv, WriteCopy
    PROVE  OutputInv'
<1>1. /\ UNCHANGED <<hostGot, tx_fifo, written, tx_in, tx_out, space, n, in>>
      /\ pc = "wrCopy" /\ pc' = "wrAdvance"
      /\ tx_buf' = [i \in Index |-> IF i \in in..(in + n - 1)
                                    THEN acked + size - todo + i - in + 1 ELSE tx_buf[i]]
  BY DEF WriteCopy, At, coreVars, isrVars, appVars
<1>2. in = tx_in /\ Dist(tx_out, tx_in) + n < BUF_LEN /\ in + n <= BUF_LEN
  BY <1>1 DEF OutputInv, OutPiece
<1>3. Pushed' = Pushed
  BY <1>1 DEF Pushed
<1>4. OutRuns'
  BY <1>1 DEF OutputInv, OutRuns, Run
<1>5. OutRing'
  <2>1. PICK buf : buf = tx_buf'
    OBVIOUS
  <2>2. \A i \in Index : i \notin tx_in..(tx_in + n - 1) => buf[i] = tx_buf[i]
    BY <1>1, <1>2, <2>1
  <2>3. Holds(tx_out, tx_in, buf, Pushed)
    BY <1>2, <2>2, OutputFacts, HoldsBehind DEF OutputInv, OutRing
  <2>4. Holds(tx_out, tx_in, tx_buf, Pushed)'
    BY <1>1, <1>3, <2>1, <2>3 DEF Holds, Dist
  <2> QED
    BY <1>1, <1>3, <2>4 DEF OutputInv, OutRing, Dist
<1>6. OutPiece'
  <2>1. \A i \in in..(in + n - 1) : tx_buf'[i] = written + (i - in) + 1
    <3> TAKE i \in in..(in + n - 1)
    <3>1. /\ acked \in Nat /\ size \in Nat /\ todo \in Nat /\ written \in Nat
          /\ acked + size = written + todo
      BY <1>1 DEF Types, Account, CallTypes, Writing
    <3>2. in \in Nat /\ n \in Nat /\ i \in Nat /\ i >= in
      BY <1>2, OutputFacts DEF Index
    <3>3. i \in Index
      BY <1>2, <3>2, OutputFacts DEF Index
    <3>4. tx_buf'[i] = acked + size - todo + i - in + 1
      BY <1>1, <3>3
    <3>5. acked + size - todo + i - in + 1 = written + (i - in) + 1
      BY <3>1, <3>2
    <3> QED
      BY <3>4, <3>5
  <2> QED
    BY <1>1, <1>2, <2>1 DEF OutPiece, Dist
<1> QED
  BY <1>4, <1>5, <1>6 DEF OutputInv

LEMMA OutputAdvance ==
    ASSUME Types, OutputInv, WriteAdvance
    PROVE  OutputInv' /\ written' \in Nat /\ written' >= written
<1>1. /\ UNCHANGED <<hostGot, tx_fifo, tx_out, tx_buf, space>>
      /\ pc = "wrAdvance" /\ pc' \in {"wrIndices", "wrKick"}
      /\ tx_in' = (in + n) % BUF_LEN /\ written' = written + n
  BY DEF WriteAdvance, At, Goto, coreVars, isrVars
<1>2. /\ in = tx_in /\ Dist(tx_out, tx_in) + n < BUF_LEN /\ in + n <= BUF_LEN
      /\ \A i \in in..(in + n - 1) : tx_buf[i] = written + (i - in) + 1
  BY <1>1 DEF OutputInv, OutPiece
<1>3. Pushed' = Pushed
  BY <1>1 DEF Pushed
<1>4. OutRuns'
  BY <1>1 DEF OutputInv, OutRuns, Run
<1>5. Dist(tx_out, (tx_in + n) % BUF_LEN) = Dist(tx_out, tx_in) + n
  BY <1>2, OutputFacts, DistEnd
<1>6. Holds(tx_out, (tx_in + n) % BUF_LEN, tx_buf, Pushed)
  <2>1. \A i \in tx_in..(tx_in + n - 1) :
           tx_buf[i] = Pushed + Dist(tx_out, tx_in) + (i - tx_in) + 1
    BY <1>2 DEF OutputInv, OutRing
  <2> QED
    BY <1>2, <2>1, OutputFacts, HoldsMore DEF OutputInv, OutRing
<1>7. OutRing'
  <2>1. Dist(tx_out, tx_in)' = Dist(tx_out, tx_in) + n
    BY <1>1, <1>2, <1>5 DEF Dist
  <2>2. written + n = Pushed + (Dist(tx_out, tx_in) + n)
    BY OutputFacts DEF OutputInv, OutRing, Index
  <2>3. Holds(tx_out, tx_in, tx_buf, Pushed)'
    BY <1>1, <1>2, <1>3, <1>6 DEF Holds, Dist
  <2> QED
    BY <1>1, <1>3, <2>1, <2>2, <2>3 DEF OutRing
<1> QED
  BY <1>1, <1>4, <1>7, OutputFacts DEF OutputInv, OutPiece

\* What the step of another part leaves of the output stream.
outputVars == <<hostGot, tx_fifo, written, tx_in, tx_out, tx_buf>>

LEMMA OutputOthers ==
    /\ Boot \/ Read \/ SetTimeout \/ CallClose \/ CloseReturn
         => UNCHANGED <<outputVars, space>> /\ pc' \notin {"wrCopy", "wrAdvance"}
    /\ (\E length \in Requests, flag \in BOOLEAN : CallWrite(length, flag))
       \/ WriteKick \/ WriteSpin \/ WriteCheck
         => UNCHANGED <<outputVars, space>> /\ pc' \notin {"wrCopy", "wrAdvance"}
    /\ Interrupt \/ IsrReceive \/ IsrReceiveEnd \/ IsrReceiveLate
         => UNCHANGED <<outputVars, callVars, space>>
    /\ IsrControl \/ IsrTransmitEnd => UNCHANGED <<outputVars, callVars>>
    /\ Timeout \/ ((HostPoll \/ HostSend) /\ UNCHANGED driverVars)
         => UNCHANGED <<outputVars, callVars, space>>
<1>1. Boot => UNCHANGED <<outputVars, space>> /\ pc' \notin {"wrCopy", "wrAdvance"}
  BY DEF Boot, StartClock, InitUart, outputVars, coreVars, ringVars, isrVars, appVars
<1>2. Read => UNCHANGED <<outputVars, space>>
  BY DEF Read, CallRead, ReadIndices, ReadCopy, ReadAdvance, ReadSpin, ReadCheck, ReadDone,
         idleForRead, outputVars, coreVars, ringVars, isrVars, appVars
<1>3. Read => pc' \notin {"wrCopy", "wrAdvance"}
  BY DEF Read, CallRead, Call, ReadIndices, ReadCopy, ReadAdvance, ReadSpin, ReadCheck, ReadDone,
         Return, Goto
<1>4. SetTimeout \/ CallClose \/ CloseReturn
        => UNCHANGED <<outputVars, space>> /\ pc' \notin {"wrCopy", "wrAdvance"}
  BY DEF SetTimeout, CallClose, Call, CloseReturn, Return, At, outputVars, coreVars,
         ringVars, isrVars, appVars, callVars
<1>5. (\E length \in Requests, flag \in BOOLEAN : CallWrite(length, flag))
      \/ WriteKick \/ WriteSpin \/ WriteCheck
        => UNCHANGED <<outputVars, space>> /\ pc' \notin {"wrCopy", "wrAdvance"}
  BY DEF CallWrite, Call, WriteKick, WriteSpin, WriteCheck, WriteReturn, Return, Goto,
         idleForWrite, outputVars, coreVars, ringVars, isrVars, appVars
<1>6. Interrupt \/ IsrReceive \/ IsrReceiveEnd \/ IsrReceiveLate
        => UNCHANGED <<outputVars, callVars, space>>
  BY DEF Interrupt, IsrReceive, IsrReceiveEnd, IsrReceiveLate, PopData, outputVars, coreVars,
         ringVars, callVars, appVars
<1>7. IsrControl \/ IsrTransmitEnd => UNCHANGED <<outputVars, callVars>>
  BY DEF IsrControl, IsrTransmitEnd, outputVars, coreVars, ringVars, callVars, appVars
<1>8. Timeout \/ ((HostPoll \/ HostSend) /\ UNCHANGED driverVars)
        => UNCHANGED <<outputVars, callVars, space>>
  BY DEF Timeout, HostPoll, HostSend, driverVars, outputVars, ringVars, callVars, isrVars, appVars
<1> QED
  BY <1>1, <1>2, <1>3, <1>4, <1>5, <1>6, <1>7, <1>8

\* A step of the output stream: a write fills the ring, or the host takes one.
OutputMove ==
    \/ UNCHANGED <<written, hostGot>>
    \/ written' \in Nat /\ written' >= written /\ UNCHANGED hostGot
    \/ Len(hostGot') >= Len(hostGot) /\ UNCHANGED written

LEMMA OutputStep ==
    ASSUME Types, OutputInv, [Next]_vars
    PROVE  OutputInv' /\ OutputMove
<1>1. CASE UNCHANGED <<outputVars, callVars, space>>
  BY <1>1, OutputKept DEF outputVars, callVars, OutputMove
<1>2. CASE UNCHANGED <<outputVars, space>> /\ pc' \notin {"wrCopy", "wrAdvance"}
  BY <1>2, OutputKept DEF outputVars, OutputMove
<1>3. CASE IsrControl \/ IsrTransmitEnd
  <2>1. UNCHANGED <<outputVars, callVars>>
    BY <1>3, OutputOthers
  <2>2. space' + Len(tx_fifo) <= writeBufferDepth
    <3>1. Len(tx_fifo) \in Nat /\ Len(tx_fifo) <= writeBufferDepth
      BY DEF Types, DeviceTypes
    <3>2. space' = wspace \/ space' = 0
      BY <1>3 DEF IsrControl, IsrTransmitEnd
    <3> QED
      BY <3>1, <3>2 DEF wspace
  <2> QED
    BY <2>1, <2>2, OutputKept DEF outputVars, callVars, OutputMove
<1>4. CASE IsrTransmit
  BY <1>4, OutputTransmit DEF IsrTransmit, appVars, OutputMove
<1>5. CASE WriteIndices
  BY <1>5, OutputIndices DEF WriteIndices, idleForWrite, coreVars, appVars, OutputMove
<1>6. CASE WriteCopy
  BY <1>6, OutputCopy DEF WriteCopy, coreVars, appVars, OutputMove
<1>7. CASE WriteAdvance
  BY <1>7, OutputAdvance DEF WriteAdvance, coreVars, OutputMove
<1>8. CASE HostTake /\ UNCHANGED driverVars
  BY <1>8, OutputTake DEF driverVars, appVars, OutputMove
<1>9. UNCHANGED vars => UNCHANGED <<outputVars, callVars, space>>
  BY DEF vars, outputVars, coreVars, ringVars, callVars, isrVars, appVars
<1>10. CASE \/ Boot \/ Read \/ SetTimeout \/ CallClose \/ CloseReturn
            \/ \E length \in Requests, flag \in BOOLEAN : CallWrite(length, flag)
            \/ WriteKick \/ WriteSpin \/ WriteCheck
  <2>1. CASE Boot \/ Read \/ SetTimeout \/ CallClose \/ CloseReturn
    <3>1. UNCHANGED <<outputVars, space>> /\ pc' \notin {"wrCopy", "wrAdvance"}
      BY <2>1, OutputOthers
    <3> QED
      BY <3>1, <1>2
  <2>2. CASE \/ \E length \in Requests, flag \in BOOLEAN : CallWrite(length, flag)
             \/ WriteKick \/ WriteSpin \/ WriteCheck
    <3>1. UNCHANGED <<outputVars, space>> /\ pc' \notin {"wrCopy", "wrAdvance"}
      BY <2>2, OutputOthers
    <3> QED
      BY <3>1, <1>2
  <2> QED
    BY <1>10, <2>1, <2>2
<1>11. CASE \/ Interrupt \/ IsrReceive \/ IsrReceiveEnd \/ IsrReceiveLate
            \/ Timeout \/ ((HostPoll \/ HostSend) /\ UNCHANGED driverVars)
  <2>1. UNCHANGED <<outputVars, callVars, space>>
    BY <1>11, OutputOthers
  <2> QED
    BY <2>1, <1>1
<1>12. Write => \/ \E length \in Requests, flag \in BOOLEAN : CallWrite(length, flag)
               \/ WriteKick \/ WriteSpin \/ WriteCheck
               \/ WriteIndices \/ WriteCopy \/ WriteAdvance
  BY DEF Write
<1>13. CASE Foreground
  BY <1>5, <1>6, <1>7, <1>10, <1>12, <1>13 DEF Foreground
<1>14. CASE Isr
  BY <1>3, <1>4, <1>11, <1>14 DEF Isr
<1>15. CASE Timeout \/ Host
  BY <1>8, <1>11, <1>15 DEF Host
<1>16. CASE UNCHANGED vars
  BY <1>1, <1>9, <1>16
<1> QED
  BY <1>13, <1>14, <1>15, <1>16 DEF Next

LEMMA OutputMoveIsPiped ==
    ASSUME Types, OutputInv, OutputInv', Types', OutputMove
    PROVE  Output!Accept \/ Output!Deliver \/ UNCHANGED <<Numbers(written), hostGot>>
<1>1. written \in Nat
  BY OutputFacts
<1>2. Len(hostGot) \in Nat /\ hostGot = Numbers(Len(hostGot))
  BY RunNumbers, OutputFacts DEF OutputInv, OutRuns
<1>3. Len(hostGot') \in Nat /\ hostGot' = Numbers(Len(hostGot')) /\ Len(hostGot') <= written'
  <2>1. PICK r \in Seq(Nat) : r = hostGot' /\ Run(r, 0)
    BY DEF OutputInv, OutRuns, Run
  <2>2. r = Numbers(Len(r)) /\ Len(r) \in Nat
    BY <2>1, RunNumbers
  <2>3. Len(hostGot') <= written'
    <3>1. written' = Len(hostGot') + Len(tx_fifo') + Dist(tx_out, tx_in)'
      BY DEF Pushed, OutputInv, OutRing
    <3>2. PICK o \in Index, w \in Index : o = tx_out' /\ w = tx_in'
      BY DEF Types, RingTypes, Index
    <3>3. PICK d \in Nat : d = Dist(tx_out, tx_in)'
      <4>1. Dist(o, w) \in Nat
        BY <3>2, DistFacts DEF Index
      <4> QED
        BY <3>2, <4>1 DEF Dist
    <3>4. PICK a \in Nat, b \in Nat : a = Len(hostGot') /\ b = Len(tx_fifo')
      BY <2>1, <2>2 DEF Types, DeviceTypes
    <3>5. written' = a + b + d
      BY <3>1, <3>3, <3>4
    <3> QED
      BY <3>3, <3>4, <3>5
  <2> QED
    BY <2>1, <2>2, <2>3
<1>4. CASE UNCHANGED <<written, hostGot>>
  BY <1>4 DEF Numbers
<1>5. CASE written' \in Nat /\ written' >= written /\ UNCHANGED hostGot
  <2>1. PICK d \in Nat : d = written' /\ written <= d
    BY <1>1, <1>5
  <2>2. Len(Numbers(written)) <= Len(Numbers(d))
        /\ SubSeq(Numbers(d), 1, Len(Numbers(written))) = Numbers(written)
    BY <1>1, <2>1, NumbersStart
  <2>3. Numbers(written)' = Numbers(d)
    BY <2>1 DEF Numbers
  <2> QED
    BY <1>5, <2>2, <2>3 DEF Output!Accept, Output!StartsWith
<1>6. CASE Len(hostGot') >= Len(hostGot) /\ UNCHANGED written
  <2>1. PICK k \in Nat : k = Len(hostGot') /\ k >= Len(hostGot) /\ k <= written
        /\ hostGot' = Numbers(k)
    BY <1>3, <1>6
  <2>2. /\ Len(hostGot) <= Len(Numbers(k)) /\ SubSeq(Numbers(k), 1, Len(hostGot)) = hostGot
    <3>1. PICK j \in Nat : j = Len(hostGot)
      BY <1>2
    <3>2. Len(Numbers(j)) <= Len(Numbers(k)) /\ SubSeq(Numbers(k), 1, Len(Numbers(j))) = Numbers(j)
      BY <2>1, <3>1, NumbersStart
    <3>3. hostGot = Numbers(j)
      BY <1>2, <3>1
    <3> QED
      BY <3>2, <3>3
  <2>3. /\ Len(Numbers(k)) <= Len(Numbers(written))
        /\ SubSeq(Numbers(written), 1, Len(Numbers(k))) = Numbers(k)
    BY <1>1, <2>1, NumbersStart
  <2>4. Numbers(written)' = Numbers(written)
    BY <1>6 DEF Numbers
  <2> QED
    BY <2>1, <2>2, <2>3, <2>4 DEF Output!Deliver, Output!StartsWith
<1> QED
  BY <1>4, <1>5, <1>6 DEF OutputMove

\* The host takes what the program wrote, character for character, for all
\* lengths of the ring and the FIFOs, after short writes too.
THEOREM JtagOutputIsPipe == Spec => OutputSpec
<1>1. Init => Output!Init /\ OutputInv
  <2> SUFFICES ASSUME Init PROVE Output!Init
    BY OutputInit
  <2>1. Numbers(0) = <<>>
    BY DEF Numbers
  <2> QED
    BY <2>1 DEF Init, CoreInit, Output!Init
<1>2. ArmedInv /\ OutputInv /\ [Next]_vars => OutputInv'
  BY OutputStep DEF ArmedInv
<1>3. ArmedInv /\ OutputInv /\ ArmedInv' /\ OutputInv' /\ [Next]_vars
        => [Output!Accept \/ Output!Deliver]_<<Numbers(written), hostGot>>
  BY OutputStep, OutputMoveIsPiped DEF ArmedInv
<1> QED
  BY <1>1, <1>2, <1>3, ArmedAlways, PTL DEF Spec, OutputSpec, Output!Spec
=============================================================================
