-------------------------------- MODULE Hal --------------------------------
(***************************************************************************)
(* The services of the HAL beside the drivers: the clock and interrupts,   *)
(* the device files, the heap.  They share no variable, so nothing is lost *)
(* by letting a behaviour use one of them and leaving the others as they   *)
(* start; "service" says which.                                            *)
(***************************************************************************)
EXTENDS SystemClock, DeviceFiles, Heap

VARIABLE service

halVars == <<clockVars, fileVars, heapVars, service>>

HalInit ==
    /\ ClockInit /\ FilesInit /\ HeapInit
    /\ service \in {"clock", "files", "heap"}

HalNext ==
    /\ \/ service = "clock" /\ ClockNext /\ UNCHANGED <<fileVars, heapVars>>
       \/ service = "files" /\ FilesNext /\ UNCHANGED <<clockVars, heapVars>>
       \/ service = "heap" /\ HeapNext /\ UNCHANGED <<clockVars, fileVars>>
    /\ UNCHANGED service

HalSpec ==
    /\ HalInit /\ [][HalNext]_halVars
    /\ WF_halVars(TrapGoesOn /\ UNCHANGED <<fileVars, heapVars, service>>)
============================================================================
