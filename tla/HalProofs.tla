----------------------------- MODULE HalProofs -----------------------------
(***************************************************************************)
(* Proofs about the services of the HAL: the descriptors, the heap, the    *)
(* alarms, the clock and the interrupts, for any number of descriptors,    *)
(* alarms and lines, any heap, tick and word size.                         *)
(***************************************************************************)
EXTENDS Hal, WellFoundedInduction, TLAPS

LEMMA NaturalsHaveMinimum ==
    ASSUME NEW S \in SUBSET Nat, S # {}
    PROVE  \E x \in S : \A y \in S : x <= y
<1>1. IsWellFoundedOn({p \in Nat \X Nat : p[1] < p[2]}, Nat)
  BY NatLessThanWellFounded DEF OpToRel
<1>2. PICK x \in S : \A y \in S : ~(<<y, x>> \in {p \in Nat \X Nat : p[1] < p[2]})
  BY <1>1, WFMin
<1>3. ASSUME NEW y \in S PROVE x <= y
  <2>1. ~(y < x)
    BY <1>2
  <2> QED
    BY <2>1
<1> QED
  BY <1>3
----------------------------------------------------------------------------
(***************************************************************************)
(* The descriptors.  The standard ones are always in use, every other one  *)
(* in use is below the mark, and of two that name a device only the lower  *)
(* can hold its lock: alt_fd_lock overlooks the highest descriptor alone.  *)
(***************************************************************************)
LockIsLowest ==
    \A i, j \in Descriptors :
        i # j /\ Used(i) /\ alt_fd_list[i].dev = alt_fd_list[j].dev /\ alt_fd_list[i].EXCL
          => i < j

FilesInv ==
    /\ FilesTypeOK
    /\ \A i \in Standard : Used(i)
    /\ NoDescriptorLost
    /\ \A i \in Descriptors \ Standard : Used(i) => i < max_fd
    /\ stage \notin {"sys_init", "stdout"} => max_fd >= 4
    /\ \A i \in Descriptors :
          alt_fd_list[i].EXCL => Used(i) /\ stage \in {"main", "exit"}
    /\ LockIsLowest

LEMMA StandardIsThere == Standard \subseteq Descriptors /\ ALT_MAX_FD \in Nat /\ ALT_MAX_FD > 3
  BY FilesAssumption DEF Standard, Descriptors

LEMMA FirstFreeIsFree ==
    ASSUME Free # {}
    PROVE  FirstFree \in Free
<1>1. Free \in SUBSET Nat
  BY StandardIsThere DEF Free, Descriptors
<1>2. \E i \in Free : \A j \in Free : i <= j
  BY <1>1, NaturalsHaveMinimum
<1> QED
  BY <1>2 DEF FirstFree

\* What alt_get_fd finds is no standard descriptor, and the mark rises over it.
LEMMA OpenedIsNew ==
    ASSUME FilesInv, Free # {}
    PROVE  /\ FirstFree \in Descriptors \ Standard
           /\ ~Used(FirstFree)
           /\ Mark(FirstFree) \in 0..ALT_MAX_FD
           /\ Mark(FirstFree) >= max_fd /\ Mark(FirstFree) >= 4 /\ Mark(FirstFree) > FirstFree
<1>1. FirstFree \in Free
  BY FirstFreeIsFree
<1>2. FirstFree \in Descriptors \ Standard /\ ~Used(FirstFree)
  BY <1>1 DEF Free, FilesInv
<1>3. FirstFree \in Nat /\ FirstFree < ALT_MAX_FD /\ FirstFree >= 3 /\ max_fd \in 0..ALT_MAX_FD
  BY <1>2, StandardIsThere DEF Descriptors, Standard, FilesInv, FilesTypeOK
<1> QED
  BY <1>2, <1>3, StandardIsThere DEF Mark

LEMMA FilesInvInit == FilesInit => FilesInv
  BY FilesAssumption, StandardIsThere
     DEF FilesInit, FilesInv, FilesTypeOK, Entries, Entry, FreeEntry, Used, NoDescriptorLost,
         LockIsLowest, Devices, AccessModes, Standard, Descriptors

\* A device that is not locked has no lock on any descriptor that names it.
LEMMA NotLocked ==
    ASSUME FilesInv, stage = "main", NEW dev \in Devices, NEW access, NEW nonblock,
           Openable(dev), ~Refused(dev, access, nonblock)
    PROVE  \A i \in Descriptors : alt_fd_list[i].dev = dev => ~alt_fd_list[i].EXCL
<1> SUFFICES ASSUME NEW i \in Descriptors, alt_fd_list[i].dev = dev, alt_fd_list[i].EXCL
             PROVE  FALSE
  OBVIOUS
<1> DEFINE f == FirstFree
           list == WithEntry(dev, access, nonblock)
<1>1. /\ f \in Descriptors \ Standard /\ ~Used(f)
      /\ Mark(f) >= max_fd /\ Mark(f) >= 4
      /\ Mark(f) \in 0..ALT_MAX_FD /\ max_fd \in 0..ALT_MAX_FD
  BY OpenedIsNew DEF Openable, FilesInv, FilesTypeOK
<1>2. Used(i) /\ i # f
  BY <1>1 DEF FilesInv
<1>3. i < Mark(f)
  <2>1. CASE i \in Standard
    BY <2>1, <1>1 DEF Standard
  <2>2. CASE i \notin Standard
    <3>1. i < max_fd
      BY <2>2, <1>2 DEF FilesInv
    <3> QED
      BY <3>1, <1>1 DEF Descriptors
  <2> QED
    BY <2>1, <2>2
<1>4. DOMAIN alt_fd_list = Descriptors
  BY DEF FilesInv, FilesTypeOK
<1>5. list[i] = alt_fd_list[i] /\ list[f].dev = dev
  BY <1>1, <1>2, <1>4 DEF WithEntry, Entry
<1> QED
  BY <1>2, <1>3, <1>5 DEF Refused, Locked

LEMMA OpenKeepsInv ==
    ASSUME FilesInv, stage = "main", NEW dev \in Devices, NEW access \in AccessModes,
           NEW nonblock \in BOOLEAN, OpenSucceeds(dev, access, nonblock)
    PROVE  FilesInv'
<1> DEFINE f == FirstFree
           e == Entry(dev, TRUE, access, nonblock)
<1>1. /\ f \in Descriptors \ Standard /\ ~Used(f) /\ max_fd \in 0..ALT_MAX_FD
      /\ Mark(f) \in 0..ALT_MAX_FD
      /\ Mark(f) >= max_fd /\ Mark(f) >= 4 /\ Mark(f) > f
  BY OpenedIsNew DEF OpenSucceeds, Openable, FilesInv, FilesTypeOK
<1>2. \A i \in Descriptors : alt_fd_list[i].dev = dev => ~alt_fd_list[i].EXCL
  BY NotLocked DEF OpenSucceeds
<1>3. /\ alt_fd_list' = [alt_fd_list EXCEPT ![f] = e] /\ max_fd' = Mark(f)
      /\ held' = held \cup {f} /\ alt_dev_list' = alt_dev_list /\ stage' = stage
  BY DEF OpenSucceeds, WithEntry
<1>4. e \in Entries /\ e.dev = dev /\ e.dev # NoDevice /\ e.EXCL = FALSE
  BY FilesAssumption DEF Entry, Entries, Devices
<1> HIDE DEF f, e
<1>5. FilesTypeOK'
  BY <1>1, <1>3, <1>4 DEF FilesInv, FilesTypeOK
<1>6. \A i \in Descriptors : alt_fd_list'[i] = IF i = f THEN e ELSE alt_fd_list[i]
  BY <1>3 DEF FilesInv, FilesTypeOK
<1>7. /\ \A i \in Standard : Used(i)'
      /\ NoDescriptorLost'
      /\ \A i \in Descriptors : (alt_fd_list[i].EXCL => Used(i) /\ stage \in {"main", "exit"})'
  BY <1>1, <1>3, <1>4, <1>6, StandardIsThere DEF FilesInv, NoDescriptorLost, Used
<1>8. \A i \in Descriptors \ Standard : Used(i)' => i < max_fd'
  <2> SUFFICES ASSUME NEW i \in Descriptors \ Standard, Used(i)' PROVE i < Mark(f)
    BY <1>3
  <2>1. i = f \/ i < max_fd
    BY <1>6 DEF FilesInv, Used
  <2> QED
    BY <2>1, <1>1 DEF Descriptors
<1>9. LockIsLowest'
  BY <1>1, <1>2, <1>4, <1>6 DEF FilesInv, LockIsLowest, Used
<1> QED
  BY <1>1, <1>3, <1>5, <1>7, <1>8, <1>9 DEF FilesInv

\* A table that differs in one descriptor, which is free and which the program
\* does not have.
LEMMA GivingBackKeepsInv ==
    ASSUME FilesInv, NEW f \in Descriptors \ Standard,
           alt_fd_list' = [alt_fd_list EXCEPT ![f] = FreeEntry],
           held' = held \ {f}, max_fd' \in 0..ALT_MAX_FD, max_fd' >= max_fd,
           UNCHANGED <<alt_dev_list, stage>>
    PROVE  FilesInv'
<1>1. FreeEntry \in Entries /\ FreeEntry.dev = NoDevice /\ FreeEntry.EXCL = FALSE
  BY DEF FreeEntry, Entry, Entries, AccessModes
<1>2. FilesTypeOK'
  BY <1>1 DEF FilesInv, FilesTypeOK
<1>3. \A i \in Descriptors : alt_fd_list'[i] = IF i = f THEN FreeEntry ELSE alt_fd_list[i]
  BY DEF FilesInv, FilesTypeOK
<1>4. /\ \A i \in Standard : Used(i)'
      /\ NoDescriptorLost'
      /\ \A i \in Descriptors : (alt_fd_list[i].EXCL => Used(i) /\ stage \in {"main", "exit"})'
  BY <1>1, <1>3, StandardIsThere DEF FilesInv, NoDescriptorLost, Used
<1>5. \A i \in Descriptors \ Standard : Used(i)' => i < max_fd'
  <2> SUFFICES ASSUME NEW i \in Descriptors \ Standard, Used(i)' PROVE i < max_fd'
    OBVIOUS
  <2>1. i < max_fd
    BY <1>1, <1>3 DEF FilesInv, Used
  <2> QED
    BY <2>1 DEF Descriptors, FilesInv, FilesTypeOK
<1>6. stage' \notin {"sys_init", "stdout"} => max_fd' >= 4
  BY DEF FilesInv, FilesTypeOK
<1>7. LockIsLowest'
  BY <1>1, <1>3 DEF FilesInv, LockIsLowest, Used
<1> QED
  BY <1>2, <1>4, <1>5, <1>6, <1>7 DEF FilesInv

LEMMA FailedOpenKeepsInv ==
    ASSUME FilesInv, NEW dev, NEW access, NEW nonblock, OpenFails(dev, access, nonblock)
    PROVE  FilesInv'
<1>1. /\ FirstFree \in Descriptors \ Standard /\ ~Used(FirstFree)
      /\ Mark(FirstFree) \in 0..ALT_MAX_FD /\ Mark(FirstFree) >= max_fd
  BY OpenedIsNew DEF OpenFails, Openable
<1>2. alt_fd_list' = [alt_fd_list EXCEPT ![FirstFree] = FreeEntry]
  BY <1>1 DEF OpenFails, WithEntry, Release, FilesInv, FilesTypeOK
<1>3. held' = held \ {FirstFree}
  BY <1>1 DEF OpenFails, FilesInv, NoDescriptorLost
<1> QED
  BY <1>1, <1>2, <1>3, GivingBackKeepsInv DEF OpenFails

LEMMA CloseKeepsInv ==
    ASSUME FilesInv, NEW i \in held \cup Standard, Close(i)
    PROVE  FilesInv'
<1>1. CASE i \in Standard
  <2>1. alt_fd_list' = alt_fd_list /\ held' = held
    BY <1>1 DEF Close, Release, FilesInv, FilesTypeOK
  <2> QED
    BY <2>1 DEF Close, FilesInv, FilesTypeOK, NoDescriptorLost, LockIsLowest, Used
<1>2. CASE i \notin Standard
  <2>1. i \in Descriptors \ Standard
    BY <1>2 DEF FilesInv, FilesTypeOK
  <2>2. max_fd' \in 0..ALT_MAX_FD /\ max_fd' >= max_fd
    BY DEF Close, FilesInv, FilesTypeOK
  <2> QED
    BY <1>2, <2>1, <2>2, GivingBackKeepsInv DEF Close, Release
<1> QED
  BY <1>1, <1>2

\* Changing the flags of a descriptor in use: only the lock matters.
LEMMA FlagsKeepInv ==
    ASSUME FilesInv, stage = "main", NEW i \in held \cup Standard,
           NEW e \in Entries, e.dev = alt_fd_list[i].dev,
           \/ e.EXCL => alt_fd_list[i].EXCL
           \/ \A j \in Descriptors :
                 j # i /\ alt_fd_list[j].dev = alt_fd_list[i].dev => i < j,
           alt_fd_list' = [alt_fd_list EXCEPT ![i] = e],
           UNCHANGED <<alt_dev_list, max_fd, stage, held>>
    PROVE  FilesInv'
<1>1. i \in Descriptors /\ Used(i)
  BY StandardIsThere DEF FilesInv, FilesTypeOK, NoDescriptorLost
<1>2. FilesTypeOK'
  BY DEF FilesInv, FilesTypeOK
<1>3. \A j \in Descriptors : alt_fd_list'[j] = IF j = i THEN e ELSE alt_fd_list[j]
  BY DEF FilesInv, FilesTypeOK
<1>4. \A j \in Descriptors : Used(j)' <=> Used(j)
  BY <1>3 DEF Used
<1>5. LockIsLowest'
  BY <1>1, <1>3 DEF FilesInv, LockIsLowest, Used
<1>6. \A j \in Descriptors :
         (alt_fd_list[j].EXCL => Used(j) /\ stage \in {"main", "exit"})'
  BY <1>1, <1>3, <1>4 DEF FilesInv
<1> QED
  BY <1>2, <1>4, <1>5, <1>6, StandardIsThere DEF FilesInv, NoDescriptorLost

LEMMA LockKeepsInv ==
    ASSUME FilesInv, stage = "main", NEW i \in held \cup Standard, Lock(i)
    PROVE  FilesInv'
<1>1. i \in Descriptors /\ Used(i)
  BY StandardIsThere DEF FilesInv, FilesTypeOK, NoDescriptorLost
<1>2. max_fd >= 4 /\ max_fd \in Nat
  BY DEF FilesInv, FilesTypeOK
<1>3. \A j \in Descriptors : Used(j) => j < max_fd
  BY <1>2 DEF FilesInv, Standard
<1>4. ASSUME NEW j \in Descriptors, j # i, alt_fd_list[j].dev = alt_fd_list[i].dev
      PROVE  i < j
  <2>1. i < max_fd /\ j < max_fd
    BY <1>1, <1>3, <1>4 DEF Used
  <2>2. ~(j + 1 < max_fd)
    BY <1>4 DEF Lock
  <2> QED
    BY <1>2, <1>4, <2>1, <2>2, <1>1, StandardIsThere DEF Descriptors
<1>5. [alt_fd_list[i] EXCEPT !.EXCL = TRUE] \in Entries
  BY <1>1 DEF FilesInv, FilesTypeOK, Entries
<1>6. [alt_fd_list[i] EXCEPT !.EXCL = TRUE].dev = alt_fd_list[i].dev
  BY <1>1 DEF FilesInv, FilesTypeOK, Entries
<1>7. alt_fd_list' = [alt_fd_list EXCEPT ![i] = [alt_fd_list[i] EXCEPT !.EXCL = TRUE]]
  BY DEF Lock
<1> QED
  BY <1>4, <1>5, <1>6, <1>7, FlagsKeepInv DEF Lock

LEMMA UnlockKeepsInv ==
    ASSUME FilesInv, stage = "main", NEW i \in held \cup Standard, Unlock(i)
    PROVE  FilesInv'
<1>1. alt_fd_list[i] \in Entries
  BY StandardIsThere DEF FilesInv, FilesTypeOK
<1>2. /\ [alt_fd_list[i] EXCEPT !.EXCL = FALSE] \in Entries
      /\ [alt_fd_list[i] EXCEPT !.EXCL = FALSE].dev = alt_fd_list[i].dev
      /\ [alt_fd_list[i] EXCEPT !.EXCL = FALSE].EXCL => alt_fd_list[i].EXCL
  BY <1>1 DEF Entries
<1>3. alt_fd_list' = [alt_fd_list EXCEPT ![i] = [alt_fd_list[i] EXCEPT !.EXCL = FALSE]]
  BY DEF Unlock
<1> QED
  BY <1>2, <1>3, FlagsKeepInv DEF Unlock

LEMMA SetFlagsKeepsInv ==
    ASSUME FilesInv, stage = "main", NEW i \in held \cup Standard, NEW b \in BOOLEAN,
           SetFlags(i, b)
    PROVE  FilesInv'
<1>1. alt_fd_list[i] \in Entries
  BY StandardIsThere DEF FilesInv, FilesTypeOK
<1>2. /\ [alt_fd_list[i] EXCEPT !.NONBLOCK = b] \in Entries
      /\ [alt_fd_list[i] EXCEPT !.NONBLOCK = b].dev = alt_fd_list[i].dev
      /\ [alt_fd_list[i] EXCEPT !.NONBLOCK = b].EXCL => alt_fd_list[i].EXCL
  BY <1>1 DEF Entries
<1>3. alt_fd_list' = [alt_fd_list EXCEPT ![i] = [alt_fd_list[i] EXCEPT !.NONBLOCK = b]]
  BY DEF SetFlags
<1> QED
  BY <1>2, <1>3, FlagsKeepInv DEF SetFlags

\* Start-up: a redirection takes the first free descriptor, copies it to the
\* standard one and gives it back; it is the fourth at least, and so is the mark.
LEMMA RedirectKeepsInv ==
    ASSUME FilesInv, NEW i \in Standard, NEW access \in AccessModes, Redirect(i, access),
           stage \in {"stdout", "stdin", "stderr"}, stage' \in {"stdin", "stderr", "main"}
    PROVE  FilesInv'
<1> DEFINE f == FirstFree
           e == Entry(JTAG_UART, TRUE, access, FALSE)
<1>1. /\ f \in Descriptors \ Standard /\ ~Used(f)
      /\ Mark(f) \in 0..ALT_MAX_FD /\ Mark(f) >= max_fd /\ Mark(f) >= 4
  BY OpenedIsNew DEF Redirect, Openable
<1>2. e \in Entries /\ e.dev # NoDevice /\ e.EXCL = FALSE
  BY FilesAssumption DEF Entry, Entries, Devices
<1>3. FreeEntry \in Entries /\ FreeEntry.dev = NoDevice /\ FreeEntry.EXCL = FALSE
  BY DEF FreeEntry, Entry, Entries, AccessModes
<1>4. /\ alt_fd_list' = [[[alt_fd_list EXCEPT ![f] = e] EXCEPT ![i] = [alt_fd_list EXCEPT ![f] = e][f]]
                            EXCEPT ![f] = FreeEntry]
      /\ max_fd' = Mark(f) /\ held' = held /\ alt_dev_list' = alt_dev_list
  BY <1>1 DEF Redirect, WithEntry, Release
<1>5. i \in Descriptors /\ i # f
  BY <1>1, StandardIsThere
<1> HIDE DEF f, e
<1>6. \A j \in Descriptors :
         alt_fd_list'[j] = IF j = f THEN FreeEntry ELSE IF j = i THEN e ELSE alt_fd_list[j]
  BY <1>1, <1>4, <1>5 DEF FilesInv, FilesTypeOK
<1>7. FilesTypeOK'
  <2>1. alt_fd_list' \in [Descriptors -> Entries]
    BY <1>1, <1>2, <1>3, <1>4, <1>5 DEF FilesInv, FilesTypeOK
  <2> QED
    BY <1>1, <1>4, <2>1 DEF FilesInv, FilesTypeOK
<1>8. /\ \A j \in Standard : Used(j)'
      /\ NoDescriptorLost'
  BY <1>1, <1>2, <1>3, <1>4, <1>6, StandardIsThere DEF FilesInv, NoDescriptorLost, Used
<1>9. \A j \in Descriptors : ~alt_fd_list'[j].EXCL
  BY <1>2, <1>3, <1>6 DEF FilesInv
<1>10. \A j \in Descriptors \ Standard : Used(j)' => j < max_fd'
  <2> SUFFICES ASSUME NEW j \in Descriptors \ Standard, Used(j)' PROVE j < max_fd'
    OBVIOUS
  <2>1. j < max_fd
    BY <1>3, <1>5, <1>6 DEF FilesInv, Used
  <2> QED
    BY <2>1, <1>1, <1>4 DEF Descriptors, FilesInv, FilesTypeOK
<1>11. LockIsLowest'
  BY <1>9 DEF LockIsLowest
<1> QED
  BY <1>1, <1>4, <1>7, <1>8, <1>9, <1>10, <1>11 DEF FilesInv

LEMMA FilesInvStep == FilesInv /\ [FilesNext]_fileVars => FilesInv'
<1> SUFFICES ASSUME FilesInv, [FilesNext]_fileVars PROVE FilesInv'
  OBVIOUS
<1>1. CASE SysInit
  <2>1. /\ alt_fd_list' = alt_fd_list /\ max_fd' = max_fd /\ held' = held
        /\ stage = "sys_init" /\ stage' = "stdout" /\ alt_dev_list' \subseteq Devices
    BY <1>1 DEF SysInit, FilesInv, FilesTypeOK, Devices
  <2> QED
    BY <2>1 DEF FilesInv, FilesTypeOK, NoDescriptorLost, LockIsLowest, Used
<1>2. CASE IoRedirect
  BY <1>2, RedirectKeepsInv DEF IoRedirect, Standard, AccessModes
<1>3. CASE MainReturns
  <2>1. /\ alt_fd_list' = alt_fd_list /\ max_fd' = max_fd /\ held' = held
        /\ stage = "main" /\ stage' = "exit" /\ alt_dev_list' = alt_dev_list
    BY <1>3 DEF MainReturns, Release, Standard
  <2> QED
    BY <2>1 DEF FilesInv, FilesTypeOK, NoDescriptorLost, LockIsLowest, Used
<1>4. CASE FileCalls
  BY <1>4, OpenKeepsInv, FailedOpenKeepsInv, CloseKeepsInv, LockKeepsInv, UnlockKeepsInv,
     SetFlagsKeepsInv DEF FileCalls
<1>5. CASE UNCHANGED fileVars
  BY <1>5 DEF fileVars, FilesInv, FilesTypeOK, NoDescriptorLost, LockIsLowest, Used
<1> QED
  BY <1>1, <1>2, <1>3, <1>4, <1>5 DEF FilesNext

LEMMA OneHolderFromInv == FilesInv => OneLockHolder
<1> SUFFICES ASSUME FilesInv, NEW i \in Descriptors, NEW j \in Descriptors, Used(i),
                    alt_fd_list[i].dev = alt_fd_list[j].dev,
                    alt_fd_list[i].EXCL, alt_fd_list[j].EXCL, i # j
             PROVE  FALSE
  BY DEF OneLockHolder
<1>1. i < j /\ j < i
  BY DEF FilesInv, LockIsLowest, Used
<1> QED
  BY <1>1, StandardIsThere DEF Descriptors

\* A step changes the device of a descriptor only by opening it, by giving it
\* back, or, at start-up, where no lock is held.
LEMMA DevicesMoveApart ==
    ASSUME FilesInv, FilesInv', [FilesNext]_fileVars,
           NEW i \in Descriptors, NEW j \in Descriptors, i # j,
           alt_fd_list[i].EXCL, alt_fd_list'[i].EXCL,
           alt_fd_list'[j].dev = alt_fd_list'[i].dev
    PROVE  alt_fd_list[j].dev = alt_fd_list'[j].dev
<1>1. stage \in {"main", "exit"} /\ alt_fd_list'[j].dev # NoDevice
  BY DEF FilesInv, Used
<1>2. \/ stage = "main" /\ FileCalls
      \/ alt_fd_list' = alt_fd_list
  BY <1>1 DEF FilesNext, SysInit, IoRedirect, MainReturns, Release, Standard, FileCalls, fileVars
<1>3. ASSUME NEW dev \in Devices, NEW access, NEW nonblock, stage = "main",
             OpenSucceeds(dev, access, nonblock)
      PROVE  alt_fd_list[j].dev = alt_fd_list'[j].dev
  <2>1. /\ FirstFree \in Descriptors \ Standard /\ ~Used(FirstFree)
        /\ ~(alt_fd_list[i].dev = dev)
    BY <1>3, OpenedIsNew, NotLocked DEF OpenSucceeds, Openable
  <2>2. alt_fd_list' = [alt_fd_list EXCEPT ![FirstFree] = Entry(dev, TRUE, access, nonblock)]
    BY <1>3 DEF OpenSucceeds, WithEntry
  <2>3. i # FirstFree
    BY <2>1 DEF FilesInv
  <2> QED
    BY <2>1, <2>2, <2>3 DEF FilesInv, FilesTypeOK, Entry
<1>4. ASSUME NEW dev, NEW access, NEW nonblock, OpenFails(dev, access, nonblock)
      PROVE  alt_fd_list[j].dev = alt_fd_list'[j].dev
  <2>1. FirstFree \in Descriptors \ Standard
    BY <1>4, OpenedIsNew DEF OpenFails, Openable
  <2>2. alt_fd_list' = [alt_fd_list EXCEPT ![FirstFree] = FreeEntry]
    BY <1>4, <2>1 DEF OpenFails, WithEntry, Release, FilesInv, FilesTypeOK
  <2> QED
    BY <1>1, <2>1, <2>2 DEF FilesInv, FilesTypeOK, FreeEntry, Entry
<1>5. ASSUME NEW k \in held \cup Standard, Close(k)
      PROVE  alt_fd_list[j].dev = alt_fd_list'[j].dev
  BY <1>1, <1>5 DEF Close, Release, FilesInv, FilesTypeOK, FreeEntry, Entry
<1>6. ASSUME NEW k, NEW b, Lock(k) \/ Unlock(k) \/ SetFlags(k, b)
      PROVE  alt_fd_list[j].dev = alt_fd_list'[j].dev
  BY <1>6 DEF Lock, Unlock, SetFlags, FilesInv, FilesTypeOK, Entries
<1> QED
  BY <1>2, <1>3, <1>4, <1>5, <1>6 DEF FileCalls

\* The specification of the services moves the descriptors by FilesNext alone.
LEMMA HalStepsFiles == [HalNext]_halVars => [FilesNext]_fileVars
  BY DEF HalNext, halVars, fileVars

LEMMA FilesInvHolds == HalSpec => []FilesInv
<1>1. HalInit => FilesInv
  BY FilesInvInit DEF HalInit
<1> QED
  BY <1>1, HalStepsFiles, FilesInvStep, PTL DEF HalSpec

\* Whatever opens, failed opens, closes and redirections (alt_open.c, alt_close.c,
\* alt_io_redirect.c) follow one another, the table and the program agree on what
\* is open.
THEOREM HalNoDescriptorLost == HalSpec => []NoDescriptorLost
<1>1. FilesInv => NoDescriptorLost
  BY DEF FilesInv
<1> QED
  BY <1>1, FilesInvHolds, PTL

\* Two descriptors never hold the lock of one device, although alt_fd_lock.c:61
\* overlooks the highest descriptor.
THEOREM HalOneLockHolder == HalSpec => []OneLockHolder
  BY FilesInvHolds, OneHolderFromInv, PTL

\* While a descriptor holds the lock, no other one comes to name its device.
THEOREM HalLockKeepsOthersOut == HalSpec => LockKeepsOthersOut
<1>1. FilesInv /\ FilesInv' /\ [HalNext]_halVars =>
        [\A i, j \in Descriptors :
            i # j /\ alt_fd_list[i].EXCL /\ alt_fd_list'[i].EXCL
              /\ alt_fd_list'[j].dev = alt_fd_list'[i].dev
                => alt_fd_list[j].dev = alt_fd_list'[j].dev]_fileVars
  BY HalStepsFiles, DevicesMoveApart
<1> QED
  BY <1>1, FilesInvHolds, PTL DEF HalSpec, LockKeepsOthersOut
----------------------------------------------------------------------------
(***************************************************************************)
(* The heap.  A block is cut where the end comes down on it, so that what  *)
(* is left of two blocks is as far apart as they were.  The net of the     *)
(* increments is at most how far the end has moved: alignment only adds.   *)
(***************************************************************************)
HeapInv ==
    /\ heap_end \in Nat /\ taken \in Int
    /\ \A b \in blocks : b.first \in Nat /\ b.end \in Nat
    /\ taken >= 0 => HEAP_START + taken <= heap_end
    /\ BlocksAreApart

LEMMA AlignedIsNext ==
    ASSUME NEW a \in Nat
    PROVE  Aligned(a) \in Nat /\ a <= Aligned(a) /\ Aligned(a) < a + 4 /\ Aligned(a) % 4 = 0
<1>1. PICK q \in Nat : q = (a + 3) \div 4 /\ 4 * q <= a + 3 /\ a + 3 < 4 * q + 4
  OBVIOUS
<1>2. Aligned(a) = 4 * q
  BY <1>1 DEF Aligned
<1>3. (4 * q) % 4 = 0
  BY <1>1
<1> QED
  BY <1>1, <1>2, <1>3

\* What a step of the program leaves of the heap's end, by the sign of its increment.
LEMMA NewEndIs ==
    ASSUME HeapInv, NEW incr \in Increments, NewEnd(incr) <= HEAP_LIMIT
    PROVE  NewEnd(incr) = Aligned(heap_end) + incr /\ NewEnd(incr) \in Nat
<1>1. /\ HEAP_LIMIT \in Nat /\ ADDRESSES \in Nat /\ 2 * (HEAP_LIMIT + 4) <= ADDRESSES
      /\ incr \in Int /\ -ADDRESSES <= 2 * incr
  BY HeapAssumption
<1>2. PICK a \in Nat : a = Aligned(heap_end)
  BY AlignedIsNext DEF HeapInv
<1>3. NewEnd(incr) = IF a + incr < 0 THEN a + incr + ADDRESSES ELSE a + incr
  BY <1>2 DEF NewEnd
<1> QED
  BY <1>1, <1>2, <1>3

\* The count of the bytes taken stays behind the end.
LEMMA TakenIsBehind ==
    ASSUME HeapInv, NEW incr \in Increments, NewEnd(incr) <= HEAP_LIMIT
    PROVE  /\ Taken(incr) \in Int
           /\ Taken(incr) >= 0 => taken >= 0 /\ HEAP_START + Taken(incr) <= NewEnd(incr)
<1>1. incr \in Int /\ HEAP_START \in Nat /\ heap_end \in Nat /\ taken \in Int
  BY HeapAssumption DEF HeapInv
<1>2. Aligned(heap_end) \in Nat /\ heap_end <= Aligned(heap_end)
  BY <1>1, AlignedIsNext
<1>3. NewEnd(incr) = Aligned(heap_end) + incr
  BY NewEndIs
<1> QED
  BY <1>1, <1>2, <1>3 DEF HeapInv, Taken

LEMMA HeapInvStep == HeapInv /\ [HeapNext]_heapVars => HeapInv'
<1> SUFFICES ASSUME HeapInv, [HeapNext]_heapVars PROVE HeapInv'
  OBVIOUS
<1>1. /\ HEAP_START \in Nat /\ HEAP_LIMIT \in Nat /\ Increments \subseteq Int
      /\ heap_end \in Nat /\ taken \in Int
  BY HeapAssumption DEF HeapInv
<1>2. /\ Aligned(heap_end) \in Nat /\ heap_end <= Aligned(heap_end)
      /\ Aligned(heap_end) % 4 = 0
  BY <1>1, AlignedIsNext
<1>3. ASSUME NEW incr \in Increments, Grow(incr) PROVE HeapInv'
  <2> DEFINE new == [first |-> Aligned(heap_end), end |-> heap_end']
  <2>1. /\ heap_end' = Aligned(heap_end) + incr /\ heap_end' \in Nat /\ incr \in Int
        /\ incr > 0 /\ heap_end' <= HEAP_LIMIT
    BY <1>1, <1>3, NewEndIs DEF Grow
  <2>2. taken' \in Int /\ (taken' >= 0 => taken >= 0 /\ HEAP_START + taken' <= heap_end')
    BY <1>3, TakenIsBehind DEF Grow
  <2>3. blocks' = blocks \cup {new}
    BY <1>3 DEF Grow
  <2>4. heap_end < heap_end' /\ Aligned(heap_end) < heap_end'
    BY <1>1, <1>2, <2>1
  <2>5. taken' >= 0 => HEAP_START <= heap_end
    BY <1>1, <2>2 DEF HeapInv
  <2>6. ASSUME NEW b \in blocks'
        PROVE  /\ b.first \in Nat /\ b.end \in Nat /\ b.first % 4 = 0 /\ b.first < b.end
               /\ b.end <= HEAP_LIMIT /\ b.end <= heap_end'
               /\ taken' >= 0 => HEAP_START <= b.first
    <3>1. CASE b \in blocks
      <4>1. /\ b.first \in Nat /\ b.end \in Nat /\ b.first % 4 = 0 /\ b.first < b.end
            /\ b.end <= HEAP_LIMIT /\ b.end <= heap_end
            /\ taken >= 0 => HEAP_START <= b.first
        BY <3>1 DEF HeapInv, BlocksAreApart
      <4> QED
        BY <4>1, <1>1, <2>1, <2>2, <2>4
    <3>2. CASE b = new
      <4>1. b.first = Aligned(heap_end) /\ b.end = heap_end'
        BY <3>2
      <4> QED
        BY <4>1, <1>1, <1>2, <2>1, <2>4, <2>5
    <3> QED
      BY <2>3, <2>6, <3>1, <3>2
  <2>7. ASSUME NEW b \in blocks', NEW c \in blocks', b # c
        PROVE  b.end <= c.first \/ c.end <= b.first
    <3>1. CASE b \in blocks /\ c \in blocks
      BY <3>1, <2>7 DEF HeapInv, BlocksAreApart
    <3>2. ASSUME NEW d \in blocks PROVE d.end <= new.first
      BY <1>1, <1>2 DEF HeapInv, BlocksAreApart
    <3> QED
      BY <2>3, <2>7, <3>1, <3>2
  <2> QED
    BY <2>1, <2>2, <2>6, <2>7 DEF HeapInv, BlocksAreApart
<1>4. ASSUME NEW incr \in Increments, Shrink(incr) PROVE HeapInv'
  <2>1. heap_end' \in Nat /\ heap_end' <= HEAP_LIMIT
    BY <1>4, NewEndIs DEF Shrink
  <2>2. taken' \in Int /\ (taken' >= 0 => taken >= 0 /\ HEAP_START + taken' <= heap_end')
    BY <1>4, TakenIsBehind DEF Shrink
  <2>3. ASSUME NEW b \in blocks'
        PROVE  \E c \in blocks :
                  /\ c.first < heap_end'
                  /\ b = [first |-> c.first, end |-> IF c.end <= heap_end' THEN c.end ELSE heap_end']
    BY <1>4, <2>3 DEF Shrink, Below
  <2>4. ASSUME NEW b \in blocks'
        PROVE  /\ b.first \in Nat /\ b.end \in Nat /\ b.first % 4 = 0 /\ b.first < b.end
               /\ b.end <= HEAP_LIMIT /\ b.end <= heap_end'
               /\ taken' >= 0 => HEAP_START <= b.first
    <3>1. PICK c \in blocks :
              /\ c.first < heap_end'
              /\ b = [first |-> c.first, end |-> IF c.end <= heap_end' THEN c.end ELSE heap_end']
      BY <2>3
    <3>2. /\ c.first \in Nat /\ c.end \in Nat /\ c.first % 4 = 0 /\ c.first < c.end
          /\ c.end <= HEAP_LIMIT /\ (taken >= 0 => HEAP_START <= c.first)
      BY DEF HeapInv, BlocksAreApart
    <3>3. b.first = c.first /\ b.end = IF c.end <= heap_end' THEN c.end ELSE heap_end'
      BY <3>1
    <3>4. /\ b.first \in Nat /\ b.first % 4 = 0 /\ c.first < heap_end'
          /\ taken' >= 0 => HEAP_START <= b.first
      BY <2>2, <3>1, <3>2, <3>3
    <3>5. /\ b.end \in Nat /\ b.first < b.end /\ b.end <= HEAP_LIMIT /\ b.end <= heap_end'
      BY <1>1, <2>1, <3>2, <3>3, <3>4
    <3> QED
      BY <3>4, <3>5
  <2>5. ASSUME NEW b \in blocks', NEW c \in blocks', b # c
        PROVE  b.end <= c.first \/ c.end <= b.first
    <3>1. PICK d \in blocks :
              b = [first |-> d.first, end |-> IF d.end <= heap_end' THEN d.end ELSE heap_end']
      BY <2>3
    <3>2. PICK e \in blocks :
              c = [first |-> e.first, end |-> IF e.end <= heap_end' THEN e.end ELSE heap_end']
      BY <2>3
    <3>3. d.end <= e.first \/ e.end <= d.first
      BY <2>5, <3>1, <3>2 DEF HeapInv, BlocksAreApart
    <3>4. d.first \in Nat /\ d.end \in Nat /\ e.first \in Nat /\ e.end \in Nat
      BY DEF HeapInv
    <3>5. /\ b.first = d.first /\ b.end <= d.end /\ b.end \in Nat
          /\ c.first = e.first /\ c.end <= e.end /\ c.end \in Nat
      BY <2>1, <3>1, <3>2, <3>4
    <3> QED
      BY <3>3, <3>4, <3>5
  <2> QED
    BY <2>1, <2>2, <2>4, <2>5 DEF HeapInv, BlocksAreApart
<1>5. ASSUME NEW incr \in Increments, NoMemory(incr) PROVE HeapInv'
  <2>1. heap_end' = Aligned(heap_end) /\ blocks' = blocks /\ taken' = taken
    BY <1>5 DEF NoMemory
  <2>2. \A b \in blocks : b.end <= heap_end'
    BY <1>1, <1>2, <2>1 DEF HeapInv, BlocksAreApart
  <2>3. taken' >= 0 => HEAP_START + taken' <= heap_end'
    BY <1>1, <1>2, <2>1 DEF HeapInv
  <2> QED
    BY <1>1, <1>2, <2>1, <2>2, <2>3 DEF HeapInv, BlocksAreApart
<1>6. CASE UNCHANGED heapVars
  BY <1>6 DEF heapVars, HeapInv, BlocksAreApart
<1> QED
  BY <1>3, <1>4, <1>5, <1>6 DEF HeapNext

\* The blocks sbrk (alt_sbrk.c) has given begin at a word boundary, end within the
\* limit and do not overlap, for any heap and any sequence of increments, negative
\* ones below the start among them; and none lies below the start as long as the
\* program has not given back more than it took.
THEOREM HalBlocksAreApart == HalSpec => []BlocksAreApart
<1>1. HalInit => HeapInv
  BY HeapAssumption DEF HalInit, HeapInit, HeapInv, BlocksAreApart
<1>2. [HalNext]_halVars => [HeapNext]_heapVars
  BY DEF HalNext, halVars, heapVars
<1>3. HeapInv => BlocksAreApart
  BY DEF HeapInv
<1> QED
  BY <1>1, <1>2, <1>3, HeapInvStep, PTL DEF HalSpec
----------------------------------------------------------------------------
(***************************************************************************)
(* Rings: what taking an entry into the list or out of it does to the      *)
(* links.  "There is a way from c to a" is said with sets: a is in every   *)
(* set that holds c and, with an entry other than the head, the next one.  *)
(***************************************************************************)
Ring(nx, pv) ==
    /\ nx \in [Links -> Links] /\ pv \in [Links -> Links]
    /\ \A l \in Links : pv[nx[l]] = l /\ nx[pv[l]] = l
    /\ \A part \in SUBSET Links :
          List \in part /\ (\A l \in part : nx[l] \in part)
             => \A a \in Names \ part : nx[a] = a

Ahead(nx, c, a) ==
    \A part \in SUBSET Links :
        c \in part /\ (\A l \in part \ {List} : nx[l] \in part) => a \in part

\* The links after alt_llist_insert and alt_llist_remove.
InsertedNext(nx, e) == [nx EXCEPT ![e] = nx[List], ![List] = e]
InsertedPrevious(nx, pv, e) == [pv EXCEPT ![e] = List, ![nx[List]] = e]
RemovedNext(nx, pv, e) == [nx EXCEPT ![pv[e]] = nx[e], ![e] = e]
RemovedPrevious(nx, pv, e) == [pv EXCEPT ![nx[e]] = pv[e], ![e] = e]

LEMMA HeadIsNoAlarm == List \in Links /\ List \notin Names /\ Names \subseteq Links
  BY ListAssumption DEF Links

\* The entry after one that is in the list is in the list.
LEMMA NextIsIn ==
    ASSUME NEW nx, NEW pv, Ring(nx, pv), NEW l \in Links, nx[l] # l
    PROVE  nx[nx[l]] # nx[l]
  BY DEF Ring

LEMMA InsertKeepsRing ==
    ASSUME NEW nx, NEW pv, Ring(nx, pv), NEW e \in Names, nx[e] = e
    PROVE  /\ Ring(InsertedNext(nx, e), InsertedPrevious(nx, pv, e))
           /\ InsertedNext(nx, e)[e] # e
           /\ \A a \in Names \ {e} : InsertedNext(nx, e)[a] = nx[a]
           /\ \A c \in Links \ {e}, a \in Names :
                 Ahead(nx, c, a) => Ahead(InsertedNext(nx, e), c, a)
<1> DEFINE nx2 == InsertedNext(nx, e)
           pv2 == InsertedPrevious(nx, pv, e)
<1>0. /\ nx2 = [nx EXCEPT ![e] = nx[List], ![List] = e]
      /\ pv2 = [pv EXCEPT ![e] = List, ![nx[List]] = e]
  BY DEF InsertedNext, InsertedPrevious
<1> HIDE DEF nx2, pv2
<1>1. /\ nx \in [Links -> Links] /\ pv \in [Links -> Links]
      /\ \A l \in Links : pv[nx[l]] = l /\ nx[pv[l]] = l
  BY DEF Ring
<1>2. e \in Links /\ List \in Links /\ e # List /\ nx[List] \in Links /\ nx[List] # e
  BY <1>1, HeadIsNoAlarm
<1>3. /\ nx2 \in [Links -> Links]
      /\ nx2[e] = nx[List] /\ nx2[List] = e /\ \A l \in Links \ {e, List} : nx2[l] = nx[l]
  BY <1>0, <1>1, <1>2
<1>4. /\ pv2 \in [Links -> Links]
      /\ pv2[e] = List /\ pv2[nx[List]] = e /\ \A l \in Links \ {e, nx[List]} : pv2[l] = pv[l]
  BY <1>0, <1>1, <1>2
<1>5. \A l \in Links : pv2[nx2[l]] = l /\ nx2[pv2[l]] = l
  BY <1>1, <1>2, <1>3, <1>4
<1>6. ASSUME NEW part \in SUBSET Links, List \in part, \A l \in part : nx2[l] \in part,
             NEW a \in Names \ part
      PROVE  nx2[a] = a
  <2>1. \A l \in part : nx[l] \in part
    BY <1>2, <1>3, <1>6
  <2>2. nx[a] = a
    BY <1>6, <2>1 DEF Ring
  <2>3. a # e /\ a # List /\ a \in Links
    BY <1>2, <1>3, <1>6, HeadIsNoAlarm
  <2> QED
    BY <1>3, <2>2, <2>3
<1>7. ASSUME NEW c \in Links \ {e}, NEW a \in Names, Ahead(nx, c, a),
             NEW part \in SUBSET Links, c \in part, \A l \in part \ {List} : nx2[l] \in part
      PROVE  a \in part
  <2>1. \A l \in (part \ {e}) \ {List} : nx[l] \in part \ {e}
    BY <1>1, <1>2, <1>3, <1>7
  <2>2. c \in part \ {e} /\ part \ {e} \in SUBSET Links
    BY <1>7
  <2> QED
    BY <1>7, <2>1, <2>2 DEF Ahead
<1>8. \A a \in Names \ {e} : nx2[a] = nx[a]
  BY <1>3, HeadIsNoAlarm
<1>9. Ring(nx2, pv2)
  BY <1>3, <1>4, <1>5, <1>6 DEF Ring
<1> QED
  BY <1>2, <1>3, <1>7, <1>8, <1>9 DEF Ahead, nx2, pv2

LEMMA RemoveKeepsRing ==
    ASSUME NEW nx, NEW pv, Ring(nx, pv), NEW e \in Names
    PROVE  /\ Ring(RemovedNext(nx, pv, e), RemovedPrevious(nx, pv, e))
           /\ RemovedNext(nx, pv, e)[e] = e
           /\ \A a \in Names \ {e} : RemovedNext(nx, pv, e)[a] = a <=> nx[a] = a
           /\ \A c \in Links \ {e}, a \in Names \ {e} :
                 Ahead(nx, c, a) => Ahead(RemovedNext(nx, pv, e), c, a)
<1> DEFINE nx2 == RemovedNext(nx, pv, e)
           pv2 == RemovedPrevious(nx, pv, e)
<1>0. /\ nx2 = [nx EXCEPT ![pv[e]] = nx[e], ![e] = e]
      /\ pv2 = [pv EXCEPT ![nx[e]] = pv[e], ![e] = e]
  BY DEF RemovedNext, RemovedPrevious
<1> HIDE DEF nx2, pv2
<1>1. /\ nx \in [Links -> Links] /\ pv \in [Links -> Links]
      /\ \A l \in Links : pv[nx[l]] = l /\ nx[pv[l]] = l
  BY DEF Ring
<1>2. e \in Links /\ List \in Links /\ e # List /\ nx[e] \in Links /\ pv[e] \in Links
      /\ nx[pv[e]] = e /\ pv[nx[e]] = e
  BY <1>1, HeadIsNoAlarm
<1>3. /\ nx2 \in [Links -> Links] /\ nx2[e] = e /\ (pv[e] # e => nx2[pv[e]] = nx[e])
      /\ \A l \in Links \ {e, pv[e]} : nx2[l] = nx[l]
  BY <1>0, <1>1, <1>2
<1>4. /\ pv2 \in [Links -> Links] /\ pv2[e] = e /\ (nx[e] # e => pv2[nx[e]] = pv[e])
      /\ \A l \in Links \ {e, nx[e]} : pv2[l] = pv[l]
  BY <1>0, <1>1, <1>2
<1>5. \A l \in Links : pv2[nx2[l]] = l /\ nx2[pv2[l]] = l
  BY <1>1, <1>2, <1>3, <1>4
\* A set that is closed in the new list is closed in the old one when the
\* removed entry joins it or leaves it, as the entry before it is in it or not.
<1>6. ASSUME NEW part \in SUBSET Links, NEW stop \in SUBSET {List},
             \A l \in part \ stop : nx2[l] \in part
      PROVE  /\ pv[e] \in part \ stop =>
                   \A l \in (part \cup {e}) \ stop : nx[l] \in part \cup {e}
             /\ pv[e] \notin part \ stop =>
                   \A l \in (part \ {e}) \ stop : nx[l] \in part \ {e}
  <2>1. ASSUME pv[e] \in part \ stop, NEW l \in (part \cup {e}) \ stop
        PROVE  nx[l] \in part \cup {e}
    BY <1>1, <1>2, <1>3, <1>6, <2>1
  <2>2. ASSUME pv[e] \notin part \ stop, NEW l \in (part \ {e}) \ stop
        PROVE  nx[l] \in part \ {e}
    <3>1. l \in Links /\ l # e /\ l # pv[e]
      BY <2>2, <1>6
    <3>2. nx[l] = nx2[l] /\ nx[l] # e
      BY <3>1, <1>1, <1>2, <1>3
    <3> QED
      BY <2>2, <3>2, <1>6
  <2> QED
    BY <2>1, <2>2
<1>7. ASSUME NEW part \in SUBSET Links, List \in part, \A l \in part : nx2[l] \in part,
             NEW a \in Names \ part, a # e
      PROVE  nx2[a] = a
  <2>0. /\ {} \in SUBSET {List} /\ part \ {} = part
        /\ (part \cup {e}) \ {} = part \cup {e} /\ (part \ {e}) \ {} = part \ {e}
        /\ \A l \in part \ {} : nx2[l] \in part
    BY <1>7
  <2>1. CASE pv[e] \in part
    <3>0. pv[e] \in part \ {}
      BY <2>1
    <3>1. \A l \in part \cup {e} : nx[l] \in part \cup {e}
      BY <1>6, <2>0, <3>0
    <3>2. nx[a] = a
      <4>1. part \cup {e} \in SUBSET Links /\ List \in part \cup {e} /\ a \in Names \ (part \cup {e})
        BY <1>2, <1>7
      <4> QED
        BY <3>1, <4>1 DEF Ring
    <3> QED
      BY <1>3, <1>7, <2>1, <3>2, HeadIsNoAlarm
  <2>2. CASE pv[e] \notin part
    <3>0. pv[e] \notin part \ {}
      BY <2>2
    <3>1. \A l \in part \ {e} : nx[l] \in part \ {e}
      BY <1>6, <2>0, <3>0
    <3>2. nx[a] = a
      BY <1>2, <1>7, <3>1 DEF Ring
    <3>3. a # pv[e]
      BY <1>2, <1>7, <3>2
    <3> QED
      BY <1>3, <1>7, <3>2, <3>3, HeadIsNoAlarm
  <2> QED
    BY <2>1, <2>2
<1>8. ASSUME NEW a \in Names \ {e} PROVE nx2[a] = a <=> nx[a] = a
  <2>1. a \in Links
    BY HeadIsNoAlarm
  <2>2. CASE a # pv[e]
    BY <1>3, <1>8, <2>1, <2>2
  <2>3. CASE a = pv[e] /\ nx[e] # a
    BY <1>2, <1>3, <1>8, <2>1, <2>3
  <2>4. CASE a = pv[e] /\ nx[e] = a
    <3> DEFINE part == Links \ {a, e}
    <3>1. \A l \in part : nx[l] \in part
      BY <1>1, <1>2, <2>1, <2>4
    <3>2. List \in part
      BY HeadIsNoAlarm
    <3>3. nx[a] = a
      BY <3>1, <3>2, <1>8 DEF Ring
    <3> QED
      BY <3>3, <1>2, <1>8, <2>4
  <2> QED
    BY <2>2, <2>3, <2>4
<1>9. ASSUME NEW c \in Links \ {e}, NEW a \in Names \ {e}, Ahead(nx, c, a),
             NEW part \in SUBSET Links, c \in part, \A l \in part \ {List} : nx2[l] \in part
      PROVE  a \in part
  <2>1. CASE pv[e] \in part \ {List}
    <3>1. \A l \in (part \cup {e}) \ {List} : nx[l] \in part \cup {e}
      BY <1>6, <1>9, <2>1
    <3>2. a \in part \cup {e}
      <4>1. part \cup {e} \in SUBSET Links /\ c \in part \cup {e}
        BY <1>2, <1>9
      <4> QED
        BY <1>9, <3>1, <4>1 DEF Ahead
    <3> QED
      BY <3>2, <1>9
  <2>2. CASE pv[e] \notin part \ {List}
    <3>1. \A l \in (part \ {e}) \ {List} : nx[l] \in part \ {e}
      BY <1>6, <1>9, <2>2
    <3>2. c \in part \ {e} /\ part \ {e} \in SUBSET Links
      BY <1>9
    <3>3. a \in part \ {e}
      BY <1>9, <3>1, <3>2 DEF Ahead
    <3> QED
      BY <3>3
  <2> QED
    BY <2>1, <2>2
<1>10. Ring(nx2, pv2)
  BY <1>3, <1>4, <1>5, <1>7 DEF Ring
<1> QED
  BY <1>3, <1>8, <1>9, <1>10 DEF Ahead, nx2, pv2
----------------------------------------------------------------------------
(***************************************************************************)
(* The alarms.  While the tick walks the list every alarm that is due is   *)
(* still ahead of it, or is the one whose callback runs.                   *)
(***************************************************************************)
AlarmTypes ==
    /\ nticks \in Nat /\ time \in [Names -> Nat]
    /\ walk \in {"off", "loop", "callback"} /\ alarm \in Links /\ following \in Links

InList(l) == l = List \/ next[l] # l

InCallback ==
    walk = "callback" =>
        /\ alarm \in Names /\ following # alarm /\ InList(following)
        /\ Listed(alarm) => time[alarm] = nticks

NoneLate ==
    \A a \in Names :
        Listed(a) => time[a] >= nticks /\ (walk = "off" => time[a] > nticks)

DueAreAhead ==
    \A a \in Names :
        Listed(a) /\ time[a] = nticks =>
            /\ walk = "loop" => Ahead(next, alarm, a)
            /\ walk = "callback" => a = alarm \/ Ahead(next, following, a)

AlarmInv ==
    /\ AlarmTypes /\ Ring(next, previous)
    /\ InCallback /\ NoneLate /\ DueAreAhead
    /\ walk = "loop" => InList(alarm)

AlarmMoves ==
    \/ SysclkInit \/ Tick \/ AlarmWalk
    \/ /\ walk = "off"
       /\ \E a \in Names : \/ \E delay \in 0..MaxPeriod : alt_alarm_start(a, delay)
                           \/ alt_alarm_stop(a)

LEMMA AlarmInvInit == AlarmInit => AlarmInv
<1> SUFFICES ASSUME AlarmInit PROVE AlarmInv
  OBVIOUS
<1>1. Ring(next, previous)
  BY HeadIsNoAlarm DEF AlarmInit, Ring
<1>2. AlarmTypes
  BY HeadIsNoAlarm DEF AlarmInit, AlarmTypes
<1>3. \A a \in Names : ~Listed(a)
  BY HeadIsNoAlarm DEF AlarmInit, Listed
<1> QED
  BY <1>1, <1>2, <1>3 DEF AlarmInit, AlarmInv, InCallback, NoneLate, DueAreAhead

\* An alarm that is started is due later, and the walk need not meet it.
LEMMA StartKeepsAlarms ==
    ASSUME AlarmInv, NEW a \in Names, NEW delay \in Nat, alt_alarm_start(a, delay),
           walk = "callback" => a # alarm, walk # "loop"
    PROVE  AlarmInv'
<1>1. CASE tick_rate = 0
  <2>1. UNCHANGED <<next, previous, time, nticks, walk, alarm, following>>
    BY <1>1 DEF alt_alarm_start, listVars, walkVars
  <2> QED
    BY <2>1 DEF AlarmInv, AlarmTypes, Ring, InCallback, NoneLate, DueAreAhead, Listed, InList, Ahead
<1>2. CASE tick_rate # 0
  <2>1. /\ next' = [next EXCEPT ![a] = next[List], ![List] = a]
        /\ previous' = [previous EXCEPT ![a] = List, ![next[List]] = a]
        /\ next[a] = a
        /\ time' = [time EXCEPT ![a] = delay + nticks + 1]
        /\ nticks' = nticks /\ walk' = walk /\ alarm' = alarm /\ following' = following
    BY <1>2 DEF alt_alarm_start, alt_llist_insert, walkVars, Listed
  <2>2. /\ Ring(next', previous') /\ next'[a] # a
        /\ \A b \in Names \ {a} : next'[b] = next[b]
        /\ \A c \in Links \ {a}, b \in Names : Ahead(next, c, b) => Ahead(next', c, b)
    <3>1. Ring(next, previous) /\ next[a] = a
      BY <2>1 DEF AlarmInv
    <3>2. next' = InsertedNext(next, a) /\ previous' = InsertedPrevious(next, previous, a)
      BY <2>1 DEF InsertedNext, InsertedPrevious
    <3> QED
      BY <3>1, <3>2, InsertKeepsRing
  <2>3. /\ nticks \in Nat /\ time'[a] = delay + nticks + 1 /\ delay + nticks + 1 \in Nat
        /\ delay + nticks + 1 > nticks
        /\ \A b \in Names \ {a} : time'[b] = time[b]
    BY <2>1 DEF AlarmInv, AlarmTypes
  <2>4. AlarmTypes'
    BY <2>1, <2>3 DEF AlarmInv, AlarmTypes
  <2>5. walk = "callback" => following # a /\ following \in Links
    BY <2>1, HeadIsNoAlarm DEF AlarmInv, AlarmTypes, InCallback, InList
  <2>6. InCallback'
    BY <2>1, <2>2, <2>3, <2>5, HeadIsNoAlarm DEF AlarmInv, InCallback, InList, Listed, Links
  <2>7. NoneLate'
    <3> SUFFICES ASSUME NEW b \in Names, next'[b] # b
                 PROVE  time'[b] >= nticks /\ (walk = "off" => time'[b] > nticks)
      BY <2>1 DEF NoneLate, Listed
    <3>1. CASE b = a
      BY <3>1, <2>3
    <3>2. CASE b # a
      BY <3>2, <2>2, <2>3 DEF AlarmInv, NoneLate, Listed
    <3> QED
      BY <3>1, <3>2
  <2>8. DueAreAhead'
    <3> SUFFICES ASSUME NEW b \in Names, next'[b] # b, time'[b] = nticks,
                        walk = "callback", b # alarm
                 PROVE  Ahead(next', following, b)
      BY <2>1 DEF DueAreAhead, Listed, Ahead
    <3>1. b # a
      BY <2>3
    <3>2. Listed(b) /\ time[b] = nticks
      BY <2>2, <2>3, <3>1 DEF Listed
    <3>3. Ahead(next, following, b)
      BY <3>2 DEF AlarmInv, DueAreAhead
    <3> QED
      BY <2>2, <2>5, <3>3
  <2> QED
    BY <2>1, <2>2, <2>4, <2>6, <2>7, <2>8 DEF AlarmInv
<1> QED
  BY <1>1, <1>2

\* An alarm is taken out that is not the one the walk goes to next.
LEMMA RemovalKeepsAlarms ==
    ASSUME AlarmInv, NEW a \in Names, alt_llist_remove(a), walk # "loop",
           walk = "callback" => a # following
    PROVE  /\ Ring(next', previous') /\ next'[a] = a
           /\ \A b \in Names : next'[b] # b => Listed(b)
           /\ walk = "callback" => following \in Links \ {a} 
           /\ walk = "callback" => following = List \/ next'[following] # following
           /\ walk = "callback" => \A b \in Names \ {a} :
                 Ahead(next, following, b) => Ahead(next', following, b)
<1>1. next' = RemovedNext(next, previous, a) /\ previous' = RemovedPrevious(next, previous, a)
  BY DEF alt_llist_remove, RemovedNext, RemovedPrevious
<1>2. /\ Ring(next', previous') /\ next'[a] = a
      /\ \A b \in Names \ {a} : next'[b] = b <=> next[b] = b
      /\ \A c \in Links \ {a}, b \in Names \ {a} : Ahead(next, c, b) => Ahead(next', c, b)
  BY <1>1, RemoveKeepsRing DEF AlarmInv
<1>3. walk = "callback" =>
         /\ following \in Links \ {a} /\ (following = List \/ next[following] # following)
  BY DEF AlarmInv, AlarmTypes, InCallback, InList
<1> QED
  BY <1>2, <1>3 DEF Links, Listed

LEMMA StopKeepsAlarms ==
    ASSUME AlarmInv, NEW a \in Names, alt_alarm_stop(a), walk # "loop",
           walk = "callback" => a # following
    PROVE  AlarmInv'
<1>1. /\ time' = time /\ nticks' = nticks /\ walk' = walk /\ alarm' = alarm
      /\ following' = following
  BY DEF alt_alarm_stop, walkVars
<1>2. /\ Ring(next', previous') /\ next'[a] = a
      /\ \A b \in Names : next'[b] # b => Listed(b)
      /\ walk = "callback" => following = List \/ next'[following] # following
      /\ walk = "callback" => \A b \in Names \ {a} :
            Ahead(next, following, b) => Ahead(next', following, b)
  BY RemovalKeepsAlarms DEF alt_alarm_stop
<1>3. AlarmTypes' /\ InCallback' /\ NoneLate'
  BY <1>1, <1>2 DEF AlarmInv, AlarmTypes, InCallback, NoneLate, InList, Listed
<1>4. DueAreAhead'
  <2> SUFFICES ASSUME NEW b \in Names, next'[b] # b, time[b] = nticks,
                      walk = "callback", b # alarm
               PROVE  Ahead(next', following, b)
    BY <1>1 DEF DueAreAhead, Listed, Ahead
  <2>1. b # a /\ Listed(b)
    BY <1>2
  <2> QED
    BY <1>2, <2>1 DEF AlarmInv, DueAreAhead
<1> QED
  BY <1>1, <1>2, <1>3, <1>4 DEF AlarmInv

\* The tick begins its walk with the whole list ahead.
LEMMA TickKeepsAlarms ==
    ASSUME AlarmInv, Tick
    PROVE  AlarmInv'
<1>1. /\ walk = "off" /\ walk' = "loop" /\ nticks' = nticks + 1 /\ alarm' = next[List]
      /\ next' = next /\ previous' = previous /\ time' = time /\ following' = following
  BY DEF Tick, listVars
<1>2. next[List] \in Links /\ nticks \in Nat /\ List \in Links
  BY HeadIsNoAlarm DEF AlarmInv, AlarmTypes, Ring
<1>3. AlarmTypes'
  BY <1>1, <1>2 DEF AlarmInv, AlarmTypes
<1>4. NoneLate'
  <2> SUFFICES ASSUME NEW a \in Names, Listed(a) PROVE time[a] >= nticks + 1
    BY <1>1 DEF NoneLate, Listed
  <2>1. time[a] > nticks /\ time[a] \in Nat
    BY <1>1 DEF AlarmInv, AlarmTypes, NoneLate
  <2> QED
    BY <2>1, <1>2
<1>5. ASSUME NEW a \in Names, Listed(a) PROVE Ahead(next, next[List], a)
  <2> SUFFICES ASSUME NEW part \in SUBSET Links, next[List] \in part,
                      \A l \in part \ {List} : next[l] \in part
               PROVE  a \in part
    BY DEF Ahead
  <2>1. \A l \in part \cup {List} : next[l] \in part \cup {List}
    OBVIOUS
  <2>2. part \cup {List} \in SUBSET Links
    BY <1>2
  <2>3. a \in part \cup {List}
    BY <1>5, <2>1, <2>2 DEF AlarmInv, Ring, Listed
  <2> QED
    BY <2>3, HeadIsNoAlarm
<1>6. DueAreAhead'
  BY <1>1, <1>5 DEF DueAreAhead, Listed, Ahead
<1>7. InList(alarm)'
  BY <1>1, <1>2, NextIsIn DEF AlarmInv, InList
<1> QED
  BY <1>1, <1>3, <1>4, <1>6, <1>7 DEF AlarmInv, InCallback, Ring

\* What is due and ahead of an entry is ahead of the next one, or is the entry.
LEMMA AheadGoesOn ==
    ASSUME NEW nx, NEW c \in Names, NEW a \in Names \ {c}, Ahead(nx, c, a)
    PROVE  Ahead(nx, nx[c], a)
<1> SUFFICES ASSUME NEW part \in SUBSET Links, nx[c] \in part,
                    \A l \in part \ {List} : nx[l] \in part
             PROVE  a \in part
  BY DEF Ahead
<1>1. \A l \in (part \cup {c}) \ {List} : nx[l] \in part \cup {c}
  OBVIOUS
<1>2. part \cup {c} \in SUBSET Links
  BY HeadIsNoAlarm
<1>3. a \in part \cup {c}
  BY <1>1, <1>2 DEF Ahead
<1> QED
  BY <1>3

LEMMA VisitKeepsAlarms ==
    ASSUME AlarmInv, Visit
    PROVE  AlarmInv'
<1>1. /\ walk = "loop" /\ alarm \in Names /\ Listed(alarm) /\ next[alarm] \in Links
      /\ nticks \in Nat /\ time[alarm] \in Nat /\ time[alarm] >= nticks
  BY DEF Visit, AlarmInv, AlarmTypes, InList, Listed, Ring, NoneLate, Links
<1>2. /\ next' = next /\ previous' = previous /\ time' = time /\ nticks' = nticks
  BY DEF Visit, listVars
<1>3. InList(next[alarm]) /\ next[alarm] # alarm
  BY <1>1, NextIsIn, HeadIsNoAlarm DEF AlarmInv, InList, Listed
<1>4. CASE time[alarm] <= nticks
  <2>1. walk' = "callback" /\ following' = next[alarm] /\ alarm' = alarm
    BY <1>4 DEF Visit
  <2>2. time[alarm] = nticks
    BY <1>1, <1>4
  <2>3. AlarmTypes' /\ NoneLate' /\ InCallback'
    BY <1>1, <1>2, <1>3, <2>1, <2>2 DEF AlarmInv, AlarmTypes, NoneLate, InCallback, InList, Listed
  <2>4. DueAreAhead'
    BY <1>1, <1>2, <2>1, AheadGoesOn DEF AlarmInv, DueAreAhead, Listed, Ahead
  <2> QED
    BY <1>2, <2>1, <2>3, <2>4 DEF AlarmInv, Ring
<1>5. CASE ~(time[alarm] <= nticks)
  <2>1. walk' = walk /\ following' = following /\ alarm' = next[alarm]
    BY <1>5 DEF Visit
  <2>2. time[alarm] # nticks
    BY <1>1, <1>5
  <2>3. AlarmTypes' /\ NoneLate' /\ InCallback' /\ InList(alarm)'
    BY <1>1, <1>2, <1>3, <2>1 DEF AlarmInv, AlarmTypes, NoneLate, InCallback, InList, Listed
  <2>4. DueAreAhead'
    BY <1>1, <1>2, <2>1, <2>2, AheadGoesOn DEF AlarmInv, DueAreAhead, Listed, Ahead
  <2> QED
    BY <1>2, <2>1, <2>3, <2>4 DEF AlarmInv, Ring
<1> QED
  BY <1>4, <1>5

LEMMA ReturnKeepsAlarms ==
    ASSUME AlarmInv, NEW again \in Nat, CallbackReturns(again)
    PROVE  AlarmInv'
<1>1. /\ walk = "callback" /\ walk' = "loop" /\ alarm' = following /\ following' = List
      /\ nticks' = nticks
  BY DEF CallbackReturns
<1>2. /\ alarm \in Names /\ following # alarm /\ following \in Links /\ InList(following)
      /\ nticks \in Nat /\ List \in Links
  BY <1>1, HeadIsNoAlarm DEF AlarmInv, AlarmTypes, InCallback
<1>3. CASE again = 0
  <2>1. alt_llist_remove(alarm) /\ time' = time
    BY <1>3 DEF CallbackReturns
  <2>2. /\ Ring(next', previous') /\ next'[alarm] = alarm
        /\ \A b \in Names : next'[b] # b => Listed(b)
        /\ following = List \/ next'[following] # following
        /\ \A b \in Names \ {alarm} :
              Ahead(next, following, b) => Ahead(next', following, b)
    BY <1>1, <1>2, <2>1, RemovalKeepsAlarms
  <2>3. AlarmTypes' /\ NoneLate' /\ InCallback' /\ InList(alarm)'
    BY <1>1, <1>2, <2>1, <2>2
       DEF AlarmInv, AlarmTypes, NoneLate, InCallback, InList, Listed
  <2>4. DueAreAhead'
    BY <1>1, <2>1, <2>2 DEF AlarmInv, DueAreAhead, Listed
  <2> QED
    BY <1>1, <2>2, <2>3, <2>4 DEF AlarmInv
<1>4. CASE again # 0
  <2>1. /\ next' = next /\ previous' = previous
        /\ time' = [time EXCEPT ![alarm] = @ + again]
    BY <1>4 DEF CallbackReturns, listVars
  <2>2. /\ time'[alarm] = time[alarm] + again /\ time[alarm] \in Nat
        /\ \A b \in Names \ {alarm} : time'[b] = time[b]
    BY <1>2, <2>1 DEF AlarmInv, AlarmTypes
  <2>3. Listed(alarm) => time'[alarm] > nticks
    BY <1>1, <1>2, <1>4, <2>2 DEF AlarmInv, InCallback
  <2>4. AlarmTypes'
    BY <1>1, <1>2, <2>1 DEF AlarmInv, AlarmTypes
  <2>5. NoneLate'
    <3> SUFFICES ASSUME NEW b \in Names, Listed(b) PROVE time'[b] >= nticks
      BY <1>1, <2>1 DEF NoneLate, Listed
    <3>1. CASE b = alarm
      BY <3>1, <1>2, <2>2, <2>3
    <3>2. CASE b # alarm
      BY <3>2, <2>2 DEF AlarmInv, NoneLate
    <3> QED
      BY <3>1, <3>2
  <2>6. DueAreAhead'
    <3> SUFFICES ASSUME NEW b \in Names, Listed(b), time'[b] = nticks
                 PROVE  Ahead(next, following, b)
      BY <1>1, <2>1 DEF DueAreAhead, Listed, Ahead
    <3>1. b # alarm
      BY <1>2, <2>2, <2>3
    <3> QED
      BY <1>1, <2>2, <3>1 DEF AlarmInv, DueAreAhead
  <2>7. InCallback' /\ InList(alarm)'
    BY <1>1, <1>2, <2>1 DEF InCallback, InList
  <2> QED
    BY <1>1, <2>1, <2>4, <2>5, <2>6, <2>7 DEF AlarmInv, Ring
<1> QED
  BY <1>3, <1>4

\* At the head of the list nothing is ahead any more.
LEMMA EndKeepsAlarms ==
    ASSUME AlarmInv, WalkEnds
    PROVE  AlarmInv' /\ \A a \in Names : Listed(a) => time[a] > nticks
<1>1. /\ walk = "loop" /\ alarm = List /\ walk' = "off"
      /\ next' = next /\ previous' = previous /\ time' = time /\ nticks' = nticks
      /\ alarm' = alarm /\ following' = following
  BY DEF WalkEnds, listVars
<1>2. ASSUME NEW a \in Names, Listed(a) PROVE time[a] > nticks
  <2>1. ~Ahead(next, List, a)
    <3>1. {List} \in SUBSET Links /\ a \notin {List}
      BY HeadIsNoAlarm
    <3> QED
      BY <3>1 DEF Ahead
  <2>2. time[a] # nticks /\ time[a] >= nticks
    BY <1>1, <1>2, <2>1 DEF AlarmInv, DueAreAhead, NoneLate
  <2> QED
    BY <2>2 DEF AlarmInv, AlarmTypes
<1>3. AlarmTypes' /\ InCallback' /\ DueAreAhead'
  BY <1>1 DEF AlarmInv, AlarmTypes, InCallback, DueAreAhead
<1>4. NoneLate'
  BY <1>1, <1>2 DEF AlarmInv, NoneLate, Listed
<1> QED
  BY <1>1, <1>2, <1>3, <1>4 DEF AlarmInv, Ring

LEMMA DelaysAreNaturals == 0..MaxPeriod \subseteq Nat
  OBVIOUS

LEMMA AlarmInvStep == AlarmInv /\ (AlarmMoves \/ UNCHANGED alarmVars) => AlarmInv'
<1> SUFFICES ASSUME AlarmInv, AlarmMoves \/ UNCHANGED alarmVars PROVE AlarmInv'
  OBVIOUS
<1>1. CASE SysclkInit \/ UNCHANGED alarmVars
  <2>1. UNCHANGED <<next, previous, time, nticks, walk, alarm, following>>
    BY <1>1 DEF SysclkInit, alarmVars, listVars, walkVars
  <2> QED
    BY <2>1 DEF AlarmInv, AlarmTypes, Ring, InCallback, NoneLate, DueAreAhead, Listed, InList, Ahead
<1>2. CASE Tick
  BY <1>2, TickKeepsAlarms
<1>3. CASE Visit
  BY <1>3, VisitKeepsAlarms
<1>4. CASE CallbackCalls
  BY <1>4, StartKeepsAlarms, StopKeepsAlarms, DelaysAreNaturals DEF CallbackCalls
<1>5. ASSUME NEW again \in 0..MaxPeriod, CallbackReturns(again) PROVE AlarmInv'
  BY <1>5, ReturnKeepsAlarms, DelaysAreNaturals
<1>6. CASE WalkEnds
  BY <1>6, EndKeepsAlarms
<1>7. ASSUME walk = "off", NEW a \in Names, NEW delay \in 0..MaxPeriod, alt_alarm_start(a, delay)
      PROVE  AlarmInv'
  BY <1>7, StartKeepsAlarms, DelaysAreNaturals
<1>8. ASSUME walk = "off", NEW a \in Names, alt_alarm_stop(a)
      PROVE  AlarmInv'
  BY <1>8, StopKeepsAlarms
<1> QED
  BY <1>1, <1>2, <1>3, <1>4, <1>5, <1>6, <1>7, <1>8 DEF AlarmMoves, AlarmWalk
----------------------------------------------------------------------------
(***************************************************************************)
(* Interrupts.  A trap and the registration of a handler run with the      *)
(* interrupts off, so neither meets the other half done.                   *)
(***************************************************************************)
Idle == registering = <<"no">>
Step == registering[1]
Line == registering[2]

LineTypes ==
    /\ mie \subseteq Lines \cup {TIMER} /\ mip \subseteq Lines /\ handlers \subseteq Lines
    /\ \/ Idle
       \/ registering \in {"table", "mask", "restore"} \X Lines \X BOOLEAN

TrapInv ==
    /\ LineTypes
    /\ trap # "none" => ~irqs_on /\ Idle
    /\ ~Idle => ~irqs_on
    /\ walk # "off" => trap = "timer" /\ timer = "off"
    /\ TIMER \in mie \/ timer # "off" => tick_rate # 0
    /\ TIMER \in mie /\ timer # "off" => trap = "timer"

LinesInv ==
    /\ \A l \in mie \ {TIMER} : l \in handlers \/ (Step = "mask" /\ Line = l)
    /\ Step = "mask" /\ registering[3] => Line \in handlers
    /\ trap = "lines" => active \subseteq mie \cap Lines

LEMMA TimerIsNoLine == TIMER \notin Lines
  BY ClockAssumption DEF TIMER

LEMMA IdleStep == Idle => Step = "no"
  BY DEF Idle, Step

LEMMA BusyStep == LineTypes /\ ~Idle => Step \in {"table", "mask", "restore"} /\ Line \in Lines
  BY DEF LineTypes, Step, Line

LEMMA TrapInvInit == ClockInit => TrapInv /\ LinesInv
  BY DEF ClockInit, AlarmInit, TrapInv, LineTypes, LinesInv, Idle, Step

\* Of the steps of the clock those of the list's code move the alarms.
LEMMA ClockMovesAlarms ==
    TrapInv /\ [ClockNext]_clockVars => AlarmMoves \/ UNCHANGED alarmVars
<1> SUFFICES ASSUME TrapInv, [ClockNext]_clockVars PROVE AlarmMoves \/ UNCHANGED alarmVars
  OBVIOUS
<1>1. CASE StartClock
  BY <1>1 DEF StartClock, AlarmMoves
<1>2. CASE ProgramAlarms
  BY <1>2 DEF ProgramAlarms, ProgramRuns, TrapInv, AlarmMoves
<1>3. CASE CountTick \/ WalkAlarms
  BY <1>3 DEF CountTick, WalkAlarms, AlarmMoves
<1>4. CASE UNCHANGED alarmVars
  BY <1>4
<1> QED
  BY <1>1, <1>2, <1>3, <1>4
     DEF ClockNext, Program, Trap, Environment, Register, RegisterHandler, RegisterMask,
         RegisterDone, EnableTimer, AccessTimer, TakeTimer, TakeLines, ServeLine, TrapReturns,
         TimePasses, Raise, clockVars

LEMMA RegisteringKeepsTrapInv ==
    ASSUME TrapInv, LinesInv,
           \/ \E l \in Lines, isr \in BOOLEAN : Register(l, isr)
           \/ RegisterHandler \/ RegisterMask \/ RegisterDone
    PROVE  TrapInv' /\ LinesInv'
<1>0. LineTypes /\ UNCHANGED <<alarmVars, timer, mip, trap, active>>
  BY DEF TrapInv, Register, RegisterHandler, RegisterMask, RegisterDone, timerVars, trapVars
<1>1. UNCHANGED <<tick_rate, walk>>
  BY <1>0 DEF alarmVars, walkVars
<1>2. ASSUME NEW l \in Lines, NEW isr \in BOOLEAN, Register(l, isr)
      PROVE  TrapInv' /\ LinesInv'
  <2>1. /\ trap = "none" /\ Idle /\ irqs_on' = FALSE /\ mie' = mie /\ handlers' = handlers
        /\ registering' = <<"table", l, isr>> /\ timer = "off"
    BY <1>2 DEF Register, ProgramRuns, Idle
  <2>2. registering' \in {"table", "mask", "restore"} \X Lines \X BOOLEAN /\ Step' = "table"
    BY <1>2, <2>1 DEF Step
  <2>3. LineTypes'
    BY <1>0, <2>1, <2>2 DEF LineTypes
  <2>4. LinesInv'
    BY <1>0, <2>1, <2>2, IdleStep DEF LinesInv
  <2> QED
    BY <1>0, <1>1, <2>1, <2>3, <2>4 DEF TrapInv
<1>3. CASE RegisterHandler
  <2>1. /\ trap = "none" /\ Step = "table" /\ ~Idle /\ UNCHANGED <<mie, irqs_on>>
        /\ handlers' = IF registering[3] THEN handlers \cup {Line} ELSE handlers \ {Line}
        /\ registering' = [registering EXCEPT ![1] = "mask"]
    BY <1>3, IdleStep DEF RegisterHandler, At, Step, Line, trapVars
  <2>2. /\ registering \in {"table", "mask", "restore"} \X Lines \X BOOLEAN /\ Line \in Lines
    BY <1>0, <2>1, BusyStep DEF LineTypes
  <2>3. /\ registering' \in {"table", "mask", "restore"} \X Lines \X BOOLEAN
        /\ Step' = "mask" /\ Line' = Line /\ registering'[3] = registering[3]
    BY <2>1, <2>2 DEF Step, Line
  <2>4. LineTypes'
    BY <1>0, <2>1, <2>2, <2>3 DEF LineTypes
  <2>5. LinesInv'
    BY <1>0, <2>1, <2>2, <2>3 DEF LinesInv
  <2>6. ~irqs_on
    BY <2>1 DEF TrapInv
  <2> QED
    BY <1>0, <1>1, <2>1, <2>4, <2>5, <2>6 DEF TrapInv
<1>4. CASE RegisterMask
  <2>1. /\ trap = "none" /\ Step = "mask" /\ ~Idle /\ UNCHANGED <<handlers, irqs_on>>
        /\ mie' = IF registering[3] THEN mie \cup {Line} ELSE mie \ {Line}
        /\ registering' = [registering EXCEPT ![1] = "restore"]
    BY <1>4, IdleStep DEF RegisterMask, At, Step, Line
  <2>2. /\ registering \in {"table", "mask", "restore"} \X Lines \X BOOLEAN /\ Line \in Lines
    BY <1>0, <2>1, BusyStep DEF LineTypes
  <2>3. /\ registering' \in {"table", "mask", "restore"} \X Lines \X BOOLEAN
        /\ Step' = "restore"
    BY <2>1, <2>2 DEF Step
  <2>4. LineTypes'
    BY <1>0, <2>1, <2>2, <2>3 DEF LineTypes
  <2>5. LinesInv'
    BY <1>0, <2>1, <2>2, <2>3 DEF LinesInv
  <2>6. ~irqs_on /\ (TIMER \in mie' => TIMER \in mie)
    BY <2>1, <2>2, TimerIsNoLine DEF TrapInv
  <2> QED
    BY <1>0, <1>1, <2>1, <2>4, <2>5, <2>6 DEF TrapInv
<1>5. CASE RegisterDone
  <2>1. /\ trap = "none" /\ Step = "restore" /\ UNCHANGED <<handlers, mie>> /\ Idle'
    BY <1>5 DEF RegisterDone, At, Step, Idle
  <2>2. LineTypes' /\ Step' = "no"
    BY <1>0, <2>1 DEF LineTypes, Idle, Step
  <2>3. LinesInv'
    BY <1>0, <2>1, <2>2 DEF LinesInv
  <2> QED
    BY <1>0, <1>1, <2>1, <2>2, <2>3 DEF TrapInv
<1> QED
  BY <1>2, <1>3, <1>4, <1>5

\* The steps of a trap, of the timer and of the environment leave the handlers
\* and their registration alone.
LEMMA TrapsKeepTrapInv ==
    ASSUME TrapInv, LinesInv,
           \/ StartClock \/ EnableTimer \/ ProgramAlarms \/ AccessTimer \/ Trap \/ Environment
           \/ UNCHANGED clockVars
    PROVE  TrapInv' /\ LinesInv'
<1>1. UNCHANGED <<handlers, registering>>
  BY DEF StartClock, EnableTimer, ProgramAlarms, AccessTimer, Trap, TakeTimer, CountTick, WalkAlarms,
         TakeLines, ServeLine, TrapReturns, Environment, TimePasses, Raise, clockVars, lineVars
<1>2. (Idle' <=> Idle) /\ Step' = Step /\ Line' = Line /\ LineTypes
  BY <1>1 DEF Idle, Step, Line, TrapInv
<1>3. CASE StartClock
  <2>1. /\ trap = "none" /\ Idle /\ timer = "off" /\ tick_rate = 0 /\ walk' = walk
        /\ UNCHANGED <<mie, mip, trap, active, irqs_on>> /\ tick_rate' # 0
    BY <1>3, ListAssumption DEF StartClock, ProgramRuns, SysclkInit, walkVars, lineVars, trapVars, Idle
  <2>2. TIMER \notin mie
    BY <2>1 DEF TrapInv
  <2> QED
    BY <1>1, <1>2, <2>1, <2>2 DEF TrapInv, LinesInv, LineTypes
<1>4. CASE EnableTimer
  <2>1. /\ trap = "none" /\ timer # "off" /\ timer' = "off" /\ mie' = mie \cup {TIMER}
        /\ UNCHANGED <<mip, trap, active, irqs_on, walk, tick_rate>>
    BY <1>4 DEF EnableTimer, TimerDone, TimerRuns, alarmVars, walkVars, lineVars
  <2> QED
    BY <1>1, <1>2, <1>4, <2>1 DEF TrapInv, LinesInv, LineTypes
<1>5. CASE ProgramAlarms
  <2>1. UNCHANGED <<mie, mip, trap, active, irqs_on, walk, tick_rate, timer>>
    BY <1>5 DEF ProgramAlarms, timerVars, lineVars, trapVars, alt_alarm_start, alt_alarm_stop, walkVars
  <2> QED
    BY <1>1, <1>2, <2>1 DEF TrapInv, LinesInv, LineTypes
<1>6. CASE AccessTimer
  <2>1. /\ UNCHANGED <<mie, mip, trap, active, irqs_on, walk, tick_rate>>
        /\ TIMER \in mie => trap = "timer"
        /\ timer # "off"
    BY <1>6 DEF AccessTimer, alarmVars, walkVars, lineVars, trapVars, TimerRuns,
                ReadHigh, ReadLow, ReadAgain, SetNever, SetLow, SetHigh
  <2> QED
    BY <1>1, <1>2, <2>1 DEF TrapInv, LinesInv, LineTypes
<1>7. CASE Trap
  <2>1. CASE TakeTimer
    <3>1. /\ irqs_on /\ trap = "none" /\ irqs_on' = FALSE /\ trap' = "timer" /\ timer' = "high"
          /\ TIMER \in mie
          /\ UNCHANGED <<mie, mip, active, walk, tick_rate>>
      BY <2>1 DEF TakeTimer, alarmVars, walkVars, lineVars
    <3> QED
      BY <1>1, <1>2, <3>1 DEF TrapInv, LinesInv, LineTypes
  <2>2. CASE CountTick
    <3>1. /\ trap = "timer" /\ timer' = "off"
          /\ UNCHANGED <<mie, mip, active, irqs_on, trap, tick_rate>>
      BY <2>2 DEF CountTick, Tick, TimerDone, lineVars, trapVars
    <3> QED
      BY <1>1, <1>2, <3>1 DEF TrapInv, LinesInv, LineTypes
  <2>3. CASE WalkAlarms
    <3>1. /\ trap = "timer" /\ timer = "off"
          /\ UNCHANGED <<mie, mip, active, irqs_on, trap, timer>>
          /\ tick_rate' = tick_rate
      BY <2>3 DEF WalkAlarms, timerVars, lineVars, trapVars, AlarmWalk, Visit, CallbackCalls,
                  CallbackReturns, WalkEnds, alt_alarm_start, alt_alarm_stop
    <3> QED
      BY <1>1, <1>2, <3>1 DEF TrapInv, LinesInv, LineTypes
  <2>4. CASE TakeLines
    <3>1. /\ irqs_on /\ trap = "none" /\ irqs_on' = FALSE /\ trap' = "lines"
          /\ active' = mip \cap mie
          /\ UNCHANGED <<mie, mip, walk, tick_rate, timer>>
      BY <2>4 DEF TakeLines, LinesPending, alarmVars, walkVars, lineVars, timerVars
    <3>2. Idle /\ (TIMER \in mie => timer = "off") /\ walk = "off"
      BY <3>1 DEF TrapInv
    <3> QED
      BY <1>1, <1>2, <3>1, <3>2 DEF TrapInv, LinesInv, LineTypes
  <2>5. CASE ServeLine
    <3>1. /\ trap = "lines" /\ mip' \subseteq mip /\ active' = mip' \cap mie
          /\ UNCHANGED <<mie, trap, irqs_on, walk, tick_rate, timer>>
      BY <2>5 DEF ServeLine, alarmVars, walkVars, timerVars
    <3> QED
      BY <1>1, <1>2, <3>1 DEF TrapInv, LinesInv, LineTypes
  <2>6. CASE TrapReturns
    <3>1. /\ trap # "none" /\ irqs_on' = TRUE /\ trap' = "none" /\ walk = "off" /\ walk' = walk
          /\ TIMER \in mie => timer = "off"
          /\ UNCHANGED <<mie, mip, active, tick_rate, timer>>
      BY <2>6 DEF TrapReturns, TrapInv, alarmVars, walkVars, lineVars, timerVars
    <3> QED
      BY <1>1, <1>2, <3>1 DEF TrapInv, LinesInv, LineTypes
  <2> QED
    BY <1>7, <2>1, <2>2, <2>3, <2>4, <2>5, <2>6 DEF Trap
<1>8. CASE Environment
  <2>1. /\ UNCHANGED <<mie, trap, active, irqs_on, walk, tick_rate, timer>>
        /\ mip' \subseteq Lines
    BY <1>2, <1>8 DEF Environment, TimePasses, Raise, alarmVars, walkVars, lineVars, trapVars,
                      timerVars, LineTypes
  <2> QED
    BY <1>1, <1>2, <2>1 DEF TrapInv, LinesInv, LineTypes
<1>9. CASE UNCHANGED clockVars
  <2>1. UNCHANGED <<mie, mip, trap, active, irqs_on, walk, tick_rate, timer>>
    BY <1>9 DEF clockVars, alarmVars, walkVars, lineVars, trapVars, timerVars
  <2> QED
    BY <1>1, <1>2, <2>1 DEF TrapInv, LinesInv, LineTypes
<1> QED
  BY <1>3, <1>4, <1>5, <1>6, <1>7, <1>8, <1>9
----------------------------------------------------------------------------
(***************************************************************************)
(* What these invariants give.                                             *)
(***************************************************************************)
ClockInv == TrapInv /\ LinesInv /\ AlarmInv

LEMMA ClockInvStep == ClockInv /\ [ClockNext]_clockVars => ClockInv'
<1> SUFFICES ASSUME ClockInv, [ClockNext]_clockVars PROVE ClockInv'
  OBVIOUS
<1>1. TrapInv /\ LinesInv /\ AlarmInv
  BY DEF ClockInv
<1>2. AlarmInv'
  BY <1>1, ClockMovesAlarms, AlarmInvStep
<1>3. TrapInv' /\ LinesInv'
  BY <1>1, RegisteringKeepsTrapInv, TrapsKeepTrapInv DEF ClockNext, Program
<1> QED
  BY <1>2, <1>3 DEF ClockInv

LEMMA HalStepsClock == [HalNext]_halVars => [ClockNext]_clockVars
  BY DEF HalNext, halVars, clockVars

LEMMA ClockInvHolds == HalSpec => []ClockInv
<1>1. HalInit => ClockInv
  BY TrapInvInit, AlarmInvInit DEF HalInit, ClockInit, ClockInv
<1> QED
  BY <1>1, HalStepsClock, ClockInvStep, PTL DEF HalSpec

\* alt_irq_handler finds a handler for every line it serves, for any lines and
\* whatever alt_iic_isr_register is doing to the table and the mask.
THEOREM HalServedByHandlers == HalSpec => []ServedByHandlers
<1>1. ClockInv => ServedByHandlers
  <2> SUFFICES ASSUME TrapInv, LinesInv, trap = "lines", NEW l \in active PROVE l \in handlers
    BY DEF ClockInv, ServedByHandlers
  <2>1. l \in mie \ {TIMER} /\ Step = "no"
    BY TimerIsNoLine, IdleStep DEF TrapInv, LinesInv
  <2> QED
    BY <2>1 DEF LinesInv
<1> QED
  BY <1>1, ClockInvHolds, PTL

\* The links of the alarms make one ring, for any number of alarms and however
\* the program, the tick and the callbacks start and stop them.
THEOREM HalListIsOneRing == HalSpec => []ListIsOneRing
<1>1. ClockInv => ListIsOneRing
  BY DEF ClockInv, AlarmInv, Ring, ListIsOneRing, Listed
<1> QED
  BY <1>1, ClockInvHolds, PTL
----------------------------------------------------------------------------
(***************************************************************************)
(* The walk of the list implements the promise of Alarms: due is the tick  *)
(* of every listed alarm, and only the calls of the program and of the     *)
(* callbacks, and the tick, change it.                                     *)
(***************************************************************************)
Due == [a \in Names |-> IF Listed(a) THEN time[a] ELSE 0]

LEMMA DueStays ==
    ASSUME UNCHANGED <<next, time>> PROVE Due' = Due
  BY DEF Due, Listed

LEMMA StartIsPromised ==
    ASSUME AlarmInv, NEW a \in Names, NEW delay \in 0..MaxPeriod, alt_alarm_start(a, delay)
    PROVE  [Promise!Next]_<<nticks, Due>>
<1>1. ~Listed(a) /\ nticks' = nticks
  BY DEF alt_alarm_start
<1>2. CASE tick_rate = 0
  BY <1>1, <1>2, DueStays DEF alt_alarm_start, listVars
<1>3. CASE tick_rate # 0
  <2>1. /\ next' = InsertedNext(next, a) /\ time' = [time EXCEPT ![a] = delay + nticks + 1]
    BY <1>3 DEF alt_alarm_start, alt_llist_insert, InsertedNext
  <2>2. next'[a] # a /\ \A b \in Names \ {a} : next'[b] = next[b]
    BY <1>1, <2>1, InsertKeepsRing DEF AlarmInv, Listed
  <2>3. /\ time'[a] = nticks + delay + 1 /\ \A b \in Names \ {a} : time'[b] = time[b]
    BY <2>1, DelaysAreNaturals DEF AlarmInv, AlarmTypes
  <2>4. Due' = [Due EXCEPT ![a] = nticks + delay + 1]
    BY <2>2, <2>3 DEF Due, Listed
  <2>5. Due[a] = 0
    BY <1>1 DEF Due
  <2>6. Promise!Start(a, delay)
    BY <1>1, <2>4, <2>5 DEF Promise!Start, Promise!Off, Due
  <2> QED
    BY <2>6 DEF Promise!Next
<1> QED
  BY <1>2, <1>3

LEMMA RemovalIsPromised ==
    ASSUME AlarmInv, NEW a \in Names, alt_llist_remove(a), UNCHANGED <<time, nticks>>
    PROVE  [Promise!Next]_<<nticks, Due>>
<1>1. next' = RemovedNext(next, previous, a)
  BY DEF alt_llist_remove, RemovedNext
<1>2. next'[a] = a /\ \A b \in Names \ {a} : next'[b] = b <=> next[b] = b
  BY <1>1, RemoveKeepsRing DEF AlarmInv
<1>3. Due' = [Due EXCEPT ![a] = 0]
  BY <1>2 DEF Due, Listed
<1>4. Promise!Stop(a)
  BY <1>3 DEF Promise!Stop, Promise!Off, Due
<1> QED
  BY <1>4 DEF Promise!Next

LEMMA ReturnIsPromised ==
    ASSUME AlarmInv, NEW again \in 0..MaxPeriod, CallbackReturns(again)
    PROVE  [Promise!Next]_<<nticks, Due>>
<1>1. alarm \in Names /\ nticks' = nticks /\ (Listed(alarm) => time[alarm] = nticks)
  BY DEF CallbackReturns, AlarmInv, InCallback
<1>2. CASE again = 0
  BY <1>1, <1>2, RemovalIsPromised DEF CallbackReturns
<1>3. CASE again # 0
  <2>1. next' = next /\ time' = [time EXCEPT ![alarm] = @ + again]
    BY <1>3 DEF CallbackReturns, listVars
  <2>2. /\ time'[alarm] = time[alarm] + again
        /\ \A b \in Names \ {alarm} : time'[b] = time[b]
    BY <1>1, <2>1 DEF AlarmInv, AlarmTypes
  <2>3. CASE Listed(alarm)
    <3>1. Due' = [Due EXCEPT ![alarm] = nticks + again] /\ Due[alarm] = nticks
      BY <1>1, <2>1, <2>2, <2>3 DEF Due, Listed
    <3>2. again \in 1..MaxPeriod
      BY <1>3, ListAssumption
    <3>3. PICK a \in Names : a = alarm
      BY <1>1
    <3>4. Promise!Call(a)
      BY <1>1, <3>1, <3>2, <3>3 DEF Promise!Call, Due
    <3> QED
      BY <3>4 DEF Promise!Next
  <2>4. CASE ~Listed(alarm)
    <3>1. Due' = Due
      BY <2>1, <2>2, <2>4 DEF Due, Listed
    <3> QED
      BY <1>1, <3>1
  <2> QED
    BY <2>3, <2>4
<1> QED
  BY <1>2, <1>3

LEMMA AlarmsStepAsPromised ==
    AlarmInv /\ (AlarmMoves \/ UNCHANGED alarmVars) => [Promise!Next]_<<nticks, Due>>
<1> SUFFICES ASSUME AlarmInv, AlarmMoves \/ UNCHANGED alarmVars
             PROVE  [Promise!Next]_<<nticks, Due>>
  OBVIOUS
<1>1. CASE SysclkInit \/ Visit \/ WalkEnds \/ UNCHANGED alarmVars
  <2>1. UNCHANGED <<next, time, nticks>>
    BY <1>1 DEF SysclkInit, Visit, WalkEnds, alarmVars, listVars
  <2> QED
    BY <2>1, DueStays
<1>2. CASE Tick
  <2>1. walk = "off" /\ nticks' = nticks + 1 /\ UNCHANGED <<next, time>>
    BY <1>2 DEF Tick, listVars
  <2>2. \A a \in Names : Due[a] # 0 => Due[a] > nticks
    BY <2>1 DEF AlarmInv, NoneLate, Due
  <2>3. Promise!Tick
    BY <2>1, <2>2, DueStays DEF Promise!Tick, Promise!Off, Due
  <2> QED
    BY <2>3 DEF Promise!Next
<1>3. ASSUME NEW a \in Names, NEW delay \in 0..MaxPeriod, alt_alarm_start(a, delay)
      PROVE  [Promise!Next]_<<nticks, Due>>
  BY <1>3, StartIsPromised
<1>4. ASSUME NEW a \in Names, alt_alarm_stop(a)
      PROVE  [Promise!Next]_<<nticks, Due>>
  BY <1>4, RemovalIsPromised DEF alt_alarm_stop
<1>5. ASSUME NEW again \in 0..MaxPeriod, CallbackReturns(again)
      PROVE  [Promise!Next]_<<nticks, Due>>
  BY <1>5, ReturnIsPromised
<1> QED
  BY <1>1, <1>2, <1>3, <1>4, <1>5 DEF AlarmMoves, AlarmWalk, CallbackCalls

\* An alarm is called in the tick it is due, once, before the next tick, for any
\* alarms and delays: the detailed list implements Alarms.
THEOREM HalAlarmsOnTime == HalSpec => AlarmsOnTime
<1>1. HalInit => Promise!Init
  <2> SUFFICES ASSUME AlarmInit PROVE Promise!Init
    BY DEF HalInit, ClockInit
  <2>1. nticks = 0 /\ \A a \in Names : ~Listed(a)
    BY HeadIsNoAlarm DEF AlarmInit, Listed
  <2> QED
    BY <2>1 DEF Promise!Init, Promise!Off
<1>2. ClockInv /\ [HalNext]_halVars => [Promise!Next]_<<nticks, Due>>
  BY HalStepsClock, ClockMovesAlarms, AlarmsStepAsPromised DEF ClockInv
<1> QED
  BY <1>1, <1>2, ClockInvHolds, PTL DEF HalSpec, AlarmsOnTime, Promise!Spec, Due
----------------------------------------------------------------------------
(***************************************************************************)
(* The time.  From the first read of a word on, asked is a count that is   *)
(* past and all that is read belongs to the counts since, or is discarded; *)
(* and no tick is counted before its DELTA counts are over.                *)
(***************************************************************************)
compare == mtimecmp.high * WORD + mtimecmp.low

TimeTypes ==
    /\ {mtime, highbits, lowbits, asked, nticks} \subseteq Nat
    /\ mtimecmp \in [high : Nat, low : Nat]
    /\ asked <= mtime

InTime(t) == asked <= t /\ t <= mtime

Reading ==
    /\ timer \in {"low", "again"} => highbits = asked \div WORD
    /\ timer = "again" /\ mtime \div WORD = highbits => InTime(curr_time)
    /\ timer \in {"never", "setLow", "setHigh", "set"} => InTime(curr_time)
    /\ timer = "setHigh" => mtimecmp.low = (curr_time + DELTA) % WORD
    /\ timer = "set" => compare = curr_time + DELTA

InTick(t) == nticks * DELTA + DELTA <= t

Ticking ==
    /\ nticks * DELTA <= mtime
    /\ TIMER \notin mie => nticks = 0
    /\ TIMER \in mie /\ timer = "off" => InTick(compare) /\ compare <= mtime + DELTA
    /\ TIMER \in mie /\ timer = "high" => InTick(mtime)
    /\ TIMER \in mie /\ timer \notin {"off", "high"} => InTick(asked)

TimeInv == TimeTypes /\ Reading /\ Ticking

LEMMA Words ==
    ASSUME NEW a \in Nat, NEW w \in Nat \ {0}
    PROVE  a \div w \in Nat /\ a % w \in Nat /\ a % w < w /\ a = (a \div w) * w + (a % w)
  OBVIOUS

LEMMA HighWordsGrow ==
    ASSUME NEW a \in Nat, NEW b \in Nat, NEW w \in Nat \ {0}, a <= b
    PROVE  a \div w <= b \div w
<1>1. a \div w \in Nat /\ a % w \in Nat /\ a = (a \div w) * w + (a % w)
  BY Words
<1>2. b \div w \in Nat /\ b % w \in Nat /\ b % w < w /\ b = (b \div w) * w + (b % w)
  BY Words
<1>3. \A p, q, r, s \in Nat : q * w + s < p * w + r \/ p <= q \/ s >= w
  OBVIOUS
<1> QED
  BY <1>1, <1>2, <1>3

LEMMA Counts ==
    ASSUME NEW p \in Nat, NEW w \in Nat
    PROVE  (p + 1) * w = p * w + w /\ p * w \in Nat
  OBVIOUS

LEMMA Sizes == WORD \in Nat \ {0} /\ DELTA \in Nat \ {0}
  BY ClockAssumption

LEMMA TimesAreNaturals ==
    TimeTypes => curr_time \in Nat /\ compare \in Nat /\ nticks * DELTA \in Nat
<1> SUFFICES ASSUME TimeTypes PROVE curr_time \in Nat /\ compare \in Nat /\ nticks * DELTA \in Nat
  OBVIOUS
<1>1. highbits * WORD \in Nat /\ mtimecmp.high * WORD \in Nat /\ nticks * DELTA \in Nat
  BY Counts, Sizes DEF TimeTypes
<1> QED
  BY <1>1 DEF TimeTypes, curr_time, compare

\* A step that leaves the counter, the timer and the count of ticks alone.
LEMMA TimeStays ==
    ASSUME TimeInv, UNCHANGED <<timerVars, nticks>>, TIMER \in mie' <=> TIMER \in mie
    PROVE  TimeInv'
<1>1. /\ mtime' = mtime /\ mtimecmp' = mtimecmp /\ highbits' = highbits /\ lowbits' = lowbits
      /\ asked' = asked /\ timer' = timer /\ nticks' = nticks
  BY DEF timerVars
<1>2. compare' = compare /\ curr_time' = curr_time
  BY <1>1 DEF compare, curr_time
<1>3. TimeTypes'
  BY <1>1 DEF TimeInv, TimeTypes
<1>4. Reading'
  BY <1>1, <1>2 DEF TimeInv, Reading, InTime
<1>5. Ticking'
  BY <1>1, <1>2 DEF TimeInv, Ticking, InTick
<1> QED
  BY <1>3, <1>4, <1>5 DEF TimeInv

LEMMA PassingKeepsTime ==
    ASSUME TimeInv, TimePasses
    PROVE  TimeInv'
<1>1. /\ mtime' = mtime + 1 /\ mtimecmp' = mtimecmp /\ highbits' = highbits
      /\ lowbits' = lowbits /\ asked' = asked /\ timer' = timer /\ nticks' = nticks
      /\ mie' = mie
  BY DEF TimePasses, alarmVars, trapVars
<1>2. compare' = compare /\ curr_time' = curr_time
  BY <1>1 DEF compare, curr_time
<1>3. /\ mtime \in Nat /\ asked \in Nat /\ asked <= mtime /\ curr_time \in Nat
      /\ compare \in Nat /\ nticks * DELTA \in Nat /\ DELTA \in Nat
  BY TimesAreNaturals, Sizes DEF TimeInv, TimeTypes
<1>4. TimeTypes'
  BY <1>1, <1>3 DEF TimeInv, TimeTypes
<1>5. asked \div WORD <= mtime \div WORD /\ mtime \div WORD <= (mtime + 1) \div WORD
  BY <1>3, HighWordsGrow, Sizes
<1>6. timer = "again" /\ (mtime + 1) \div WORD = highbits => mtime \div WORD = highbits
  <2>1. asked \div WORD \in Nat /\ mtime \div WORD \in Nat /\ (mtime + 1) \div WORD \in Nat
    BY <1>3, Words, Sizes
  <2> QED
    BY <2>1, <1>5 DEF TimeInv, Reading
<1>7. \A t \in Nat : InTime(t) => asked <= t /\ t <= mtime + 1
  BY <1>3 DEF InTime
<1>8. Reading'
  BY <1>1, <1>2, <1>3, <1>6, <1>7 DEF TimeInv, Reading, InTime
<1>9. Ticking'
  <2>1. /\ nticks * DELTA <= mtime + 1
        /\ compare <= mtime + DELTA => compare <= mtime + 1 + DELTA
        /\ InTick(mtime) => nticks * DELTA + DELTA <= mtime + 1
    BY <1>3 DEF TimeInv, Ticking, InTick
  <2> QED
    BY <1>1, <1>2, <2>1 DEF TimeInv, Ticking, InTick
<1> QED
  BY <1>4, <1>8, <1>9 DEF TimeInv

LEMMA ReadingKeepsTime ==
    ASSUME TimeInv, ReadHigh \/ ReadLow \/ ReadAgain, mie' = mie, nticks' = nticks
    PROVE  TimeInv'
<1>0. /\ mtime \in Nat /\ asked \in Nat /\ asked <= mtime /\ curr_time \in Nat
      /\ highbits \in Nat /\ lowbits \in Nat /\ WORD \in Nat \ {0}
      /\ nticks * DELTA + DELTA \in Nat
  BY TimesAreNaturals, Sizes DEF TimeInv, TimeTypes
<1>1. /\ mtime \div WORD \in Nat /\ mtime % WORD \in Nat
      /\ mtime = (mtime \div WORD) * WORD + (mtime % WORD)
  BY <1>0, Words
<1>2. mtime' = mtime /\ mtimecmp' = mtimecmp /\ compare' = compare
  BY DEF ReadHigh, ReadLow, ReadAgain, compare
<1>3. CASE ReadHigh
  <2>1. /\ timer = "high" /\ timer' = "low" /\ highbits' = mtime \div WORD /\ asked' = mtime
        /\ lowbits' = lowbits
    BY <1>3 DEF ReadHigh, TimerRuns
  <2>2. TimeTypes' /\ Reading'
    BY <1>0, <1>1, <1>2, <2>1 DEF TimeInv, TimeTypes, Reading
  <2>3. Ticking'
    BY <1>2, <2>1 DEF TimeInv, Ticking, InTick
  <2> QED
    BY <2>2, <2>3 DEF TimeInv
<1>4. CASE ReadLow
  <2>1. /\ timer = "low" /\ timer' = "again" /\ lowbits' = mtime % WORD
        /\ highbits' = highbits /\ asked' = asked
    BY <1>4 DEF ReadLow, TimerRuns
  <2>2. mtime \div WORD = highbits => curr_time' = mtime
    BY <1>1, <2>1 DEF curr_time
  <2>3. TimeTypes'
    BY <1>0, <1>1, <1>2, <2>1 DEF TimeInv, TimeTypes
  <2>4. Reading'
    BY <1>0, <1>2, <2>1, <2>2 DEF TimeInv, Reading, InTime
  <2>5. Ticking'
    BY <1>2, <2>1 DEF TimeInv, Ticking, InTick
  <2> QED
    BY <2>3, <2>4, <2>5 DEF TimeInv
<1>5. CASE ReadAgain
  <2>1. /\ timer = "again" /\ timer' \in {"high", "never"}
        /\ timer' = "never" => mtime \div WORD = highbits
        /\ lowbits' = lowbits /\ highbits' = highbits /\ asked' = asked
    BY <1>5 DEF ReadAgain, TimerRuns
  <2>2. curr_time' = curr_time
    BY <2>1 DEF curr_time
  <2>3. TimeTypes'
    BY <1>2, <2>1 DEF TimeInv, TimeTypes
  <2>4. Reading'
    BY <1>2, <2>1, <2>2 DEF TimeInv, Reading, InTime
  <2>5. InTick(asked) => InTick(mtime)
    BY <1>0 DEF InTick
  <2>6. Ticking'
    BY <1>2, <2>1, <2>5 DEF TimeInv, Ticking, InTick
  <2> QED
    BY <2>3, <2>4, <2>6 DEF TimeInv
<1> QED
  BY <1>3, <1>4, <1>5

LEMMA SettingKeepsTime ==
    ASSUME TimeInv, SetNever \/ SetLow \/ SetHigh, mie' = mie, nticks' = nticks
    PROVE  TimeInv'
<1>0. /\ curr_time + DELTA \in Nat /\ WORD \in Nat \ {0} /\ WORD - 1 \in Nat
  BY TimesAreNaturals, Sizes DEF TimeInv
<1>1. /\ (curr_time + DELTA) \div WORD \in Nat /\ (curr_time + DELTA) % WORD \in Nat
      /\ curr_time + DELTA =
            ((curr_time + DELTA) \div WORD) * WORD + ((curr_time + DELTA) % WORD)
  BY <1>0, Words
<1>2. /\ mtime' = mtime /\ highbits' = highbits /\ lowbits' = lowbits /\ asked' = asked
      /\ timer \in {"never", "setLow", "setHigh"} /\ timer' \in {"setLow", "setHigh", "set"}
      /\ mtimecmp \in [high : Nat, low : Nat]
  BY DEF SetNever, SetLow, SetHigh, TimerRuns, TimeInv, TimeTypes
<1>3. curr_time' = curr_time
  BY <1>2 DEF curr_time
<1>4. Ticking'
  BY <1>2 DEF TimeInv, Ticking, InTick
<1>5. InTime(curr_time)'
  BY <1>2, <1>3 DEF TimeInv, Reading, InTime
<1>6. CASE SetNever
  <2>1. timer' = "setLow" /\ mtimecmp' \in [high : Nat, low : Nat]
    BY <1>0, <1>2, <1>6 DEF SetNever
  <2> QED
    BY <1>2, <1>4, <1>5, <2>1 DEF TimeInv, TimeTypes, Reading
<1>7. CASE SetLow
  <2>1. /\ timer' = "setHigh" /\ mtimecmp' \in [high : Nat, low : Nat]
        /\ mtimecmp'.low = (curr_time + DELTA) % WORD
    BY <1>1, <1>2, <1>7 DEF SetLow
  <2> QED
    BY <1>2, <1>3, <1>4, <1>5, <2>1 DEF TimeInv, TimeTypes, Reading
<1>8. CASE SetHigh
  <2>1. /\ timer = "setHigh" /\ timer' = "set" /\ mtimecmp' \in [high : Nat, low : Nat]
        /\ mtimecmp'.high = (curr_time + DELTA) \div WORD /\ mtimecmp'.low = mtimecmp.low
    BY <1>1, <1>2, <1>8 DEF SetHigh, TimerRuns
  <2>2. compare' = curr_time + DELTA
    BY <1>1, <2>1 DEF TimeInv, Reading, compare
  <2> QED
    BY <1>2, <1>3, <1>4, <1>5, <2>1, <2>2 DEF TimeInv, TimeTypes, Reading
<1> QED
  BY <1>6, <1>7, <1>8

\* The routine begins only when a tick is over, or when none is counted yet.
LEMMA BeginningKeepsTime ==
    ASSUME TimeInv, TrapInv, StartClock \/ TakeTimer
    PROVE  TimeInv'
<1>1. /\ mtime' = mtime /\ mtimecmp' = mtimecmp /\ highbits' = highbits /\ lowbits' = lowbits
      /\ asked' = asked /\ mie' = mie /\ nticks' = nticks /\ timer' = "high"
  BY DEF StartClock, TakeTimer, SysclkInit, alarmVars, trapVars
<1>2. TimeTypes' /\ Reading'
  BY <1>1 DEF TimeInv, TimeTypes, Reading
<1>3. TIMER \in mie => InTick(mtime)
  <2>1. CASE StartClock
    BY <2>1 DEF StartClock, SysclkInit, TrapInv
  <2>2. CASE TakeTimer
    <3>1. TIMER \in mie /\ timer = "off" /\ mtime >= compare
      BY <2>2 DEF TakeTimer, TimerPending, TrapInv, compare
    <3>2. nticks * DELTA + DELTA <= compare
      BY <3>1 DEF TimeInv, Ticking, InTick
    <3>3. nticks * DELTA + DELTA \in Nat /\ compare \in Nat /\ mtime \in Nat
      BY TimesAreNaturals, Sizes DEF TimeInv, TimeTypes
    <3> QED
      BY <3>1, <3>2, <3>3 DEF InTick
  <2> QED
    BY <2>1, <2>2
<1>4. Ticking'
  BY <1>1, <1>3 DEF TimeInv, Ticking, InTick
<1> QED
  BY <1>2, <1>4 DEF TimeInv

\* It ends with the compare register a tick after a count it was running in.
LEMMA EndingKeepsTime ==
    ASSUME TimeInv, EnableTimer \/ CountTick
    PROVE  TimeInv'
<1>1. /\ mtime' = mtime /\ mtimecmp' = mtimecmp /\ highbits' = 0 /\ lowbits' = 0 /\ asked' = 0
      /\ timer = "set" /\ timer' = "off"
  BY DEF EnableTimer, CountTick, TimerDone, TimerRuns
<1>2. compare' = compare
  BY <1>1 DEF compare
<1>3. /\ compare = curr_time + DELTA /\ asked <= curr_time /\ curr_time <= mtime
      /\ TIMER \in mie => nticks * DELTA + DELTA <= asked
  BY <1>1 DEF TimeInv, Reading, InTime, Ticking, InTick
<1>4. /\ nticks \in Nat /\ mtime \in Nat /\ asked \in Nat /\ curr_time \in Nat
      /\ nticks * DELTA \in Nat /\ DELTA \in Nat
  BY TimesAreNaturals, Sizes DEF TimeInv, TimeTypes
<1>5. Reading'
  BY <1>1 DEF Reading
<1>6. CASE EnableTimer
  <2>1. TIMER \notin mie /\ nticks' = nticks /\ TIMER \in mie'
    BY <1>6 DEF EnableTimer, TimerRuns, alarmVars
  <2>2. nticks = 0 /\ nticks * DELTA <= mtime
    BY <2>1 DEF TimeInv, Ticking
  <2>3. nticks * DELTA + DELTA <= compare /\ compare <= mtime + DELTA
    <3>1. nticks * DELTA = 0
      BY <2>2, <1>4
    <3> QED
      BY <3>1, <1>3, <1>4
  <2>4. TimeTypes'
    BY <1>1, <2>1 DEF TimeInv, TimeTypes
  <2> QED
    BY <1>1, <1>2, <1>5, <2>1, <2>2, <2>3, <2>4 DEF TimeInv, Ticking, InTick
<1>7. CASE CountTick
  <2>1. TIMER \in mie /\ nticks' = nticks + 1 /\ mie' = mie
    BY <1>7 DEF CountTick, Tick, TimerRuns, trapVars
  <2>2. nticks' * DELTA = nticks * DELTA + DELTA
    BY <2>1, <1>4, Counts
  <2>3. /\ nticks * DELTA + DELTA <= mtime /\ nticks * DELTA + DELTA + DELTA <= compare
        /\ compare <= mtime + DELTA
    BY <2>1, <1>3, <1>4
  <2>4. TimeTypes'
    BY <1>1, <1>4, <2>1 DEF TimeInv, TimeTypes
  <2> QED
    BY <1>1, <1>2, <1>5, <2>1, <2>2, <2>3, <2>4 DEF TimeInv, Ticking, InTick
<1> QED
  BY <1>6, <1>7

LEMMA TimeInvStep == TimeInv /\ TrapInv /\ [ClockNext]_clockVars => TimeInv'
<1> SUFFICES ASSUME TimeInv, TrapInv, [ClockNext]_clockVars PROVE TimeInv'
  OBVIOUS
<1>1. CASE AccessTimer
  <2>1. mie' = mie /\ nticks' = nticks
    BY <1>1 DEF AccessTimer, alarmVars, trapVars
  <2> QED
    BY <1>1, <2>1, ReadingKeepsTime, SettingKeepsTime DEF AccessTimer
<1>2. CASE TimePasses
  BY <1>2, PassingKeepsTime
<1>3. CASE StartClock \/ TakeTimer
  BY <1>3, BeginningKeepsTime
<1>4. CASE EnableTimer \/ CountTick
  BY <1>4, EndingKeepsTime
<1>5. CASE RegisterMask
  <2>1. /\ UNCHANGED <<timerVars, nticks>> /\ registering[1] = "mask"
        /\ mie' = IF registering[3] THEN mie \cup {Line} ELSE mie \ {Line}
    BY <1>5 DEF RegisterMask, At, Line, alarmVars
  <2>2. Line \in Lines
    BY <2>1, IdleStep, BusyStep DEF TrapInv, Step
  <2> QED
    BY <2>1, <2>2, TimerIsNoLine, TimeStays
<1>6. ASSUME UNCHANGED <<timerVars, nticks, mie>> PROVE TimeInv'
  BY <1>6, TimeStays
<1>7. CASE \/ \E l \in Lines, isr \in BOOLEAN : Register(l, isr)
           \/ RegisterHandler \/ RegisterDone \/ ProgramAlarms \/ UNCHANGED clockVars
           \/ TakeLines \/ ServeLine \/ TrapReturns \/ \E l \in Lines : Raise(l)
  <2>1. UNCHANGED <<timerVars, nticks, mie>>
    BY <1>7 DEF Register, RegisterHandler, RegisterDone, ProgramAlarms, alt_alarm_start,
                alt_alarm_stop, TakeLines, ServeLine, TrapReturns, Raise, clockVars, alarmVars, trapVars
  <2> QED
    BY <2>1, <1>6
<1>8. CASE WalkAlarms
  <2>1. UNCHANGED <<timerVars, nticks, mie>>
    BY <1>8 DEF WalkAlarms, AlarmWalk, Visit, CallbackCalls, CallbackReturns, WalkEnds,
                alt_alarm_start, alt_alarm_stop, trapVars
  <2> QED
    BY <2>1, <1>6
<1> QED
  BY <1>1, <1>2, <1>3, <1>4, <1>5, <1>7, <1>8 DEF ClockNext, Program, Trap, Environment

\* The time the timer's routine takes is a time the counter showed while it was
\* read, no tick comes early, and the next one is at most a tick away: for any
\* size of a word and of a tick, wherever the count is when its words are read.
THEOREM HalClockKeepsTime == HalSpec => []ClockKeepsTime
<1>1. HalInit => TimeInv
  <2> SUFFICES ASSUME ClockInit PROVE TimeInv
    BY DEF HalInit
  <2>1. /\ mtime = 0 /\ mtimecmp = [high |-> 0, low |-> 0] /\ highbits = 0 /\ lowbits = 0
        /\ asked = 0 /\ timer = "off" /\ mie = {} /\ nticks = 0
    BY DEF ClockInit, AlarmInit
  <2>2. nticks * DELTA <= mtime
    BY <2>1, Sizes
  <2> QED
    BY <2>1, <2>2 DEF TimeInv, TimeTypes, Reading, Ticking
<1>2. ClockInv /\ TimeInv /\ [HalNext]_halVars => TimeInv'
  BY HalStepsClock, TimeInvStep DEF ClockInv
<1>3. TimeInv => ClockKeepsTime
  <2> SUFFICES ASSUME TimeInv PROVE ClockKeepsTime
    OBVIOUS
  <2>1. curr_time \in Nat /\ asked \in Nat /\ mtime \in Nat
    BY TimesAreNaturals DEF TimeInv, TimeTypes
  <2>2. timer \in {"never", "setLow", "setHigh", "set"} => curr_time \in asked..mtime
    BY <2>1 DEF TimeInv, Reading, InTime
  <2> QED
    BY <2>2 DEF ClockKeepsTime, TimeInv, Ticking, compare
<1> QED
  BY <1>1, <1>2, <1>3, ClockInvHolds, PTL DEF HalSpec
=============================================================================
