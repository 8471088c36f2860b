---------------------------- MODULE DeviceFiles ----------------------------
(***************************************************************************)
(* The file descriptors of the HAL: alt_open.c, alt_close.c, alt_ioctl.c,  *)
(* alt_fcntl.c and their helpers, with the start-up of alt_main.c that     *)
(* registers the devices and redirects the standard descriptors.  There is *)
(* one thread and no interrupt routine comes here, so a call is one step.  *)
(* The program uses only descriptors it was given and has not closed.      *)
(***************************************************************************)
EXTENDS Naturals

CONSTANTS
    ALT_MAX_FD,   \* descriptors in the table, 32 in the code
    DEV_NULL,     \* the device that is there from the start
    JTAG_UART,    \* the device of ALT_STDIN, ALT_STDOUT and ALT_STDERR
    NoDevice      \* the dev of a free descriptor

ASSUME FilesAssumption ==
    /\ ALT_MAX_FD \in Nat /\ ALT_MAX_FD > 3
    /\ DEV_NULL # JTAG_UART /\ NoDevice \notin {DEV_NULL, JTAG_UART}

Devices == {DEV_NULL, JTAG_UART}
Descriptors == 0..ALT_MAX_FD - 1
Standard == 0..2
AccessModes == {"O_RDONLY", "O_WRONLY", "O_RDWR"}

VARIABLES
    alt_dev_list,   \* the registered devices
    alt_fd_list,    \* the descriptors
    max_fd,         \* alt_max_fd + 1: descriptors 0..max_fd-1 have been used
    stage,          \* where alt_main is
    held            \* history: what open gave the program and it did not close

fileVars == <<alt_dev_list, alt_fd_list, max_fd, stage, held>>

\* fd_flags and dev; ALT_FD_DEV, ALT_FD_EXCL and O_NONBLOCK are flags of it.
Entry(dev, flag_dev, access, nonblock) ==
    [dev |-> dev, DEV |-> flag_dev, EXCL |-> FALSE, access |-> access, NONBLOCK |-> nonblock]
FreeEntry == Entry(NoDevice, FALSE, "O_RDONLY", FALSE)

FilesInit ==
    /\ alt_dev_list = {DEV_NULL}
    /\ alt_fd_list = [i \in Descriptors |->
                        IF i \in Standard THEN Entry(DEV_NULL, FALSE, "O_RDONLY", FALSE)
                        ELSE FreeEntry]
    /\ max_fd = 0
    /\ stage = "sys_init"
    /\ held = {}
----------------------------------------------------------------------------
Used(i) == alt_fd_list[i].dev # NoDevice
Free == {i \in Descriptors : ~Used(i)}

\* A faulty variant of Mark: the mark is the last descriptor, not the highest.
Mark_Last(i) == i + 1

\* alt_get_fd takes the first free descriptor and keeps the high water mark.
FirstFree == CHOOSE i \in Free : \A j \in Free : i <= j
Mark(i) == IF i >= max_fd THEN i + 1 ELSE max_fd

\* alt_release_fd: the standard descriptors are never given back.
Release(list, i) == IF i \in Standard THEN list ELSE [list EXCEPT ![i] = FreeEntry]

\* A faulty variant of Locked: the loop stops before the highest descriptor.
Locked_OneShort(list, mark, i) ==
    \E j \in Descriptors : /\ j + 1 < mark /\ j # i
                           /\ list[j].dev = list[i].dev /\ list[j].EXCL

\* alt_file_locked: another descriptor of the device holds its lock.
Locked(list, mark, i) ==
    \E j \in Descriptors : /\ j < mark /\ j # i
                           /\ list[j].dev = list[i].dev /\ list[j].EXCL

\* The table after alt_open has put the device into its entry.
WithEntry(dev, access, nonblock) ==
    [alt_fd_list EXCEPT ![FirstFree] = Entry(dev, TRUE, access, nonblock)]

Openable(dev) == dev \in alt_dev_list /\ Free # {}
Refused(dev, access, nonblock) ==
    Locked(WithEntry(dev, access, nonblock), Mark(FirstFree), FirstFree)

\* A faulty variant of OpenFails: a refusal leaves the descriptor taken.
OpenFails_Keeps(dev, access, nonblock) ==
    /\ Openable(dev) /\ Refused(dev, access, nonblock)
    /\ alt_fd_list' = WithEntry(dev, access, nonblock)
    /\ max_fd' = Mark(FirstFree)
    /\ UNCHANGED <<alt_dev_list, stage, held>>

\* alt_open fails: the device is locked, and the descriptor is given back.
\* (Without such a device or a free descriptor nothing happens at all.)
OpenFails(dev, access, nonblock) ==
    /\ Openable(dev) /\ Refused(dev, access, nonblock)
    /\ alt_fd_list' = Release(WithEntry(dev, access, nonblock), FirstFree)
    /\ max_fd' = Mark(FirstFree)
    /\ UNCHANGED <<alt_dev_list, stage, held>>

OpenSucceeds(dev, access, nonblock) ==
    /\ Openable(dev) /\ ~Refused(dev, access, nonblock)
    /\ alt_fd_list' = WithEntry(dev, access, nonblock)
    /\ max_fd' = Mark(FirstFree)
    /\ held' = held \cup {FirstFree}
    /\ UNCHANGED <<alt_dev_list, stage>>
----------------------------------------------------------------------------
(***************************************************************************)
(* alt_main: the devices, the standard descriptors, the program, its end.  *)
(***************************************************************************)
\* The drivers of alt_sys_init register their devices with alt_dev_reg.
SysInit ==
    /\ stage = "sys_init"
    /\ alt_dev_list' = alt_dev_list \cup {JTAG_UART}
    /\ stage' = "stdout"
    /\ UNCHANGED <<alt_fd_list, max_fd, held>>

\* alt_open_fd: open, copy the entry to the standard descriptor, release.
Redirect(i, access) ==
    /\ Openable(JTAG_UART) /\ ~Refused(JTAG_UART, access, FALSE)
    /\ alt_fd_list' =
          LET opened == WithEntry(JTAG_UART, access, FALSE)
          IN  Release([opened EXCEPT ![i] = opened[FirstFree]], FirstFree)
    /\ max_fd' = Mark(FirstFree)
    /\ UNCHANGED <<alt_dev_list, held>>

IoRedirect ==
    \/ stage = "stdout" /\ Redirect(1, "O_WRONLY") /\ stage' = "stdin"
    \/ stage = "stdin" /\ Redirect(0, "O_RDONLY") /\ stage' = "stderr"
    \/ stage = "stderr" /\ Redirect(2, "O_WRONLY") /\ stage' = "main"

\* close(STDOUT_FILENO) waits for the output and releases nothing; then exit.
MainReturns ==
    /\ stage = "main" /\ stage' = "exit"
    /\ alt_fd_list' = Release(alt_fd_list, 1)
    /\ UNCHANGED <<alt_dev_list, max_fd, held>>
----------------------------------------------------------------------------
(***************************************************************************)
(* The program's calls.                                                    *)
(***************************************************************************)
\* Whatever the driver's close returns, the descriptor is released.
Close(i) ==
    /\ alt_fd_list' = Release(alt_fd_list, i)
    /\ held' = held \ {i}
    /\ UNCHANGED <<alt_dev_list, max_fd, stage>>

\* ioctl TIOCEXCL: alt_fd_lock looks at all but the highest descriptor used.
Lock(i) ==
    /\ alt_fd_list[i].DEV
    /\ \A j \in Descriptors :
          j + 1 < max_fd /\ j # i => alt_fd_list[j].dev # alt_fd_list[i].dev
    /\ alt_fd_list' = [alt_fd_list EXCEPT ![i].EXCL = TRUE]
    /\ UNCHANGED <<alt_dev_list, max_fd, stage, held>>

\* ioctl TIOCNXCL
Unlock(i) ==
    /\ alt_fd_list[i].DEV
    /\ alt_fd_list' = [alt_fd_list EXCEPT ![i].EXCL = FALSE]
    /\ UNCHANGED <<alt_dev_list, max_fd, stage, held>>

\* fcntl F_SETFL changes O_NONBLOCK (and O_APPEND, which no device looks at).
SetFlags(i, nonblock) ==
    /\ alt_fd_list' = [alt_fd_list EXCEPT ![i].NONBLOCK = nonblock]
    /\ UNCHANGED <<alt_dev_list, max_fd, stage, held>>

FileCalls ==
    /\ stage = "main"
    /\ \/ \E dev \in Devices, access \in AccessModes, nonblock \in BOOLEAN :
             OpenFails(dev, access, nonblock) \/ OpenSucceeds(dev, access, nonblock)
       \/ \E i \in held \cup Standard :
             \/ Close(i) \/ Lock(i) \/ Unlock(i)
             \/ \E nonblock \in BOOLEAN : SetFlags(i, nonblock)

FilesNext == SysInit \/ IoRedirect \/ MainReturns \/ FileCalls
----------------------------------------------------------------------------
Entries == [dev : Devices \cup {NoDevice}, DEV : BOOLEAN, EXCL : BOOLEAN,
            access : AccessModes, NONBLOCK : BOOLEAN]

FilesTypeOK ==
    /\ alt_dev_list \subseteq Devices /\ alt_fd_list \in [Descriptors -> Entries]
    /\ max_fd \in 0..ALT_MAX_FD
    /\ stage \in {"sys_init", "stdout", "stdin", "stderr", "main", "exit"}
    /\ held \subseteq Descriptors \ Standard

\* The table and the program agree on what is open: no failed open, redirection
\* or close leaves a descriptor taken that nobody can close, or frees one in use.
NoDescriptorLost == \A i \in Descriptors \ Standard : Used(i) <=> i \in held

\* Two descriptors never hold the lock of one device, although alt_fd_lock does
\* not look at the highest descriptor.
OneLockHolder ==
    \A i, j \in Descriptors :
        Used(i) /\ alt_fd_list[i].dev = alt_fd_list[j].dev
          /\ alt_fd_list[i].EXCL /\ alt_fd_list[j].EXCL => i = j

\* While a descriptor holds the lock, no other one comes to name its device.
LockKeepsOthersOut ==
    [][\A i, j \in Descriptors :
          i # j /\ alt_fd_list[i].EXCL /\ alt_fd_list'[i].EXCL
            /\ alt_fd_list'[j].dev = alt_fd_list'[i].dev
              => alt_fd_list[j].dev = alt_fd_list'[j].dev]_fileVars
============================================================================
