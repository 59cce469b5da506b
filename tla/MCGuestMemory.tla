---------------------------- MODULE MCGuestMemory ----------------------------
EXTENDS GuestMemory, TLC

\* Threads and address spaces are interchangeable.
Symmetry == Permutations(Thread) \cup Permutations(Mm)

\* Two processes, which may have threads, and calls that fail; with room for two of
\* three areas and copies by system calls, or with room for all.
Failing   == {"clone_thread", "clone_process", "mmap fails", "clone fails"}
Isolation == {[usage |-> 2, calls |-> Failing \cup {"copies"}], [usage |-> 3, calls |-> Failing]}

\* One process, which may have two threads, that changes protections and is started
\* again.
Alone     == {[usage |-> 2, calls |-> {"change_region_prot", "exec_proc", "clone_thread", "mmap fails"}]}

\* Two processes that only run, and those with a system call that copies.
Guests    == Isolation \cup Alone
Plain     == {[usage |-> 3, calls |-> {"clone_thread", "clone_process", "copies"}]}
=============================================================================
