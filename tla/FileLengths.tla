---------------------------- MODULE FileLengths ----------------------------
(* What a user is promised about the lengths of files: the length of a    *)
(* file changes only through a descriptor that is open on it, and then it *)
(* grows or is cut to nothing.  Closing the file, forgetting its inode,   *)
(* a clean shutdown and the next boot leave it alone.                     *)
EXTENDS Naturals

CONSTANTS
  File,         \* the files of the disk image; files are never created or removed
  Desc,         \* file descriptors, of all processes
  NoFile,       \* the file of a descriptor that is not open
  MaxFileSize   \* the bound of a length

VARIABLES
  len,          \* the length of every file
  on            \* the file each descriptor is open on

vars == <<len, on>>

Init ==
  /\ len = [f \in File |-> 0]
  /\ on = [d \in Desc |-> NoFile]

Open(d, f) ==
  /\ on[d] = NoFile
  /\ on' = [on EXCEPT ![d] = f]
  /\ UNCHANGED len

Cut(d) ==
  /\ on[d] # NoFile
  /\ len' = [len EXCEPT ![on[d]] = 0]
  /\ UNCHANGED on

Grow(d, n) ==
  /\ on[d] # NoFile
  /\ n > len[on[d]]
  /\ len' = [len EXCEPT ![on[d]] = n]
  /\ UNCHANGED on

Close(d) ==
  /\ on[d] # NoFile
  /\ on' = [on EXCEPT ![d] = NoFile]
  /\ UNCHANGED len

Next ==
  \E d \in Desc :
    \/ \E f \in File : Open(d, f)
    \/ Cut(d)
    \/ \E n \in 1..MaxFileSize : Grow(d, n)
    \/ Close(d)

Spec == Init /\ [][Next]_vars

=============================================================================
