------------------------------ MODULE FileCopy ------------------------------
(***************************************************************************)
(* What a transfer promises of the output file, whatever the lanes do: it  *)
(* is emptied before the first chunk is written, no chunk is written over, *)
(* and the receiver reports success only if every chunk has been written.  *)
(* Transfer implements it.                                                 *)
(***************************************************************************)
CONSTANTS Chunks,  \* the chunks of the file
          Data     \* what a chunk's bytes may be

VARIABLES keep,    \* FALSE with --sink: there is no output file
          file,    \* the output file; "stale" before, "hole" after truncation
          verdict  \* the exit status of the receiver

fvars == <<keep, file, verdict>>

Complete == \A c \in Chunks : file[c] \in Data

Init ==
    /\ keep \in BOOLEAN
    /\ file = [c \in Chunks |-> "stale"]
    /\ verdict = "running"

\* Open and truncate, which may happen again as long as nothing is written.
Empty ==
    /\ keep
    /\ \A c \in Chunks : file[c] \in {"stale", "hole"}
    /\ file' = [c \in Chunks |-> "hole"]
    /\ UNCHANGED <<keep, verdict>>

\* A write that fails may leave a torn chunk.
Write(c) ==
    /\ keep
    /\ file[c] = "hole"
    /\ \E d \in Data \cup {"torn"} : file' = [file EXCEPT ![c] = d]
    /\ UNCHANGED <<keep, verdict>>

Exit(v) ==
    /\ verdict = "running"
    /\ v = "ok" /\ keep => Complete
    /\ verdict' = v
    /\ UNCHANGED <<keep, file>>

Next ==
    \/ Empty
    \/ \E c \in Chunks : Write(c)
    \/ \E v \in {"ok", "failed"} : Exit(v)

Spec == Init /\ [][Next]_fvars
=============================================================================
