---------------------------- MODULE ScepRelease ----------------------------
(***************************************************************************)
(* get_scepclient_binary (zentral/contrib/filebeat/scepclient_releases.py)*)
(* called by several worker processes of the application at once.  The    *)
(* release directory on disk is shared; each call holds its own temporary *)
(* zip file, so the download is private to the call and is one step.  The *)
(* extraction writes every amd64 binary of the zip straight to its final  *)
(* path, one 64 KiB chunk at a time.  A worker can be killed at any point  *)
(* (the application server's worker timeout) and its file handles vanish;  *)
(* what it wrote stays on disk.                                            *)
(***************************************************************************)
EXTENDS Naturals, Sequences

CONSTANTS
    Workers,        \* worker processes calling get_scepclient_binary
    Platforms,      \* values of the platform argument
    ZipBinaries,    \* platforms of the scepclient-*-amd64 members, zip order
    Chunks          \* 64 KiB chunks in one binary

ASSUME ZipBinaries \in Seq(Platforms) /\ Chunks \in Nat \ {0}

VARIABLES
    onDisk,     \* platforms whose binary path exists in the release dir
    data,       \* data[pl]: the chunks of the binary present in that file
    pc,         \* the line each worker is at
    plat,       \* the platform argument of the worker's call
    member,     \* index in ZipBinaries of the member being extracted
    off,        \* chunks of the member the worker has written
    served      \* ghost: the file contents calls have returned the path of

vars == <<onDisk, data, pc, plat, member, off, served>>

Binary == 1..Chunks

TypeOK ==
    /\ onDisk \subseteq Platforms
    /\ data \in [Platforms -> SUBSET Binary]
    /\ pc \in [Workers -> {"idle", "download", "open", "write", "chmod"}]
    /\ plat \in [Workers -> Platforms]
    /\ member \in [Workers -> 1..Len(ZipBinaries) + 1]
    /\ off \in [Workers -> 0..Chunks]
    /\ served \subseteq SUBSET Binary

Init ==
    /\ onDisk = {}
    /\ data = [pl \in Platforms |-> {}]
    /\ pc = [w \in Workers |-> "idle"]
    /\ plat \in [Workers -> Platforms]
    /\ member = [w \in Workers |-> 1]
    /\ off = [w \in Workers |-> 0]
    /\ served = {}

Goto(w, l) == pc' = [pc EXCEPT ![w] = l]

\* Lines 10-24: the release dir is created and the binary path tested.
Call(w) ==
    /\ pc[w] = "idle"
    /\ \E pl \in Platforms :
        /\ plat' = [plat EXCEPT ![w] = pl]
        /\ Goto(w, IF pl \in onDisk THEN "chmod" ELSE "download")
    /\ UNCHANGED <<onDisk, data, member, off, served>>

\* Lines 26-35: the release is fetched into the call's own temporary file
\* and opened as a zip.  requests.get raises on a network error; on an
\* HTTP error it returns the error page, and ZipFile raises BadZipFile.
\* Either way the call raises with nothing written to the release dir.
Download(w) ==
    /\ pc[w] = "download"
    /\ \/ /\ member' = [member EXCEPT ![w] = 1]
          /\ Goto(w, IF ZipBinaries = <<>> THEN "chmod" ELSE "open")
       \/ /\ Goto(w, "idle")
          /\ UNCHANGED member
    /\ UNCHANGED <<onDisk, data, plat, off, served>>

\* Line 45: open(local_binary_path, "wb") creates or truncates the file.
Open(w) ==
    LET pl == ZipBinaries[member[w]] IN
    /\ pc[w] = "open"
    /\ onDisk' = onDisk \cup {pl}
    /\ data' = [data EXCEPT ![pl] = {}]
    /\ off' = [off EXCEPT ![w] = 0]
    /\ Goto(w, "write")
    /\ UNCHANGED <<plat, member, served>>

\* Lines 46-48: the next chunk is written at the handle's own offset.
WriteChunk(w) ==
    LET pl == ZipBinaries[member[w]] IN
    /\ pc[w] = "write"
    /\ off[w] < Chunks
    /\ data' = [data EXCEPT ![pl] = @ \cup {off[w] + 1}]
    /\ off' = [off EXCEPT ![w] = @ + 1]
    /\ UNCHANGED <<onDisk, pc, plat, member, served>>

\* Lines 49-51 and 42: the member is read to its end, both files are
\* closed, and the loop moves to the next member.
CloseBinary(w) ==
    /\ pc[w] = "write"
    /\ off[w] = Chunks
    /\ member' = [member EXCEPT ![w] = @ + 1]
    /\ Goto(w, IF member[w] < Len(ZipBinaries) THEN "open" ELSE "chmod")
    /\ UNCHANGED <<onDisk, data, plat, off, served>>

\* Lines 52-53: os.chmod raises FileNotFoundError when the zip held no
\* binary for the platform; otherwise the path is returned.
Chmod(w) ==
    /\ pc[w] = "chmod"
    /\ served' = IF plat[w] \in onDisk THEN served \cup {data[plat[w]]}
                                      ELSE served
    /\ Goto(w, "idle")
    /\ UNCHANGED <<onDisk, data, plat, member, off>>

\* The worker process is killed inside the call; the disk keeps what it
\* wrote.
Crash(w) ==
    /\ pc[w] # "idle"
    /\ Goto(w, "idle")
    /\ UNCHANGED <<onDisk, data, plat, member, off, served>>

Next ==
    \E w \in Workers :
        \/ Call(w) \/ Download(w) \/ Open(w) \/ WriteChunk(w)
        \/ CloseBinary(w) \/ Chmod(w) \/ Crash(w)

Spec == Init /\ [][Next]_vars

(***************************************************************************)
(* Properties                                                              *)
(***************************************************************************)

\* Every path get_scepclient_binary returns names a complete binary: the
\* existence test at line 24 is what the callers rely on to skip the
\* download, so a file another worker is still extracting, or one a killed
\* worker left half written, must never be taken for the release.
ReturnsCompleteBinary == \A content \in served : content = Binary
=============================================================================
