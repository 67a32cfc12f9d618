------------------------------ MODULE Transfer ------------------------------
(***************************************************************************)
(* SupabaseBackend.upload and download: one file sent to the bucket by the *)
(* resumable protocol, and the objects fetched to one local path through   *)
(* its .part file.  Content is a sequence of chunks.  The connection may   *)
(* break and the process may die between any two chunks, an answer may be  *)
(* lost after the server acted, the server may forget an unfinished upload *)
(* and may answer a range request with the whole object.                   *)
(***************************************************************************)
EXTENDS Absent, Naturals, Sequences, SequencesExt

CONSTANTS
    Objects,      \* contents in the bucket that are fetched to the same path
    LocalFile     \* the content that is sent

ASSUME TransferAssumption ==
    /\ Objects \subseteq Seq(Nat)      \* a chunk is a number
    /\ LocalFile \in Seq(Nat)
    /\ None \notin Seq(Nat)

VARIABLES
    dest, part_file, \* the local path and its .part; None when absent
    fetch,        \* the running download: the object asked for, the next chunk
    session_,     \* the server's unfinished upload: the chunks it holds
    saved,        \* <key>.tus.json: whether it names that upload
    send,         \* the running upload: idle, or the offset it continues from
    object        \* the object under the key once the upload is complete

transferVars == <<dest, part_file, fetch, session_, saved, send, object>>
downloadVars == <<dest, part_file, fetch>>
uploadVars == <<session_, saved, send, object>>

NoFetch == [object |-> None, next |-> 0]

TransferInit ==
    /\ dest = None /\ part_file = None /\ fetch = NoFetch
    /\ session_ = None /\ saved = FALSE /\ send = None /\ object = None

PartBytes == IF part_file = None THEN <<>> ELSE part_file

\* Nothing is fetched when the path holds the object; a part that is too long is
\* dropped, and a complete one is only verified.
BeginDownload(o) ==
    /\ fetch = NoFetch
    /\ dest # o
    /\ LET kept == IF Len(PartBytes) > Len(o) THEN <<>> ELSE PartBytes
       IN  \/ /\ part_file' = kept                \* the range, or nothing left to ask
              /\ fetch' = [object |-> o, next |-> Len(kept) + 1]
           \/ /\ Len(kept) < Len(o)               \* the whole object
              /\ part_file' = <<>>
              /\ fetch' = [object |-> o, next |-> 1]
    /\ UNCHANGED <<dest, uploadVars>>

ReceiveChunk ==
    /\ fetch # NoFetch
    /\ fetch.next <= Len(fetch.object)
    /\ part_file' = Append(part_file, fetch.object[fetch.next])
    /\ fetch' = [fetch EXCEPT !.next = @ + 1]
    /\ UNCHANGED <<dest, uploadVars>>

FetchedAll == fetch # NoFetch /\ fetch.next > Len(fetch.object)
EndUnverified ==
    /\ FetchedAll
    /\ dest' = part_file /\ part_file' = None
    /\ fetch' = NoFetch
    /\ UNCHANGED uploadVars

\* Length and digest decide between the path and the bin.
EndDownload ==
    /\ FetchedAll
    /\ dest' = IF part_file = fetch.object THEN part_file ELSE dest
    /\ part_file' = None
    /\ fetch' = NoFetch
    /\ UNCHANGED uploadVars

\* The connection breaks or the process dies: what was received stays.
BreakDownload ==
    /\ fetch # NoFetch
    /\ fetch' = NoFetch
    /\ UNCHANGED <<dest, part_file, uploadVars>>

\* The object is there already; or the saved upload is resumed at the server's
\* offset; or, when the server has forgotten it, a new one is created and saved.
BeginUpload ==
    /\ send = None /\ object = None
    /\ IF saved /\ session_ # None
       THEN send' = Len(session_) /\ UNCHANGED <<session_, saved>>
       ELSE /\ session_' = <<>>
            /\ saved' \in BOOLEAN                 \* killed before it is saved
            /\ send' = IF saved' THEN 0 ELSE None
    /\ UNCHANGED <<object, downloadVars>>

\* A PATCH at the offset the server holds; its answer may be lost.
SendChunk ==
    /\ send # None /\ session_ # None
    /\ send = Len(session_) /\ send < Len(LocalFile)
    /\ session_' = Append(session_, LocalFile[send + 1])
    /\ object' = IF Len(session_') = Len(LocalFile) THEN session_' ELSE None
    /\ send' \in {None, IF object' = None THEN send + 1 ELSE None}
    /\ UNCHANGED <<saved, downloadVars>>

BreakUpload ==
    /\ send # None
    /\ send' = None
    /\ UNCHANGED <<session_, saved, object, downloadVars>>

\* The server drops an upload it has kept for a day.
ForgetUpload ==
    /\ session_ # None /\ object = None
    /\ session_' = None
    /\ UNCHANGED <<saved, send, object, downloadVars>>

TransferNext ==
    \/ \E o \in Objects : BeginDownload(o)
    \/ ReceiveChunk \/ EndDownload \/ BreakDownload
    \/ BeginUpload \/ SendChunk \/ BreakUpload \/ ForgetUpload

\* Whatever is broken off and resumed, and although one path may be asked for
\* different objects, the path only ever holds one of them whole, and the bucket
\* only ever shows the local file whole.
TransferExact == dest \in Objects \cup {None} /\ object \in {LocalFile, None}
=============================================================================
